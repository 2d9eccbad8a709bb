------------------------------- MODULE RuleTable -------------------------------
(***************************************************************************)
(* What a ProxmoxRoutingManager (routing.py) promises of the rules in the    *)
(* interfaces file: they are a table in which no two rules share a port, and *)
(* a call removes the rules of the tags it names, or gives these tags rules  *)
(* on new ports, and touches no others.  That the old rules of a tag are     *)
(* gone when it gets a new one is not promised: the removal may have failed  *)
(* without the manager's notice.  InterfacesFile and, for one manager,       *)
(* Routing implement it.                                                     *)
(***************************************************************************)
CONSTANTS
    Tags,      \* the tags a rule may have
    Ports,     \* the host ports a rule may have
    CallTags   \* the tags that calls name

VARIABLE table

Rule == [tag : Tags, port : Ports]
Unique(rules) == \A r, s \in rules : r.port = s.port => r = s
Others(tags) == {r \in table : r.tag \notin tags}

Init == table \subseteq Rule /\ Unique(table)

\* remove_rules, and the removal that add_rules begins with
Remove(tags) == table' = Others(tags)

\* add_rules gives every tag a port that no rule has, or several
Assign(tags) ==
    LET new == table' \ table IN
    /\ new \subseteq [tag : tags, port : Ports]
    /\ \A t \in tags : \E r \in new : r.tag = t
    /\ \A r \in new, s \in table \cup new : r.port = s.port => r = s
    /\ table' = table \cup new \/ table' = Others(tags) \cup new

Next == \E tags \in SUBSET CallTags : Remove(tags) \/ Assign(tags)

Spec == Init /\ [][Next]_table
=============================================================================
