-------------------------------- MODULE Routing --------------------------------
(***************************************************************************)
(* ProxmoxRoutingManager (routing.py): NAT rules kept as lines of the        *)
(* interfaces file of a Proxmox node, edited over SSH by read, change and    *)
(* write back, and made live by flushing PREROUTING and reloading.  Every    *)
(* SSH call of a manager is a step, and a write is two (the upload of a      *)
(* temporary file and mv), so that other managers of the same node and       *)
(* failures come between any two.  Nobody reads the exit code of a command:  *)
(* it may fail and the call goes on.  A rule is its post-up and post-down    *)
(* pair of lines; InterfacesFile models the lines, RemoteFile the upload.    *)
(***************************************************************************)
EXTENDS Integers, FiniteSets

CONSTANTS
    Managers,    \* the routing managers of one node
    MaxTag,      \* tags 1..MaxTag, in the order of "<vm_name>_<service>"
    FirstPort,   \* port_range is (FirstPort, EndPort), its end excluded
    EndPort,
    Listening,   \* ports the node listens on, as "ss -tln" reports them
    Mappings,    \* Mappings[m]: the mappings that calls of manager m may list; those
                 \* with the same tag differ in "nth"
    Unreadable,  \* tags whose rules _RULE_RE does not match (an empty VM name)
    InitFile,    \* the rules in the file at the start
    GoOn,        \* bound: whether calls begin after two uploads have run at once
    Faults       \* which kinds of failure happen in this instance

Tags == 1..MaxTag
PortRange == FirstPort..(EndPort - 1)
Rule == [tag : Tags, port : PortRange]
PortsOf(rules) == {r.port : r \in rules}
TagsOf(rules) == {r.tag : r \in rules}
CallTags == UNION {TagsOf(Mappings[m]) : m \in Managers}
FaultKinds == {"raise",                        \* an SSH call raises
               "ss", "mv", "flush", "reload"}  \* a command fails: its exit code says so
Outsider == [tag |-> 0, port |-> 0]  \* a PREROUTING rule that is not in the file

ASSUME BoundsAssumption ==
    /\ MaxTag \in Nat
    /\ FirstPort \in Nat
    /\ EndPort \in Nat
ASSUME RulesAssumption ==
    /\ Listening \subseteq Nat
    /\ Mappings \in [Managers -> SUBSET [tag : Tags, nth : Nat]]
    /\ Unreadable \subseteq Tags
    /\ InitFile \subseteq Rule
    /\ GoOn \in BOOLEAN
    /\ Faults \subseteq FaultKinds

VARIABLES
    file,       \* the rules of the interfaces file
    live,       \* the rules of the PREROUTING chain
    pc,         \* pc[m]: the SSH call manager m makes next
    op,         \* op[m]: the method m runs or ran last
    want,       \* want[m]: its mappings
    reserved,   \* reserved[m]: the ports ss reported, until add_rules has its own
    assigned,   \* assigned[m]: the rules add_rules is to write
    copy,       \* copy[m]: the content m has read and not yet written back
    result,     \* result[m]: how its last call ended
    old,        \* old[m]: the rules of its tags when its last call began
    failed,     \* failed[m]: whether something of m's last call has failed ("now"), or of
                \* one before it and none since has returned without a failure ("before")
    mixed,      \* the managers whose upload runs while another's does
    overlapped  \* whether two uploads ever did

local == <<op, want, reserved, assigned, copy, result, old, failed>>
vars == <<file, live, pc, local, mixed, overlapped>>

-----------------------------------------------------------------------------

Moving == {"rm_move", "move"}
Stages == {"idle", "ss", "claimed", "rm_read", "rm_write", "read", "write",
           "flush", "reload"} \cup Moving

\* Mutant of Without: the tags are matched as prefixes, so a tag takes the next
WithoutPrefix(rules, tags) ==
    {r \in rules : r.tag \notin tags /\ r.tag - 1 \notin tags}

\* _remove_from_file keeps the lines that end with none of the tags.
Without(rules, tags) == {r \in rules : r.tag \notin tags}
Named(rules, tags) == {r \in rules : r.tag \in tags}

\* Mutant of Claimed: only the first rule of the file is looked at
ClaimedFirst(rules) ==
    {p \in PortsOf(rules) : \A r \in rules : p <= r.port}

\* The ports add_rules finds in the file: those of the rules it can parse.
Claimed(rules) == PortsOf({r \in rules : r.tag \notin Unreadable})

RulesFor(maps, port) == {[tag |-> x.tag, port |-> port[x]] : x \in maps}

\* add_rules sorts its mappings; those with one tag stay in the order of the list.
Before(x, y) == x.tag < y.tag \/ (x.tag = y.tag /\ x.nth < y.nth)

\* "port" gives the mappings, in order, the lowest ports that are not taken.
LowestFree(port, maps, taken) ==
    /\ \A x, y \in maps : Before(x, y) => port[x] < port[y]
    /\ \A x \in maps : port[x] \notin taken
    /\ \A x \in maps : \A p \in PortRange \ taken :
          p < port[x] => \E y \in maps : port[y] = p

Init ==
    /\ file = InitFile
    /\ live = InitFile \cup {Outsider}
    /\ pc = [m \in Managers |-> "idle"]
    /\ op = [m \in Managers |-> "none"]
    /\ want = [m \in Managers |-> {}]
    /\ reserved = [m \in Managers |-> {}]
    /\ assigned = [m \in Managers |-> {}]
    /\ copy = [m \in Managers |-> {}]
    /\ result = [m \in Managers |-> "none"]
    /\ old = [m \in Managers |-> {}]
    /\ failed = [m \in Managers |-> "no"]
    /\ mixed = {}
    /\ overlapped = FALSE

Goto(m, stage) == pc' = [pc EXCEPT ![m] = stage]
End(m, how) == Goto(m, "idle") /\ result' = [result EXCEPT ![m] = how]

-----------------------------------------------------------------------------
(* The calls.  add_rules([]) makes no SSH call and is not a step. *)

Call(m, method, maps, first) ==
    /\ pc[m] = "idle" /\ (GoOn \/ ~overlapped)
    /\ Goto(m, first)
    /\ op' = [op EXCEPT ![m] = method]
    /\ want' = [want EXCEPT ![m] = maps]
    /\ reserved' = [reserved EXCEPT ![m] = {}]
    /\ assigned' = [assigned EXCEPT ![m] = {}]
    /\ copy' = [copy EXCEPT ![m] = {}]
    /\ result' = [result EXCEPT ![m] = "none"]
    /\ old' = [old EXCEPT ![m] = Named(file, TagsOf(maps))]
    /\ failed' = [failed EXCEPT ![m] = IF @ = "no" THEN "no" ELSE "before"]
    /\ UNCHANGED <<file, live, mixed, overlapped>>

AddRules(m) ==
    \E maps \in SUBSET Mappings[m] : maps # {} /\ Call(m, "add", maps, "ss")
RemoveRules(m) ==
    \E maps \in SUBSET Mappings[m] : Call(m, "remove", maps, "rm_read")
FlushRules(m) == Call(m, "flush", {}, "flush")

-----------------------------------------------------------------------------
(* The SSH calls *)

\* A command that fails without the manager's notice.
Unnoticed(m, command) == command \in Faults /\ failed' = [failed EXCEPT ![m] = "now"]

\* When ss fails, what it printed until then is taken for all.
RunSs(m) ==
    /\ pc[m] = "ss"
    /\ \/ reserved' = [reserved EXCEPT ![m] = Listening] /\ UNCHANGED failed
       \/ /\ \E some \in SUBSET Listening : reserved' = [reserved EXCEPT ![m] = some]
          /\ Unnoticed(m, "ss")
    /\ Goto(m, "claimed")
    /\ UNCHANGED <<file, live, op, want, assigned, copy, result, old, mixed, overlapped>>

\* Mutant of ReadClaimed: the end of port_range is included
ReadClaimedInclusive(m) ==
    /\ pc[m] = "claimed"
    /\ \E port \in [want[m] -> FirstPort..EndPort] :
          /\ LowestFree(port, want[m], reserved[m] \cup Claimed(file))
          /\ assigned' = [assigned EXCEPT ![m] = RulesFor(want[m], port)]
    /\ reserved' = [reserved EXCEPT ![m] = {}]
    /\ Goto(m, "rm_read")
    /\ UNCHANGED <<file, live, op, want, copy, result, old, failed, mixed, overlapped>>

\* The ports are chosen here, once, and written only after two more reads.
ReadClaimed(m) ==
    /\ pc[m] = "claimed"
    /\ \E port \in [want[m] -> PortRange] :
          /\ LowestFree(port, want[m], reserved[m] \cup Claimed(file))
          /\ assigned' = [assigned EXCEPT ![m] = RulesFor(want[m], port)]
    /\ reserved' = [reserved EXCEPT ![m] = {}]
    /\ Goto(m, "rm_read")
    /\ UNCHANGED <<file, live, op, want, copy, result, old, failed, mixed, overlapped>>

TooFew(m) == Cardinality(PortRange \ (reserved[m] \cup Claimed(file)))
                < Cardinality(want[m])

\* Mutant of Exhausted: the old rules are removed before the ports are counted
ExhaustedAfterRemoval(m) ==
    /\ pc[m] = "claimed" /\ TooFew(m)
    /\ End(m, "exhausted")
    /\ file' = Without(file, TagsOf(want[m]))
    /\ UNCHANGED <<live, op, want, reserved, assigned, copy, old, failed, mixed, overlapped>>

Exhausted(m) ==
    /\ pc[m] = "claimed" /\ TooFew(m)
    /\ End(m, "exhausted")
    /\ UNCHANGED <<file, live, op, want, reserved, assigned, copy, old, failed, mixed,
                   overlapped>>

Read(m) ==
    /\ pc[m] \in {"rm_read", "read"}
    /\ copy' = [copy EXCEPT ![m] = file]
    /\ Goto(m, IF pc[m] = "rm_read" THEN "rm_write" ELSE "write")
    /\ UNCHANGED <<file, live, op, want, reserved, assigned, result, old, failed, mixed,
                   overlapped>>

-----------------------------------------------------------------------------
(* The writes: first _remove_from_file, then, in add_rules, that of the new rules *)

\* Mutant of Content: the lines that were read are not written back
ContentNew(m) ==
    IF pc[m] \in {"rm_write", "rm_move"} THEN Without(copy[m], TagsOf(want[m]))
                                         ELSE assigned[m]

\* What m writes, or has written to the temporary file.
Content(m) ==
    IF pc[m] \in {"rm_write", "rm_move"} THEN Without(copy[m], TagsOf(want[m]))
                                         ELSE copy[m] \cup assigned[m]

\* All managers upload to the same temporary file.
Upload(m) ==
    LET others == {n \in Managers \ {m} : pc[n] \in Moving} IN
    /\ pc[m] \in {"rm_write", "write"}
    /\ Goto(m, IF pc[m] = "rm_write" THEN "rm_move" ELSE "move")
    /\ mixed' = IF others = {} THEN mixed ELSE mixed \cup others \cup {m}
    /\ overlapped' = (overlapped \/ others # {})
    /\ UNCHANGED <<file, live, local>>

\* What uploads that ran at once leave: any of the rules that one of them held.
Mixtures == SUBSET (file \cup UNION {Content(n) : n \in {m \in Managers : pc[m] \in Moving}})

\* The other upload has been moved already, and m still writes to that file.
WriteOn(m) ==
    /\ pc[m] \in Moving /\ m \in mixed
    /\ file' \in Mixtures
    /\ UNCHANGED <<live, pc, local, mixed, overlapped>>

\* mv.  When it fails, the file stays as it was.
Moved(m, next) ==
    /\ pc[m] \in Moving
    /\ \/ m \notin mixed /\ file' = Content(m) /\ UNCHANGED failed
       \/ m \in mixed /\ file' \in Mixtures /\ UNCHANGED failed
       \/ Unnoticed(m, "mv") /\ UNCHANGED file
    /\ copy' = [copy EXCEPT ![m] = {}]
    /\ mixed' = mixed \ {m}
    /\ Goto(m, next)
    /\ UNCHANGED <<live, op, want, reserved, assigned, result, old, overlapped>>

\* Mutant of Move: remove_rules returns without flush and reload
MoveNoReload(m) ==
    Moved(m, IF pc[m] = "move" THEN "flush" ELSE IF op[m] = "add" THEN "read" ELSE "idle")

Move(m) == Moved(m, IF pc[m] = "rm_move" /\ op[m] = "add" THEN "read" ELSE "flush")

-----------------------------------------------------------------------------

Flush(m) ==
    /\ pc[m] = "flush"
    /\ \/ live' = {} /\ UNCHANGED failed
       \/ Unnoticed(m, "flush") /\ UNCHANGED live
    /\ Goto(m, "reload")
    /\ UNCHANGED <<file, op, want, reserved, assigned, copy, result, old, mixed, overlapped>>

\* When ifreload fails, it has loaded some of the rules.
Reload(m) ==
    /\ pc[m] = "reload"
    /\ \/ /\ live' = live \cup file
          /\ failed' = [failed EXCEPT ![m] = IF @ = "now" THEN "now" ELSE "no"]
       \/ Unnoticed(m, "reload") /\ \E some \in SUBSET file : live' = live \cup some
    /\ End(m, "returned")
    /\ UNCHANGED <<file, op, want, reserved, assigned, copy, old, mixed, overlapped>>

\* The connection drops: the call that was next raises and none after it is made.  So
\* also when the reply to the one before it is lost; that to ifreload has none after it.
SshRaises(m) ==
    /\ "raise" \in Faults /\ pc[m] # "idle"
    /\ live' = live \/ (pc[m] = "reload" /\ live' = live \cup file)
    /\ failed' = [failed EXCEPT ![m] = "now"]
    /\ mixed' = mixed \ {m}
    /\ End(m, "raised")
    /\ UNCHANGED <<file, op, want, reserved, assigned, copy, old, overlapped>>

Step(m) ==
    \/ AddRules(m) \/ RemoveRules(m) \/ FlushRules(m)
    \/ RunSs(m) \/ ReadClaimed(m) \/ Exhausted(m)
    \/ Read(m) \/ Upload(m) \/ WriteOn(m) \/ Move(m)
    \/ Flush(m) \/ Reload(m) \/ SshRaises(m)

Next == \E m \in Managers : Step(m)

Spec == Init /\ [][Next]_vars

-----------------------------------------------------------------------------
(* Properties *)

\* The variables keep their types.
TypeOK ==
    /\ file \subseteq Rule
    /\ live \subseteq Rule \cup {Outsider}
    /\ pc \in [Managers -> Stages]
    /\ op \in [Managers -> {"none", "add", "remove", "flush"}]
    /\ want \in [Managers -> SUBSET [tag : Tags, nth : Nat]]
    /\ \A m \in Managers : want[m] \subseteq Mappings[m]
    /\ reserved \in [Managers -> SUBSET Nat]
    /\ assigned \in [Managers -> SUBSET Rule]
    /\ copy \in [Managers -> SUBSET Rule]
    /\ result \in [Managers -> {"none", "returned", "raised", "exhausted"}]
    /\ old \in [Managers -> SUBSET Rule]
    /\ failed \in [Managers -> {"no", "before", "now"}]
    /\ mixed \subseteq Managers
    /\ overlapped \in BOOLEAN

Idle == \A m \in Managers : pc[m] = "idle"
RulesBut(rules, tags) == {r \in rules : r.tag \notin tags}
UnmanagedRules(rules) == RulesBut(rules, CallTags)

\* Whatever managers run at once and wherever they fail, noticed or not, the file keeps
\* the rules that no call names, and nothing gains a rule under such a tag
\* (routing.py:290), unless two managers have uploaded at once: they share one
\* temporary file (_backend.py:198), and what is moved then may be anything.
UnmanagedKept == ~overlapped => UnmanagedRules(file) = UnmanagedRules(InitFile)

\* When no call is running and none has failed, or each that did was followed by one
\* of the same manager that did not, the live rules are those of the file, whichever
\* manager's flush and reload came last (routing.py:303).
ReloadedWhenIdle ==
    /\ Idle /\ \A m \in Managers : failed[m] = "no"
    /\ \E m \in Managers : result[m] = "returned"
    => live = file

\* One manager's writes, calls that fail half way or without notice included, are
\* operations on a table of rules: each removes the rules of the tags its call names,
\* or gives every one of them new rules, and no two rules ever share a port
\* (routing.py:246).
Table == INSTANCE RuleTable WITH Ports <- PortRange, table <- file
IsRuleTable == Table!Spec

\* A manager running alone changes only what its call names: no step of a call
\* touches a rule under another tag.
OthersUndisturbed ==
    [][\A m \in Managers :
          RulesBut(file', TagsOf(want'[m])) = RulesBut(file, TagsOf(want'[m]))]_vars

\* The ports of new rules: one for each mapping, in the range, its end excluded, and
\* nobody listens on them.
GivenTo(maps, rules) ==
    \E port \in [maps -> PortRange \ Listening] :
       /\ \A x, y \in maps : port[x] = port[y] => x = y
       /\ rules = RulesFor(maps, port)

\* A call that returned did what it was asked (one manager), unless one of its commands
\* has failed: nobody would know, the exit codes are not looked at (routing.py:250,
\* 304-305, _backend.py:203).
ReturnedDone ==
    \A m \in Managers : pc[m] = "idle" /\ result[m] = "returned" /\ failed[m] = "no" =>
        /\ op[m] = "add" => /\ Named(file, TagsOf(want[m])) = assigned[m]
                            /\ GivenTo(want[m], assigned[m])
        /\ op[m] = "remove" => Named(file, TagsOf(want[m])) = {}
        /\ live = file

\* When the ports do not suffice, add_rules raises and the file keeps the old
\* rules of the mappings (routing.py:177-180).
ExhaustionHarmless ==
    \A m \in Managers : result[m] = "exhausted" =>
        Named(file, TagsOf(want[m])) = old[m]

-----------------------------------------------------------------------------
(* The inductive invariants that Routing_proofs rests on *)

\* Everything a manager may write back holds the unmanaged rules.
CopiesComplete ==
    /\ \A m \in Managers : TagsOf(assigned[m]) \subseteq CallTags
    /\ ~overlapped =>
          /\ mixed = {}
          /\ \A m, n \in Managers : pc[m] \in Moving /\ pc[n] \in Moving => m = n
          /\ UnmanagedRules(file) = UnmanagedRules(InitFile)
          /\ \A m \in Managers : pc[m] \in {"rm_write", "write"} \cup Moving =>
                UnmanagedRules(copy[m]) = UnmanagedRules(InitFile)

\* While the live rules and the file differ, somebody has still to reload, and
\* while live rules are obsolete, somebody has still to flush, or has failed to.
OwesFlush(m) == \/ pc[m] \in {"read", "write", "flush"} \cup Moving
                \/ failed[m] = "now" \/ (failed[m] = "before" /\ pc[m] # "reload")
OwesReload(m) == pc[m] \in {"read", "write", "flush", "reload"} \cup Moving
                 \/ failed[m] # "no"
ReloadPending ==
    \/ \A m \in Managers : pc[m] # "reload" /\ result[m] # "returned"
    \/ /\ live \subseteq file \/ \E m \in Managers : OwesFlush(m)
       /\ live = file \/ \E m \in Managers : OwesReload(m)

\* No port forwards to two targets.
PortsUnique == Table!Unique(file)

\* One manager's choice of ports stays good until it is written.
Fits(rules, others) ==
    /\ Table!Unique(rules)
    /\ PortsOf(rules) \cap PortsOf(others) = {}
ChoiceFits ==
    /\ PortsUnique /\ mixed = {}
    /\ \A m \in Managers :
          /\ pc[m] \in {"rm_read", "rm_write", "read", "write"} \cup Moving
               => Fits(assigned[m], file)
          /\ pc[m] \in {"rm_write", "write"} \cup Moving => copy[m] = file

\* How far one manager's call is with the file.
Removed(m) == failed[m] # "now" => Named(file, TagsOf(want[m])) = {}
CallProgress(m) ==
    /\ result[m] # "none" => pc[m] = "idle"
    /\ pc[m] \in {"ss", "claimed", "read", "write", "move"} => op[m] = "add"
    /\ pc[m] \in {"ss", "claimed"} => Named(file, TagsOf(want[m])) = old[m]
    /\ pc[m] \in {"rm_write", "write"} \cup Moving => copy[m] = file
    /\ pc[m] = "claimed" /\ failed[m] # "now" => reserved[m] = Listening
    /\ pc[m] \in {"rm_read", "rm_write", "read", "write", "flush", "reload"} \cup Moving
         /\ op[m] = "add" =>
              /\ TagsOf(assigned[m]) = TagsOf(want[m])
              /\ failed[m] # "now" => GivenTo(want[m], assigned[m])
    /\ pc[m] \in {"read", "write", "move"} => Removed(m)
    /\ pc[m] \in {"flush", "reload"} =>
         /\ op[m] = "add" /\ failed[m] # "now" =>
               Named(file, TagsOf(want[m])) = assigned[m]
         /\ op[m] = "remove" => Removed(m)
    /\ pc[m] = "reload" /\ failed[m] # "now" => live = {}
SoleInv ==
    /\ mixed = {}
    /\ \A m \in Managers : CallProgress(m)
    /\ ReturnedDone /\ ExhaustionHarmless
=============================================================================
