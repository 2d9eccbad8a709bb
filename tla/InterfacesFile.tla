----------------------------- MODULE InterfacesFile -----------------------------
(***************************************************************************)
(* How ProxmoxRoutingManager (routing.py) edits the lines of the interfaces  *)
(* file: where add_rules inserts a rule's post-up and post-down lines, and   *)
(* which lines _remove_from_file takes out.  Routing has the same calls step *)
(* by step on sets of rules; here a call is one step, on lines.              *)
(***************************************************************************)
EXTENDS Integers, Sequences, FiniteSetsExt

CONSTANTS
    MaxTag,    \* tags 1..MaxTag, in the order of "<vm_name>_<service>"
    CallTags,  \* the tags that calls name
    MaxPort,   \* host ports 1..MaxPort
    MaxMappings,  \* bound: the mappings that one call lists
    Files      \* what the file may be at the start: its lines, and whether
               \* the last of them is open, that is, ends without a newline

\* Names of interfaces: internal_iface, one that merely begins like it, another.
Ifaces == {"vmbr1", "vmbr10", "vmbr0"}
Internal == "vmbr1"
Tags == 1..MaxTag
Ports == 1..MaxPort

\* A line is what it begins with and the rule, if any, that it ends with.
Heads == {"iface", "auto", "option", "blank", "rule"}
Line == [head : Heads, name : Ifaces \cup {""}, way : {"none", "up", "down"},
         tag : 0..MaxTag, port : 0..MaxPort]
Plain(head, name) == [head |-> head, name |-> name, way |-> "none", tag |-> 0, port |-> 0]
RuleLine(way, tag, port) ==
    [head |-> "rule", name |-> "", way |-> way, tag |-> tag, port |-> port]
Rule == [tag : Tags, port : Ports]

ASSUME FileAssumption ==
    /\ MaxTag \in Nat /\ MaxPort \in Nat /\ MaxMappings \in Nat
    /\ CallTags \subseteq Tags
    /\ \A f \in Files : f.lines \in Seq(Line) /\ f.open \in BOOLEAN

VARIABLES
    lines,  \* the lines of the file
    open,   \* TRUE iff the last one does not end with a newline
    first   \* the lines there were at the start

vars == <<lines, open, first>>

Init ==
    /\ \E f \in Files : first = f.lines /\ open = f.open
    /\ lines = first

RulesOf(ls) == {[tag |-> l.tag, port |-> l.port] : l \in {l \in Range(ls) : l.way = "up"}}

\* Mutant of Claimed: rules that a call may replace are not looked at
ClaimedByOthers == {r.port : r \in {r \in RulesOf(lines) : r.tag \notin CallTags}}

Claimed == {r.port : r \in RulesOf(lines)}

-----------------------------------------------------------------------------
(* _find_iface_insert_point *)

\* The name is compared as a prefix.
StartsBlock(l) == l.head = "iface" /\ l.name \in {"vmbr1", "vmbr10"}
EndsBlock(l) == l.head = "blank" \/ (l.head = "iface" /\ ~StartsBlock(l))

\* Mutant of InsertPoint: the end of the stanza is the next iface line
InsertPointAtIface(ls) ==
    Min({i \in DOMAIN ls : /\ ls[i].head = "iface" /\ ~StartsBlock(ls[i])
                           /\ \E j \in 1..(i - 1) : StartsBlock(ls[j])}
        \cup {Len(ls) + 1})

InsertPoint(ls) ==
    Min({i \in DOMAIN ls : /\ EndsBlock(ls[i])
                           /\ \E j \in 1..(i - 1) : StartsBlock(ls[j])}
        \cup {Len(ls) + 1})

-----------------------------------------------------------------------------
(* add_rules and remove_rules *)

\* Mutant of Lines: the lines are inserted the other way round
LinesReversed(tag, port) == <<RuleLine("down", tag, port), RuleLine("up", tag, port)>>

Lines(tag, port) == <<RuleLine("up", tag, port), RuleLine("down", tag, port)>>

Inserted(ls, new) ==
    LET i == InsertPoint(ls) IN SubSeq(ls, 1, i - 1) \o new \o SubSeq(ls, i, Len(ls))

\* The rules of a call are inserted one after the other.
InsertedAll(ls, new) ==
    LET done[n \in 0..Len(new)] ==
          IF n = 0 THEN ls ELSE Inserted(done[n - 1], Lines(new[n].tag, new[n].port))
    IN done[Len(new)]

\* Joined, a line without a newline and the line after it become one.
Joined(ls, at) ==
    SubSeq(ls, 1, at - 1)
    \o <<[ls[at] EXCEPT !.way = ls[at + 1].way, !.tag = ls[at + 1].tag,
                        !.port = ls[at + 1].port]>>
    \o SubSeq(ls, at + 2, Len(ls))

\* The lines that stay of the first n, for every n.
Kept(ls, tags) ==
    LET kept[n \in 0..Len(ls)] ==
          IF n = 0 THEN <<>>
          ELSE IF ls[n].tag \in tags THEN kept[n - 1]
          ELSE Append(kept[n - 1], ls[n])
    IN kept

\* Mutant of Without: tags are matched as prefixes, so a tag takes the next
WithoutPrefix(ls, tags) == Kept(ls, tags \cup {t + 1 : t \in tags})[Len(ls)]

\* _remove_from_file drops the lines that end with one of the tags.
Without(ls, tags) == Kept(ls, tags)[Len(ls)]
StaysOpen(tags) == open /\ lines[Len(lines)].tag \notin tags

\* The mappings in the order of their tags, of which a list may hold one twice, and
\* free ports for them in that order (Routing: the lowest).
Chosen(new) ==
    /\ \A n \in DOMAIN new : new[n].port \notin Claimed
    /\ \A k, n \in DOMAIN new : k < n => /\ new[k].tag <= new[n].tag
                                        /\ new[k].port < new[n].port

\* add_rules writes back the lines it kept with those of the new rules.
Write(kept, unended, new) ==
    LET glued == unended /\ InsertPoint(kept) > Len(kept) IN
    /\ lines' = IF glued THEN Joined(InsertedAll(kept, new), Len(kept))
                ELSE InsertedAll(kept, new)
    /\ open' = (unended /\ ~glued)
    /\ UNCHANGED first

\* The ports are chosen while the old rules of the mappings still have theirs.
AddRules(count) ==
    \E new \in [1..count -> [tag : CallTags, port : Ports]] :
       LET tags == {new[n].tag : n \in DOMAIN new} IN
       Chosen(new) /\ Write(Without(lines, tags), StaysOpen(tags), new)

RemoveRules(tags) ==
    /\ lines' = Without(lines, tags)
    /\ open' = StaysOpen(tags)
    /\ UNCHANGED first

Next == \/ \E count \in 1..MaxMappings : AddRules(count)
        \/ \E tags \in SUBSET CallTags : RemoveRules(tags)

Spec == Init /\ [][Next]_vars

-----------------------------------------------------------------------------
(* Properties *)

Others(ls) == Kept(ls, CallTags)[Len(ls)]

\* The lines that are no rules of calls are those of the file at the start, in
\* their order, whatever calls were made: adding and removing rules leaves
\* everything else as it was (routing.py:43, "without touching others").
OthersKept == Others(lines) = Others(first)

\* The line that begins the stanza that line i is in, or 0.
StanzaOf(i) == Max({j \in 1..i : lines[j].head \in {"iface", "auto"}} \cup {0})
InStanza(i) ==
    LET j == StanzaOf(i) IN j # 0 /\ lines[j].head = "iface" /\ lines[j].name = Internal

\* What is between line s and line e: a stanza that begins like that of internal_iface,
\* or, in a file without any, the rules of calls at its end.
BodyLine(l, found, proper) ==
    /\ ~EndsBlock(l)
    /\ found \/ (~StartsBlock(l) /\ l.tag \in CallTags)
    /\ proper => l.head \in {"option", "rule"}
StanzaAt(ls, unended, proper, s, e) ==
    LET found == s # 0 /\ StartsBlock(ls[s]) IN
    /\ \A i \in 1..(s - 1) : ~StartsBlock(ls[i])
    /\ \A i \in (s + 1)..(e - 1) : BodyLine(ls[i], found, proper)
    /\ IF found THEN ls[s].way # "up" ELSE e \notin DOMAIN ls
    /\ e \in DOMAIN ls => EndsBlock(ls[e])
    /\ proper => found /\ ls[s] = Plain("iface", Internal)
    /\ unended => e \in DOMAIN ls
    /\ \A i \in DOMAIN ls : ls[i].tag \in CallTags => s < i /\ i < e
Separated(ls, unended, proper) ==
    \E s \in 0..Len(ls) : \E e \in (s + 1)..(Len(ls) + 1) : StanzaAt(ls, unended, proper, s, e)

\* The first iface line that begins like that of internal_iface is the one, and a blank
\* line or another iface line ends its stanza, or the file, with no auto line between.
Apart(ls) == Separated(ls, FALSE, TRUE)

\* Every rule of a call follows the first iface line that begins like that of
\* internal_iface, with no blank line and no iface line of another name between them;
\* without such a line nothing but rules of calls follows it (routing.py:207, 311).  So
\* it is in the stanza of internal_iface if that was set apart; if another stanza begins
\* like it or an auto line follows it at once, the reload binds the rule to another.
Placed ==
    /\ \A i \in DOMAIN lines : lines[i].tag \in CallTags =>
          \/ \E s \in 1..(i - 1) :
                /\ StartsBlock(lines[s])
                /\ \A k \in 1..(s - 1) : ~StartsBlock(lines[k])
                /\ \A k \in s..i : ~EndsBlock(lines[k])
          \/ /\ \A k \in DOMAIN lines : ~StartsBlock(lines[k])
             /\ \A k \in i..Len(lines) : lines[k].tag \in CallTags
    /\ Apart(first) => \A i \in DOMAIN lines : lines[i].tag \in CallTags => InStanza(i)

PairedIn(ls) ==
    \A i \in DOMAIN ls : ls[i].way = "up" =>
       i + 1 \in DOMAIN ls /\ ls[i + 1] = RuleLine("down", ls[i].tag, ls[i].port)

\* A rule that goes up comes down: the two lines stand together, the post-up
\* first, however rules were inserted around them (routing.py:209-211).
Paired == PairedIn(lines)

\* On the rules of the file the calls are the operations of a table of rules: a
\* call takes out the rules of its tags and gives each tag new ones or none, and no
\* two rules ever share a port (routing.py:180 and 246).
Table == INSTANCE RuleTable WITH table <- RulesOf(lines)
IsRuleTable == Table!Spec

-----------------------------------------------------------------------------
(* The inductive invariant that InterfacesFile_proofs rests on *)

\* A file that add_rules can edit, and the calls keep it one: the rules of calls, if
\* it has any, are where add_rules puts them, and nothing is written after an open line.
WellFormed(ls, unended, proper) ==
    /\ Separated(ls, unended, proper)
    /\ PairedIn(ls)
    /\ RulesOf(ls) \subseteq Rule
    /\ Table!Unique(RulesOf(ls))
EveryFileWellFormed == \A f \in Files : WellFormed(f.lines, f.open, Apart(f.lines))

LinesInv ==
    /\ lines \in Seq(Line) /\ open \in BOOLEAN /\ first \in Seq(Line)
    /\ WellFormed(lines, open, Apart(first))
    /\ OthersKept
=============================================================================
