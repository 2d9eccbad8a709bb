---------------------------- MODULE Routing_proofs ----------------------------
(***************************************************************************)
(* Theorems about the routing manager: what holds for any number of          *)
(* managers that overwrite each other's changes, and what holds for one.     *)
(***************************************************************************)
EXTENDS Routing, TLAPS

USE BoundsAssumption, RulesAssumption

LEMMA TypeInit == Init => TypeOK
<1> SUFFICES ASSUME Init PROVE TypeOK
  OBVIOUS
<1>1. /\ want \in [Managers -> SUBSET [tag : Tags, nth : Nat]]
      /\ \A m \in Managers : want[m] \subseteq Mappings[m]
  BY DEF Init
<1>2. file \subseteq Rule /\ live \subseteq Rule \cup {Outsider}
  BY DEF Init
<1> QED BY <1>1, <1>2 DEF Init, TypeOK, Stages

LEMMA MixturesTyped ==
    ASSUME TypeOK PROVE \A rules \in Mixtures : rules \subseteq Rule
<1>1. \A m \in Managers : Content(m) \subseteq Rule
  BY DEF TypeOK, Content, Without
<1> QED BY <1>1 DEF TypeOK, Mixtures

LEMMA TypeStep == TypeOK /\ [Next]_vars => TypeOK'
<1> SUFFICES ASSUME TypeOK, [Next]_vars PROVE TypeOK'
  OBVIOUS
<1>0. \A rules \in Mixtures : rules \subseteq Rule
  BY MixturesTyped
<1> USE DEF TypeOK, Stages, Moving, local, Goto, End
<1>1. ASSUME NEW m \in Managers, NEW method \in {"add", "remove", "flush"},
             NEW maps \in SUBSET Mappings[m],
             NEW first \in {"ss", "rm_read", "flush"},
             Call(m, method, maps, first)
      PROVE  TypeOK'
  <2>1. want' \in [Managers -> SUBSET [tag : Tags, nth : Nat]]
        /\ \A n \in Managers : want'[n] \subseteq Mappings[n]
    BY <1>1 DEF Call
  <2>2. old' \in [Managers -> SUBSET Rule]
    BY <1>1 DEF Call, Named
  <2>3. failed' \in [Managers -> {"no", "before", "now"}]
    BY <1>1 DEF Call
  <2> QED BY <1>1, <2>1, <2>2, <2>3 DEF Call
<1>2. ASSUME NEW m \in Managers, Step(m) PROVE TypeOK'
  <2>1. CASE AddRules(m) \/ RemoveRules(m) \/ FlushRules(m)
    BY <2>1, <1>1 DEF AddRules, RemoveRules, FlushRules
  <2>2. CASE RunSs(m)
    <3>1. \E some \in SUBSET Listening : reserved' = [reserved EXCEPT ![m] = some]
      BY <2>2 DEF RunSs
    <3>2. reserved' \in [Managers -> SUBSET Nat]
      BY <3>1
    <3>3. failed' \in [Managers -> {"no", "before", "now"}]
      BY <2>2 DEF RunSs, Unnoticed
    <3> QED BY <2>2, <3>2, <3>3 DEF RunSs
  <2>3. CASE ReadClaimed(m)
    <3> PICK port \in [want[m] -> PortRange] :
          assigned' = [assigned EXCEPT ![m] = RulesFor(want[m], port)]
      BY <2>3 DEF ReadClaimed
    <3>1. RulesFor(want[m], port) \subseteq Rule
      BY DEF Rule, RulesFor
    <3> QED BY <2>3, <3>1 DEF ReadClaimed
  <2>4. CASE Exhausted(m) \/ Read(m) \/ Upload(m)
    BY <2>4 DEF Exhausted, Read, Upload
  <2>5. CASE WriteOn(m)
    BY <2>5, <1>0 DEF WriteOn
  <2>6. CASE Move(m)
    <3>1. file' \subseteq Rule /\ failed' \in [Managers -> {"no", "before", "now"}]
      BY <2>6, <1>0 DEF Move, Moved, Content, Without, Unnoticed
    <3> QED BY <2>6, <3>1 DEF Move, Moved
  <2>7. CASE Flush(m)
    BY <2>7 DEF Flush, Unnoticed
  <2>8. CASE Reload(m)
    <3>1. live' \subseteq Rule \cup {Outsider}
          /\ failed' \in [Managers -> {"no", "before", "now"}]
      BY <2>8 DEF Reload, Unnoticed
    <3> QED BY <2>8, <3>1 DEF Reload
  <2>9. CASE SshRaises(m)
    <3>1. live' \subseteq Rule \cup {Outsider}
      BY <2>9 DEF SshRaises
    <3> QED BY <2>9, <3>1 DEF SshRaises
  <2> QED BY <1>2, <2>1, <2>2, <2>3, <2>4, <2>5, <2>6, <2>7, <2>8, <2>9 DEF Step
<1>3. CASE UNCHANGED vars
  BY <1>3 DEF vars
<1> QED BY <1>2, <1>3 DEF Next

\* The file, the chain and the managers' variables keep their types.
THEOREM TypeCorrectness == Spec => []TypeOK
BY TypeInit, TypeStep, PTL DEF Spec

-----------------------------------------------------------------------------
(* Any number of managers: the rules nobody names *)

LEMMA CopiesStep == TypeOK /\ CopiesComplete /\ [Next]_vars => CopiesComplete'
<1> SUFFICES ASSUME TypeOK, CopiesComplete, [Next]_vars PROVE CopiesComplete'
  OBVIOUS
<1> USE DEF TypeOK, CopiesComplete, Stages, Moving, local, Goto, End
<1>1. ASSUME NEW m \in Managers, Step(m) PROVE CopiesComplete'
  <2>1. CASE AddRules(m) \/ RemoveRules(m) \/ FlushRules(m)
    <3>1. /\ file' = file /\ mixed' = mixed /\ overlapped' = overlapped
          /\ \A n \in Managers \ {m} :
                pc'[n] = pc[n] /\ assigned'[n] = assigned[n] /\ copy'[n] = copy[n]
          /\ pc'[m] \in {"ss", "rm_read", "flush"} /\ assigned'[m] = {}
      BY <2>1 DEF AddRules, RemoveRules, FlushRules, Call
    <3>2. TagsOf(assigned'[m]) \subseteq CallTags
      BY <3>1 DEF TagsOf
    <3> QED BY <3>1, <3>2
  <2>2. CASE RunSs(m) \/ Exhausted(m) \/ Flush(m) \/ Reload(m) \/ SshRaises(m)
    <3>1. /\ file' = file /\ assigned' = assigned /\ copy' = copy
          /\ overlapped' = overlapped /\ mixed' \subseteq mixed
          /\ \A n \in Managers \ {m} : pc'[n] = pc[n]
          /\ pc'[m] \in {"claimed", "idle", "reload"}
      <4>1. CASE RunSs(m) \/ Exhausted(m)
        BY <4>1 DEF RunSs, Exhausted
      <4>2. CASE Flush(m) \/ Reload(m) \/ SshRaises(m)
        BY <4>2 DEF Flush, Reload, SshRaises
      <4> QED BY <2>2, <4>1, <4>2
    <3> QED BY <3>1
  <2>3. CASE ReadClaimed(m)
    <3> PICK port \in [want[m] -> PortRange] :
          assigned' = [assigned EXCEPT ![m] = RulesFor(want[m], port)]
      BY <2>3 DEF ReadClaimed
    <3>1. TagsOf(assigned'[m]) \subseteq CallTags
      BY DEF TagsOf, RulesFor, CallTags
    <3> QED BY <2>3, <3>1 DEF ReadClaimed
  <2>4. CASE Read(m)
    BY <2>4 DEF Read
  <2>5. CASE Upload(m)
    BY <2>5 DEF Upload
  <2>6. CASE WriteOn(m)
    BY <2>6 DEF WriteOn
  <2>7. CASE Move(m)
    <3>1. UnmanagedRules(Content(m)) = UnmanagedRules(copy[m])
      <4>1. TagsOf(want[m]) \subseteq CallTags /\ TagsOf(assigned[m]) \subseteq CallTags
        BY DEF TagsOf, CallTags
      <4>2. UnmanagedRules(Without(copy[m], TagsOf(want[m]))) = UnmanagedRules(copy[m])
        BY <4>1 DEF UnmanagedRules, RulesBut, Without
      <4>3. UnmanagedRules(copy[m] \cup assigned[m]) = UnmanagedRules(copy[m])
        BY <4>1 DEF UnmanagedRules, RulesBut, TagsOf
      <4> QED BY <4>2, <4>3 DEF Content
    <3>2. /\ assigned' = assigned /\ overlapped' = overlapped
          /\ \A n \in Managers \ {m} : pc'[n] = pc[n] /\ copy'[n] = copy[n]
          /\ pc'[m] \in {"read", "flush"} /\ pc[m] \in Moving
          /\ mixed' = mixed \ {m}
      BY <2>7 DEF Move, Moved
    <3>3. ~overlapped => file' = Content(m) \/ file' = file
      BY <2>7 DEF Move, Moved
    <3> QED BY <3>1, <3>2, <3>3
  <2> QED BY <1>1, <2>1, <2>2, <2>3, <2>4, <2>5, <2>6, <2>7 DEF Step
<1>2. CASE UNCHANGED vars
  BY <1>2 DEF vars, UnmanagedRules, RulesBut
<1> QED BY <1>1, <1>2 DEF Next

\* However many managers overwrite each other and wherever they fail, the rules that
\* no call names are never lost and none is added, until two have uploaded at once
\* (routing.py:290-301).
THEOREM UnmanagedSafety == Spec => []UnmanagedKept
<1>1. Init => CopiesComplete
  BY DEF Init, CopiesComplete, TagsOf, Moving
<1>2. CopiesComplete => UnmanagedKept
  BY DEF CopiesComplete, UnmanagedKept
<1> QED BY <1>1, <1>2, CopiesStep, TypeCorrectness, PTL DEF Spec

-----------------------------------------------------------------------------
(* Any number of managers: the live rules *)

LEMMA ReloadStep == TypeOK /\ ReloadPending /\ [Next]_vars => ReloadPending'
<1> SUFFICES ASSUME TypeOK, ReloadPending, [Next]_vars PROVE ReloadPending'
  OBVIOUS
<1> USE DEF TypeOK, Moving, local, Goto, End
<1>1. ASSUME NEW m \in Managers, Step(m) PROVE ReloadPending'
  <2>1. CASE AddRules(m) \/ RemoveRules(m) \/ FlushRules(m)
    <3>1. /\ pc[m] = "idle" /\ file' = file /\ live' = live
          /\ \A n \in Managers \ {m} : pc'[n] = pc[n] /\ result'[n] = result[n]
          /\ \A n \in Managers \ {m} : failed'[n] = failed[n]
          /\ failed'[m] = IF failed[m] = "no" THEN "no" ELSE "before"
          /\ result'[m] = "none" /\ pc'[m] # "reload"
      BY <2>1 DEF AddRules, RemoveRules, FlushRules, Call
    <3> QED BY <3>1 DEF ReloadPending, OwesFlush, OwesReload
  <2>2. CASE RunSs(m) \/ Exhausted(m) \/ ReadClaimed(m)
    <3>1. /\ pc[m] \in {"ss", "claimed"} /\ file' = file /\ live' = live
          /\ \A n \in Managers \ {m} : pc'[n] = pc[n] /\ result'[n] = result[n]
          /\ \A n \in Managers \ {m} : failed'[n] = failed[n]
          /\ failed'[m] \in {failed[m], "now"}
          /\ result'[m] \in {result[m], "exhausted"} /\ pc'[m] # "reload"
      BY <2>2 DEF RunSs, Exhausted, ReadClaimed, Unnoticed
    <3> QED BY <3>1 DEF ReloadPending, OwesFlush, OwesReload
  <2>3. CASE Read(m) \/ Upload(m) \/ WriteOn(m) \/ Move(m)
    <3>1. /\ pc[m] \in {"rm_read", "read", "rm_write", "write"} => file' = file
          /\ pc[m] \notin {"rm_read", "rm_write"}
               => pc[m] \in {"read", "write"} \cup Moving
          /\ pc[m] \in {"rm_read", "rm_write"} => file' = file
          /\ pc[m] # "rm_read" => pc'[m] \in {"read", "write", "flush"} \cup Moving
          /\ pc'[m] # "reload" /\ pc[m] # "reload"
          /\ live' = live /\ result' = result
          /\ failed'[m] \in {failed[m], "now"}
          /\ \A n \in Managers \ {m} : pc'[n] = pc[n] /\ failed'[n] = failed[n]
      <4>1. CASE Read(m)
        BY <4>1 DEF Read
      <4>2. CASE Upload(m)
        BY <4>2 DEF Upload
      <4>3. CASE WriteOn(m)
        BY <4>3 DEF WriteOn
      <4>4. CASE Move(m)
        BY <4>4 DEF Move, Moved, Unnoticed
      <4> QED BY <2>3, <4>1, <4>2, <4>3, <4>4
    <3> QED BY <3>1 DEF ReloadPending, OwesFlush, OwesReload
  <2>4. CASE Flush(m)
    <3>1. /\ pc[m] = "flush" /\ pc'[m] = "reload" /\ file' = file /\ result' = result
          /\ \A n \in Managers \ {m} : pc'[n] = pc[n] /\ failed'[n] = failed[n]
          /\ \/ live' = {} /\ failed' = failed
             \/ live' = live /\ failed'[m] = "now"
      BY <2>4 DEF Flush, Unnoticed
    <3> QED BY <3>1 DEF ReloadPending, OwesFlush, OwesReload
  <2>5. CASE Reload(m)
    <3>1. /\ pc[m] = "reload" /\ pc'[m] = "idle" /\ file' = file
          /\ \A n \in Managers \ {m} : pc'[n] = pc[n] /\ failed'[n] = failed[n]
          /\ live \subseteq live' /\ live' \subseteq live \cup file
          /\ \/ /\ live' = live \cup file
                /\ failed'[m] = IF failed[m] = "now" THEN "now" ELSE "no"
             \/ failed'[m] = "now"
      BY <2>5 DEF Reload, Unnoticed
    <3>2. live \subseteq file \/ \E n \in Managers : OwesFlush(n)
      BY <3>1 DEF ReloadPending
    <3>3. live' \subseteq file' \/ \E n \in Managers : OwesFlush(n)'
      BY <3>1, <3>2 DEF OwesFlush
    <3>4. live' = file' \/ \E n \in Managers : OwesReload(n)'
      BY <3>1, <3>3 DEF OwesFlush, OwesReload
    <3> QED BY <3>3, <3>4 DEF ReloadPending
  <2>6. CASE SshRaises(m)
    <3>1. /\ pc'[m] = "idle" /\ failed'[m] = "now" /\ file' = file
          /\ \A n \in Managers \ {m} : pc'[n] = pc[n] /\ failed'[n] = failed[n]
      BY <2>6 DEF SshRaises
    <3> QED BY <3>1 DEF ReloadPending, OwesFlush, OwesReload
  <2> QED BY <1>1, <2>1, <2>2, <2>3, <2>4, <2>5, <2>6 DEF Step
<1>2. CASE UNCHANGED vars
  BY <1>2 DEF vars, ReloadPending, OwesFlush, OwesReload
<1> QED BY <1>1, <1>2 DEF Next

\* Whenever no call is running and every manager that had a failure has made a call
\* without one since, the live rules are the file's, although the managers' flushes,
\* reloads and writes interleave freely (routing.py:303-305).
THEOREM ReloadConvergence == Spec => []ReloadedWhenIdle
<1>1. Init => ReloadPending
  BY DEF Init, ReloadPending
<1>2. ReloadPending => ReloadedWhenIdle
  BY DEF ReloadPending, ReloadedWhenIdle, Idle, OwesFlush, OwesReload, Moving
<1> QED BY <1>1, <1>2, ReloadStep, TypeCorrectness, PTL DEF Spec

-----------------------------------------------------------------------------
(* One manager: the ports *)

\* The ports add_rules picks are new and one for each mapping.
LEMMA ChosenPorts ==
    ASSUME NEW maps \in SUBSET [tag : Tags, nth : Nat],
           NEW taken \in SUBSET Nat, NEW port \in [maps -> PortRange],
           LowestFree(port, maps, taken)
    PROVE  /\ \A x, y \in maps : port[x] = port[y] => x = y
           /\ PortsOf(RulesFor(maps, port)) \cap taken = {}
           /\ Table!Unique(RulesFor(maps, port))
           /\ TagsOf(RulesFor(maps, port)) = TagsOf(maps)
<1>1. \A x, y \in maps : port[x] = port[y] => x = y
  <2> SUFFICES ASSUME NEW x \in maps, NEW y \in maps, port[x] = port[y], x # y
               PROVE  FALSE
    OBVIOUS
  <2>1. x \in [tag : Tags, nth : Nat] /\ y \in [tag : Tags, nth : Nat]
    OBVIOUS
  <2>2. x = [tag |-> x.tag, nth |-> x.nth] /\ y = [tag |-> y.tag, nth |-> y.nth]
    BY <2>1
  <2>3. x.tag # y.tag \/ x.nth # y.nth
    BY <2>2
  <2>4. x.tag \in Int /\ y.tag \in Int /\ x.nth \in Int /\ y.nth \in Int
    BY <2>1 DEF Tags
  <2>5. Before(x, y) \/ Before(y, x)
    BY <2>3, <2>4 DEF Before
  <2>6. port[x] \in Int /\ port[y] \in Int
    BY DEF PortRange
  <2> QED BY <2>5, <2>6 DEF LowestFree
<1>2. \A r \in RulesFor(maps, port) :
         \E x \in maps : r = [tag |-> x.tag, port |-> port[x]]
  BY DEF RulesFor
<1>3. \A r, s \in RulesFor(maps, port) : r.port = s.port => r = s
  BY <1>1, <1>2
<1>4. PortsOf(RulesFor(maps, port)) \cap taken = {}
  BY <1>2 DEF PortsOf, LowestFree
<1>5. TagsOf(RulesFor(maps, port)) = TagsOf(maps)
  <2>1. \A x \in maps : [tag |-> x.tag, port |-> port[x]].tag = x.tag
    OBVIOUS
  <2>2. TagsOf(RulesFor(maps, port))
           = {[tag |-> x.tag, port |-> port[x]].tag : x \in maps}
    BY Zenon DEF TagsOf, RulesFor
  <2> QED BY <2>1, <2>2 DEF TagsOf
<1> QED BY <1>1, <1>3, <1>4, <1>5 DEF Table!Unique

\* A part of rules that fit, or both of two parts that fit, have no port twice.
LEMMA FittingRules ==
    ASSUME NEW rules, NEW others, Table!Unique(others), Fits(rules, others)
    PROVE  /\ \A part \in SUBSET others : Table!Unique(part) /\ Fits(rules, part)
           /\ Table!Unique(others \cup rules)
BY DEF Fits, Table!Unique, PortsOf

LEMMA ChoiceStep ==
    ASSUME NEW self, Managers = {self}, Unreadable = {},
           TypeOK, ChoiceFits, [Next]_vars
    PROVE  ChoiceFits'
<1> USE DEF TypeOK, Moving, local, Goto, End
<1>0. /\ Table!Unique(file) /\ mixed = {}
      /\ pc[self] \in {"rm_read", "rm_write", "read", "write"} \cup Moving
           => Fits(assigned[self], file)
      /\ pc[self] \in {"rm_write", "write"} \cup Moving => copy[self] = file
  BY DEF ChoiceFits, PortsUnique
<1>1. CASE Step(self)
  <2> SUFFICES /\ Table!Unique(file') /\ mixed' = {}
               /\ pc'[self] \in {"rm_read", "rm_write", "read", "write"} \cup Moving
                    => Fits(assigned'[self], file')
               /\ pc'[self] \in {"rm_write", "write"} \cup Moving => copy'[self] = file'
    BY DEF ChoiceFits, PortsUnique
  <2>1. CASE AddRules(self) \/ RemoveRules(self) \/ FlushRules(self)
    <3>1. /\ file' = file /\ assigned'[self] = {} /\ mixed' = mixed
          /\ pc'[self] \in {"ss", "rm_read", "flush"}
      BY <2>1 DEF AddRules, RemoveRules, FlushRules, Call
    <3>2. Fits({}, file)
      BY DEF Fits, Table!Unique, PortsOf
    <3> QED BY <1>0, <3>1, <3>2
  <2>2. CASE RunSs(self) \/ Exhausted(self) \/ Flush(self) \/ Reload(self)
             \/ SshRaises(self)
    <3>1. /\ file' = file /\ mixed' \subseteq mixed
          /\ pc'[self] \in {"claimed", "idle", "reload"}
      <4>1. CASE RunSs(self) \/ Exhausted(self)
        BY <4>1 DEF RunSs, Exhausted
      <4>2. CASE Flush(self) \/ Reload(self) \/ SshRaises(self)
        BY <4>2 DEF Flush, Reload, SshRaises
      <4> QED BY <2>2, <4>1, <4>2
    <3> QED BY <1>0, <3>1
  <2>3. CASE ReadClaimed(self)
    <3> PICK port \in [want[self] -> PortRange] :
          /\ LowestFree(port, want[self], reserved[self] \cup Claimed(file))
          /\ assigned' = [assigned EXCEPT ![self] = RulesFor(want[self], port)]
      BY <2>3 DEF ReadClaimed
    <3>1. Fits(assigned'[self], file)
      <4>1. /\ want[self] \in SUBSET [tag : Tags, nth : Nat] /\ file \in SUBSET Rule
            /\ reserved[self] \cup Claimed(file) \in SUBSET Nat
            /\ PortsOf(file) \subseteq reserved[self] \cup Claimed(file)
        BY DEF Claimed, PortsOf, Rule, PortRange
      <4>2. assigned'[self] = RulesFor(want[self], port)
        OBVIOUS
      <4>3. Fits(RulesFor(want[self], port), file)
        <5>1. LowestFree(port, want[self], reserved[self] \cup Claimed(file))
          OBVIOUS
        <5> DEFINE taken == reserved[self] \cup Claimed(file)
                   maps == want[self]
        <5>2. /\ maps \in SUBSET [tag : Tags, nth : Nat] /\ file \in SUBSET Rule
              /\ taken \in SUBSET Nat /\ port \in [maps -> PortRange]
              /\ LowestFree(port, maps, taken) /\ PortsOf(file) \subseteq taken
          BY <4>1, <5>1
        <5> HIDE DEF taken, maps, TypeOK, local, Moving, Goto, End
        <5>3. Fits(RulesFor(maps, port), file)
          <6>1. /\ PortsOf(RulesFor(maps, port)) \cap taken = {}
                /\ Table!Unique(RulesFor(maps, port))
            BY <5>2, ChosenPorts, Zenon
          <6> QED BY <5>2, <6>1 DEF Fits
        <5> QED BY <5>3 DEF maps
      <4> QED BY <4>2, <4>3
    <3>2. file' = file /\ mixed' = mixed /\ pc'[self] = "rm_read"
      BY <2>3 DEF ReadClaimed
    <3> QED BY <1>0, <3>1, <3>2
  <2>4. CASE Read(self)
    BY <1>0, <2>4 DEF Read
  <2>5. CASE Upload(self)
    BY <1>0, <2>5 DEF Upload
  <2>6. CASE WriteOn(self)
    BY <1>0, <2>6 DEF WriteOn
  <2>7. CASE Move(self)
    <3>1. /\ file' = Content(self) \/ file' = file
          /\ pc[self] \in Moving /\ mixed' = {} /\ assigned' = assigned
          /\ pc'[self] = IF pc[self] = "rm_move" /\ op[self] = "add" THEN "read"
                                                                     ELSE "flush"
      BY <1>0, <2>7 DEF Move, Moved
    <3>2. Content(self) = IF pc[self] = "rm_move" THEN Without(file, TagsOf(want[self]))
                                                   ELSE file \cup assigned[self]
      BY <1>0, <3>1 DEF Content
    <3>3. Without(file, TagsOf(want[self])) \in SUBSET file
      BY DEF Without
    <3>4. Fits(assigned[self], file) /\ Table!Unique(file)
      BY <1>0, <3>1
    <3>5. /\ Table!Unique(Without(file, TagsOf(want[self])))
          /\ Fits(assigned[self], Without(file, TagsOf(want[self])))
          /\ Table!Unique(file \cup assigned[self])
      <4> HIDE DEF TypeOK, local
      <4> QED BY <3>3, <3>4, FittingRules
    <3> QED BY <3>1, <3>2, <3>4, <3>5
  <2> QED BY <1>1, <2>1, <2>2, <2>3, <2>4, <2>5, <2>6, <2>7 DEF Step
<1>2. CASE UNCHANGED vars
  BY <1>0, <1>2 DEF vars, ChoiceFits, PortsUnique
<1> QED BY <1>1, <1>2 DEF Next

LEMMA ChoiceInvariance ==
    ASSUME NEW self, Managers = {self}, Unreadable = {}, Table!Unique(InitFile)
    PROVE  Spec => []ChoiceFits
<1>1. Init => ChoiceFits
  BY DEF Init, ChoiceFits, PortsUnique, Moving
<1>2. TypeOK /\ ChoiceFits /\ [Next]_vars => ChoiceFits'
  BY ChoiceStep
<1> QED BY <1>1, <1>2, TypeCorrectness, PTL DEF Spec

\* A manager that has the node to itself never gives one port two rules, wherever its
\* calls fail, noticed or not, and whatever lists of mappings it is given
\* (routing.py:246-301), as long as it can parse every rule it writes.
THEOREM SoleManagerPorts ==
    ASSUME NEW self, Managers = {self}, Unreadable = {}, Table!Unique(InitFile)
    PROVE  Spec => []PortsUnique
<1>1. ChoiceFits => PortsUnique
  BY DEF ChoiceFits
<1> QED BY <1>1, ChoiceInvariance, PTL

-----------------------------------------------------------------------------
(* One manager: what its calls do *)

LEMMA SoleStep ==
    ASSUME NEW self, Managers = {self}, TypeOK, SoleInv, [Next]_vars
    PROVE  SoleInv'
<1> DEFINE Ended ==
             pc[self] = "idle" /\ result[self] = "returned" /\ failed[self] = "no" =>
               /\ op[self] = "add" =>
                    /\ Named(file, TagsOf(want[self])) = assigned[self]
                    /\ GivenTo(want[self], assigned[self])
               /\ op[self] = "remove" => Named(file, TagsOf(want[self])) = {}
               /\ live = file
           Kept == result[self] = "exhausted" =>
                     Named(file, TagsOf(want[self])) = old[self]
<1> USE DEF TypeOK, Moving, local, Goto, End
<1>0. mixed = {} /\ CallProgress(self) /\ Ended /\ Kept
  BY DEF SoleInv, ReturnedDone, ExhaustionHarmless
<1> SUFFICES ASSUME Step(self) PROVE mixed' = {} /\ CallProgress(self)' /\ Ended' /\ Kept'
  <2>1. CASE UNCHANGED vars
    BY <2>1 DEF vars, SoleInv, CallProgress, Removed, ReturnedDone, ExhaustionHarmless
  <2>2. CASE Step(self)
    BY <2>2 DEF SoleInv, ReturnedDone, ExhaustionHarmless
  <2> QED BY <2>1, <2>2 DEF Next
<1>1. CASE AddRules(self) \/ RemoveRules(self) \/ FlushRules(self)
  <2>1. /\ file' = file /\ result'[self] = "none" /\ mixed' = mixed
        /\ old'[self] = Named(file, TagsOf(want'[self]))
        /\ \/ pc'[self] = "ss" /\ op'[self] = "add"
           \/ pc'[self] = "rm_read" /\ op'[self] = "remove"
           \/ pc'[self] = "flush" /\ op'[self] = "flush"
    BY <1>1 DEF AddRules, RemoveRules, FlushRules, Call
  <2> QED BY <1>0, <2>1 DEF CallProgress
<1>2. CASE RunSs(self)
  BY <1>0, <1>2 DEF RunSs, Unnoticed, CallProgress
<1>3. CASE Exhausted(self)
  BY <1>0, <1>3 DEF Exhausted, CallProgress
<1>4. CASE ReadClaimed(self)
  <2>1. PICK port \in [want[self] -> PortRange] :
          /\ LowestFree(port, want[self], reserved[self] \cup Claimed(file))
          /\ assigned' = [assigned EXCEPT ![self] = RulesFor(want[self], port)]
    BY <1>4 DEF ReadClaimed
  <2> DEFINE maps == want[self]
             taken == reserved[self] \cup Claimed(file)
  <2>2. /\ maps \in SUBSET [tag : Tags, nth : Nat] /\ taken \in SUBSET Nat
        /\ port \in [maps -> PortRange] /\ LowestFree(port, maps, taken)
    BY <2>1 DEF Claimed, PortsOf, Rule, PortRange
  <2>3. assigned'[self] = RulesFor(maps, port)
    BY <2>1
  <2>4. failed[self] # "now" => Listening \subseteq taken
    BY <1>0, <1>4 DEF CallProgress, ReadClaimed
  <2>5. /\ TagsOf(RulesFor(maps, port)) = TagsOf(maps)
        /\ \A x, y \in maps : port[x] = port[y] => x = y
        /\ \A x \in maps : port[x] \notin taken
    <3> HIDE DEF maps, taken, TypeOK, Moving, local, Goto, End
    <3>1. \A x \in maps : port[x] \notin taken
      BY <2>2 DEF LowestFree
    <3> QED BY <2>2, <3>1, ChosenPorts, Zenon
  <2>6. failed[self] # "now" => GivenTo(maps, RulesFor(maps, port))
    <3> HIDE DEF maps, taken, TypeOK
    <3>1. failed[self] # "now" => port \in [maps -> PortRange \ Listening]
      BY <2>2, <2>4, <2>5
    <3> QED BY <2>5, <3>1 DEF GivenTo
  <2>7. /\ file' = file /\ failed' = failed /\ mixed' = mixed /\ want' = want /\ op' = op
        /\ result' = result /\ pc[self] = "claimed" /\ pc'[self] = "rm_read"
    BY <1>4 DEF ReadClaimed
  <2> QED BY <1>0, <2>3, <2>5, <2>6, <2>7 DEF CallProgress
<1>5. CASE Read(self)
  BY <1>0, <1>5 DEF Read, CallProgress, Removed
<1>6. CASE Upload(self) \/ WriteOn(self)
  <2>1. /\ file' = file /\ UNCHANGED local /\ mixed' = {}
        /\ \/ pc[self] = "rm_write" /\ pc'[self] = "rm_move"
           \/ pc[self] = "write" /\ pc'[self] = "move"
    BY <1>0, <1>6 DEF Upload, WriteOn
  <2> QED BY <1>0, <2>1 DEF CallProgress, Removed
<1>7. CASE Move(self)
  <2> DEFINE tags == TagsOf(want[self])
  <2>1. /\ \/ file' = Content(self) /\ failed' = failed
           \/ file' = file /\ failed'[self] = "now"
        /\ pc[self] \in Moving /\ mixed' = {} /\ copy[self] = file
        /\ want' = want /\ op' = op /\ assigned' = assigned /\ result' = result
        /\ pc'[self] = IF pc[self] = "rm_move" /\ op[self] = "add" THEN "read"
                                                                   ELSE "flush"
        /\ result[self] = "none"
    BY <1>0, <1>7 DEF Move, Moved, Unnoticed, CallProgress
  <2>2. CASE pc[self] = "rm_move"
    <3>1. file' = Without(file, tags) \/ failed'[self] = "now"
      BY <2>1, <2>2 DEF Content
    <3>2. Named(Without(file, tags), tags) = {}
      BY DEF Named, Without
    <3>3. Removed(self)'
      BY <2>1, <3>1, <3>2 DEF Removed
    <3> QED BY <1>0, <2>1, <2>2, <3>3 DEF CallProgress
  <2>3. CASE pc[self] = "move"
    <3>1. op[self] = "add" /\ TagsOf(assigned[self]) = tags
      BY <1>0, <2>3 DEF CallProgress
    <3>2. failed'[self] # "now" =>
            /\ file' = file \cup assigned[self] /\ failed[self] # "now"
            /\ Named(file, tags) = {}
      BY <1>0, <2>1, <2>3 DEF Content, CallProgress, Removed
    <3>3. Named(assigned[self], tags) = assigned[self]
      BY <3>1 DEF Named, TagsOf
    <3>4. failed'[self] # "now" => Named(file', tags) = assigned[self]
      BY <3>2, <3>3 DEF Named
    <3> QED BY <1>0, <2>1, <2>3, <3>1, <3>2, <3>4 DEF CallProgress
  <2> QED BY <2>1, <2>2, <2>3
<1>8. CASE Flush(self)
  BY <1>0, <1>8 DEF Flush, Unnoticed, CallProgress, Removed
<1>9. CASE Reload(self)
  <2>1. /\ pc[self] = "reload" /\ pc'[self] = "idle" /\ file' = file /\ mixed' = mixed
        /\ want' = want /\ op' = op /\ assigned' = assigned
        /\ result'[self] = "returned"
        /\ failed'[self] = "no" => live' = live \cup file /\ failed[self] # "now"
    BY <1>9 DEF Reload, Unnoticed
  <2> QED BY <1>0, <2>1 DEF CallProgress, Removed
<1>10. CASE SshRaises(self)
  <2>1. /\ pc'[self] = "idle" /\ file' = file /\ mixed' = {}
        /\ result'[self] = "raised"
    BY <1>0, <1>10 DEF SshRaises
  <2> QED BY <2>1 DEF CallProgress
<1> QED BY <1>1, <1>2, <1>3, <1>4, <1>5, <1>6, <1>7, <1>8, <1>9, <1>10 DEF Step

LEMMA SoleInvariance ==
    ASSUME NEW self, Managers = {self} PROVE Spec => []SoleInv
<1>1. Init => SoleInv
  BY DEF Init, SoleInv, CallProgress, ReturnedDone, ExhaustionHarmless, Moving
<1>2. TypeOK /\ SoleInv /\ [Next]_vars => SoleInv'
  BY SoleStep
<1> QED BY <1>1, <1>2, TypeCorrectness, PTL DEF Spec

\* What one manager does to the file with a step: a write to which nothing else has
\* been mixed, of what was read and is still there.
LEMMA SoleWrites ==
    ASSUME NEW self, Managers = {self}, TypeOK, SoleInv, Step(self)
    PROVE  \/ file' = file
           \/ /\ pc[self] = "rm_move" /\ want' = want
              /\ file' = Without(file, TagsOf(want[self]))
           \/ /\ pc[self] = "move" /\ want' = want
              /\ file' = file \cup assigned[self]
<1>1. CASE Move(self)
  <2>1. mixed = {} /\ (pc[self] \in Moving => copy[self] = file)
    BY DEF SoleInv, CallProgress, Moving
  <2> QED BY <1>1, <2>1 DEF Move, Moved, Content, Moving
<1>2. CASE WriteOn(self)
  BY <1>2 DEF WriteOn, SoleInv
<1>3. CASE ~ (Move(self) \/ WriteOn(self))
  BY <1>3 DEF Step, AddRules, RemoveRules, FlushRules, Call, RunSs, ReadClaimed,
     Exhausted, Read, Upload, Flush, Reload, SshRaises
<1> QED BY <1>1, <1>2, <1>3

\* A manager that has the node to itself leaves the rules its call does not name as
\* they are, at every step and wherever it fails (routing.py:290-301).
THEOREM SoleManagerCare ==
    ASSUME NEW self, Managers = {self} PROVE Spec => OthersUndisturbed
<1>1. ASSUME TypeOK, SoleInv, [Next]_vars
      PROVE  [\A m \in Managers :
                RulesBut(file', TagsOf(want'[m])) = RulesBut(file, TagsOf(want'[m]))]_vars
  <2> SUFFICES ASSUME Step(self)
               PROVE  RulesBut(file', TagsOf(want'[self])) = RulesBut(file, TagsOf(want'[self]))
    BY <1>1 DEF Next
  <2> DEFINE tags == TagsOf(want[self])
  <2>1. CASE pc[self] = "rm_move" /\ want' = want /\ file' = Without(file, tags)
    <3>1. RulesBut(Without(file, tags), tags) = RulesBut(file, tags)
      BY DEF RulesBut, Without
    <3> QED BY <2>1, <3>1
  <2>2. CASE pc[self] = "move" /\ want' = want /\ file' = file \cup assigned[self]
    <3>1. TagsOf(assigned[self]) = tags
      BY <1>1, <2>2 DEF SoleInv, CallProgress, Moving
    <3>2. RulesBut(file \cup assigned[self], tags) = RulesBut(file, tags)
      BY <3>1 DEF RulesBut, TagsOf
    <3> QED BY <2>2, <3>2
  <2> QED BY <1>1, <2>1, <2>2, SoleWrites
<1> QED BY <1>1, SoleInvariance, TypeCorrectness, PTL DEF Spec, OthersUndisturbed

\* A call that returned has done what it was asked for every mapping, in the file and
\* in the chain, on ports that nobody listened on and no two mappings share, unless one
\* of its commands failed (routing.py:177-185, 213-217).
THEOREM SoleManagerDone ==
    ASSUME NEW self, Managers = {self} PROVE Spec => []ReturnedDone
<1>1. SoleInv => ReturnedDone
  BY DEF SoleInv
<1> QED BY <1>1, SoleInvariance, PTL

\* A call that finds too few ports leaves the rules of its mappings as it found them
\* (routing.py:284).
THEOREM SoleManagerExhaustion ==
    ASSUME NEW self, Managers = {self} PROVE Spec => []ExhaustionHarmless
<1>1. SoleInv => ExhaustionHarmless
  BY DEF SoleInv
<1> QED BY <1>1, SoleInvariance, PTL

-----------------------------------------------------------------------------
(* One manager: its writes are operations on a table of rules *)

\* What a manager that has the node to itself writes, one call after the other and
\* wherever calls fail, noticed or not, are operations on a table in which no two rules
\* share a port (routing.py:159-226).
THEOREM SoleManagerTable ==
    ASSUME NEW self, Managers = {self}, Unreadable = {}, Table!Unique(InitFile)
    PROVE  Spec => IsRuleTable
<1>1. Init => Table!Init
  BY RulesAssumption DEF Init, Table!Init, Table!Rule, Rule
<1>2. ASSUME TypeOK, ChoiceFits, SoleInv, [Next]_vars
      PROVE  [Table!Next]_file
  <2> SUFFICES ASSUME Step(self) PROVE Table!Next \/ UNCHANGED file
    BY <1>2 DEF Next, vars
  <2> DEFINE tags == TagsOf(want[self])
  <2>1. tags \in SUBSET CallTags
    BY <1>2 DEF TypeOK, TagsOf, CallTags
  <2>2. CASE file' = Without(file, tags)
    <3>1. Table!Remove(tags)
      BY <2>2 DEF Table!Remove, Table!Others, Without
    <3> QED BY <2>1, <3>1 DEF Table!Next
  <2>3. CASE pc[self] = "move" /\ file' = file \cup assigned[self]
    <3> DEFINE rules == assigned[self]
    <3>1. /\ Fits(rules, file) /\ TagsOf(rules) = tags /\ Table!Unique(file)
          /\ rules \subseteq Rule /\ file \subseteq Rule
      BY <1>2, <2>3 DEF ChoiceFits, PortsUnique, SoleInv, CallProgress, TypeOK, Moving
    <3>2. file' \ file = rules
      BY <2>3, <3>1 DEF Fits, PortsOf
    <3>3. rules \subseteq [tag : tags, port : PortRange]
      BY <3>1 DEF TagsOf, Rule
    <3>4. \A t \in tags : \E r \in rules : r.tag = t
      BY <3>1 DEF TagsOf
    <3>5. \A r \in rules, s \in file \cup rules : r.port = s.port => r = s
      BY <3>1 DEF Fits, Table!Unique, PortsOf
    <3>6. Table!Assign(tags)
      BY <2>3, <3>2, <3>3, <3>4, <3>5 DEF Table!Assign
    <3> QED BY <2>1, <3>6 DEF Table!Next
  <2> QED BY <1>2, <2>2, <2>3, SoleWrites
<1> QED
  BY <1>1, <1>2, TypeCorrectness, ChoiceInvariance, SoleInvariance, PTL
     DEF Spec, IsRuleTable, Table!Spec
=============================================================================
