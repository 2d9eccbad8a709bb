--------------------------- MODULE FakeBackend_proofs ---------------------------
(* Proofs about FakeBackend, for any threads, ids, names and number of tasks: *)
(* with one thread that launches and clones, the fake is a store of VMs.      *)
EXTENDS FakeBackend, TLAPS

LEMMA InitInv == Init => FakeInv
<1> SUFFICES ASSUME Init PROVE FakeInv
  OBVIOUS
<1> USE FakeAssumption DEF Init
<1>1. TypeOK
  <2>2. vms \in [Ids -> Vm]
    BY DEF Vm, Absent, NewVm
  <2>3. TemplateId \in Ids
    BY DEF TemplateId, Ids
  <2> QED
    BY <2>2, <2>3 DEF TypeOK, Results
<1>2. SnapshotsAreOwn
  BY DEF SnapshotsAreOwn
<1>3. \A c \in Clients : CallOK(c)
  BY DEF CallOK, Operations
<1>4. BornBefore
  BY DEF BornBefore, Absent, NewVm
<1>5. \A c \in Clients : SureOK(c)
  BY DEF SureOK
<1> QED
  BY <1>1, <1>2, <1>3, <1>4, <1>5 DEF FakeInv

LEMMA TypeStep ==
    ASSUME TypeOK, \A c \in Clients : CallOK(c), NEW c \in Clients, ClientStep(c)
    PROVE  TypeOK'
<1> USE FakeAssumption DEF TypeOK, backend, client
<1>0. sure' \in [Clients -> BOOLEAN]
  BY DEF ClientStep, Begin, RequireVm, Power, Delete, NextId, CheckDrive, Clone, Configure,
     TakeSnapshot, Find, List, Rollback, Forget
<1>1. CASE Begin(c)
  <2>1. \A op \in Ops[c] : op \in Operations
    OBVIOUS
  <2>2. Existing \subseteq Ids
    BY DEF Existing
  <2> QED
    BY <1>0, <1>1, <2>1, <2>2 DEF Begin, Results
<1>2. CASE RequireVm(c)
  BY <1>0, <1>2 DEF RequireVm, End, Results
<1>3. CASE Power(c)
  <2>1. vms' \in [Ids -> Vm]
    <3>1. Status(at[c]) \in {"stopped", "running"} /\ vms[handle[c]] \in Vm
      BY DEF Status
    <3>2. [vms[handle[c]] EXCEPT !.status = Status(at[c])] \in Vm
      BY <3>1 DEF Vm
    <3> QED BY <1>3, <3>2 DEF Power
  <2> QED
    BY <1>0, <1>3, <2>1 DEF Power, MakeUpid, End, Results
<1>4. CASE Delete(c)
  <2>1. vms' \in [Ids -> Vm]
    BY <1>0, <1>4 DEF Delete, Absent, Vm
  <2> QED
    BY <1>0, <1>4, <2>1 DEF Delete, MakeUpid, End, Results
<1>5. CASE NextId(c)
  BY <1>0, <1>5 DEF NextId, Go, LaterRoutes
<1>6. CASE Clone(c)
  <2>1. vms' \in [Ids -> Vm]
    BY <1>0, <1>6 DEF Clone, AddVm, MakeUpid, Vm, NewVm
  <2> QED
    BY <1>0, <1>6, <2>1 DEF Clone, AddVm, MakeUpid, GoOn, Go, End, LaterRoutes, PartNames, Results
<1>7. CASE Configure(c)
  <2>1. vms' \in [Ids -> Vm]
    <3>1. PICK new \in SUBSET Settings : vms' = [vms EXCEPT ![handle[c]].settings = @ \cup new]
      BY <1>7 DEF Configure, Settings
    <3>2. vms[handle[c]] \in Vm
      OBVIOUS
    <3>3. vms[handle[c]].settings \cup new \in SUBSET Settings
      BY <3>2 DEF Vm
    <3>4. [vms[handle[c]] EXCEPT !.settings = vms[handle[c]].settings \cup new] \in Vm
      BY <3>2, <3>3 DEF Vm
    <3> QED BY <3>1, <3>4
  <2> QED
    BY <1>0, <1>7, <2>1 DEF Configure, GoOn, Go, End, LaterRoutes, PartNames, Results
<1>8. CASE TakeSnapshot(c)
  <2>1. snap[c] \in Names
    BY <1>0, <1>8 DEF TakeSnapshot, CallOK
  <2>2. tasks' \in 1..MaxTasks
    BY <1>0, <1>8 DEF TakeSnapshot, MakeUpid
  <2>3. [name |-> snap[c], upid |-> tasks'] \in Snapshot
    BY <2>1, <2>2 DEF Snapshot
  <2>4. snapshots' \in [Ids -> SUBSET Snapshot]
    BY <1>0, <1>8, <2>3 DEF TakeSnapshot
  <2> QED
    BY <1>0, <1>8, <2>2, <2>4 DEF TakeSnapshot, Go, LaterRoutes
<1>9. CASE Find(c)
  BY <1>0, <1>9 DEF Find, Found, End, Results
<1>10. CASE List(c)
  BY <1>0, <1>10 DEF List, Go, End, LaterRoutes, Results
<1>11. CASE Rollback(c)
  BY <1>0, <1>11 DEF Rollback, MakeUpid, End, Results
<1>12. CASE Forget(c)
  BY <1>0, <1>12 DEF Forget, MakeUpid, End, Results
<1>13. CASE CheckDrive(c)
  BY <1>0, <1>13 DEF CheckDrive, Go, End, LaterRoutes, Results
<1> QED
  BY <1>1, <1>2, <1>3, <1>4, <1>5, <1>6, <1>7, <1>8, <1>9, <1>10, <1>11,
     <1>12, <1>13 DEF ClientStep

LEMMA FreeIsUnknown == ASSUME NEW id \in Ids, NextFree(id), TypeOK PROVE ~Known(id)
<1>1. CASE Existing = {}
  BY <1>1 DEF Existing
<1>2. CASE Existing # {}
  BY <1>2, FakeAssumption DEF NextFree, Existing, Ids, TemplateId
<1> QED
  BY <1>1, <1>2

\* The routes of launch are not operations of their own.
LEMMA NotOperations ==
    \A p \in PartNames : p \notin Operations \cup {"check", "clone", "clone_to", "find", "idle",
                                               "snapshot", "forget", "rollback"}
BY DEF PartNames, Parts, Operations

\* Only a clone makes a VM, and the one thread that launches is the one cloning.
LEMMA CallStep ==
    ASSUME OneLauncher, TypeOK, \A c \in Clients : CallOK(c),
           NEW c \in Clients, ClientStep(c), NEW d \in Clients
    PROVE  CallOK(d)'
<1> USE FakeAssumption DEF TypeOK, backend, client, CallOK
<1>1. CASE Begin(c)
  BY <1>1 DEF Begin, Operations, Known, Existing, Launches
<1>2. CASE RequireVm(c)
  BY <1>2 DEF RequireVm, End, Operations, Known
<1>3. CASE Power(c)
  BY <1>3 DEF Power, End, Operations, Known
<1>4. CASE Delete(c)
  BY <1>4 DEF Delete, End, Operations, Known, Absent
<1>5. CASE NextId(c)
  <2>1. Launches(c)
    BY <1>5 DEF NextId, Operations, Launches
  <2>2. handle'[c] \in Ids /\ ~Known(handle'[c])
    BY <1>5, FreeIsUnknown DEF NextId
  <2> QED
    BY <1>5, <2>1, <2>2 DEF NextId, Go, Operations, Known
<1>6. CASE Clone(c)
  <2>1. Launches(c)
    BY <1>6 DEF Clone
  <2>2. at'[c] \in PartNames \cup {"idle"} /\ UNCHANGED <<handle, snap>>
    BY <1>6 DEF Clone, GoOn, Go, End, PartNames
  <2>3. d # c => at[d] \notin {"check", "clone", "clone_to"} /\ at'[d] = at[d]
    BY <1>6, <2>1 DEF Clone, GoOn, Go, End, OneLauncher
  <2> QED
    BY <2>2, <2>3, NotOperations DEF Operations
<1>7. CASE Configure(c)
  <2>1. at'[c] \in PartNames \cup {"idle"} /\ UNCHANGED <<handle, snap>>
        /\ (d # c => at'[d] = at[d])
    BY <1>7 DEF Configure, GoOn, Go, End, PartNames
  <2>2. \A id \in Ids : Known(id)' = Known(id)
    BY <1>7 DEF Configure, Known, Vm
  <2> QED
    <3>1. d # c => CallOK(d)'
      BY <2>1, <2>2
    <3>2. at'[c] \notin Operations \cup {"check", "clone", "clone_to", "snapshot", "forget"}
      BY <2>1, NotOperations DEF Operations
    <3> QED BY <3>1, <3>2
<1>8. CASE TakeSnapshot(c)
  BY <1>8 DEF TakeSnapshot, Go, Operations, Known
<1>9. CASE Find(c)
  BY <1>9 DEF Find, Found, End, Operations, Known
<1>10. CASE List(c)
  BY <1>10 DEF List, Go, End, Operations, Known
<1>11. CASE Rollback(c)
  BY <1>11 DEF Rollback, End, Operations, Known
<1>12. CASE Forget(c)
  BY <1>12 DEF Forget, End, Operations, Known
<1>13. CASE CheckDrive(c)
  BY <1>13 DEF CheckDrive, Go, End, Operations, Known
<1> QED
  BY <1>1, <1>2, <1>3, <1>4, <1>5, <1>6, <1>7, <1>8, <1>9, <1>10, <1>11,
     <1>12, <1>13 DEF ClientStep

\* A clone is made where nothing is, and there nothing has been kept.
LEMMA OwnStep ==
    ASSUME OneLauncher, FakeInv, NEW c \in Clients, ClientStep(c)
    PROVE  SnapshotsAreOwn'
<1> USE FakeAssumption DEF FakeInv, TypeOK, backend, client, SnapshotsAreOwn, Snapshot
<1>1. CASE UNCHANGED backend
  BY <1>1 DEF Known
<1>2. CASE Power(c)
  <2>1. \A id \in Ids : Known(id) => Known(id)' /\ vms'[id].born = vms[id].born
    BY <1>2 DEF Power, Known, Status, Vm
  <2> QED
    BY <1>2, <2>1 DEF Power, MakeUpid
<1>3. CASE Delete(c)
  BY <1>3 DEF Delete, MakeUpid, Known, Vm
<1>4. CASE Clone(c)
  <2>1. ~Known(handle[c])
    BY <1>4 DEF Clone, CallOK
  <2>2. snapshots[handle[c]] = {}
    BY <2>1
  <2> QED
    BY <1>4, <2>2 DEF Clone, AddVm, NewVm, MakeUpid, Known, Vm
<1>5. CASE TakeSnapshot(c)
  BY <1>5 DEF TakeSnapshot, MakeUpid, Known, Vm, BornBefore
<1>6. CASE Rollback(c)
  BY <1>6 DEF Rollback, MakeUpid, Known
<1>7. CASE Forget(c)
  BY <1>7 DEF Forget, MakeUpid, Known
<1>8. CASE Configure(c)
  <2>1. \A id \in Ids : Known(id)' = Known(id) /\ vms'[id].born = vms[id].born
    BY <1>8 DEF Configure, Known, Vm
  <2> QED
    BY <1>8, <2>1 DEF Configure
<1> QED
  BY <1>1, <1>2, <1>3, <1>4, <1>5, <1>6, <1>7, <1>8
  DEF ClientStep, Begin, RequireVm, NextId, CheckDrive, Find, List

LEMMA BornStep ==
    ASSUME FakeInv, NEW c \in Clients, ClientStep(c)
    PROVE  BornBefore'
<1> USE FakeAssumption DEF FakeInv, TypeOK, backend, client, BornBefore, Vm
<1>1. CASE UNCHANGED backend
  BY <1>1
<1>2. CASE Power(c)
  BY <1>2 DEF Power, MakeUpid
<1>3. CASE Delete(c)
  BY <1>3 DEF Delete, MakeUpid, Absent
<1>4. CASE Clone(c)
  BY <1>4 DEF Clone, AddVm, NewVm, MakeUpid
<1>5. CASE TakeSnapshot(c) \/ Rollback(c) \/ Forget(c)
  BY <1>5 DEF TakeSnapshot, Rollback, Forget, MakeUpid
<1>6. CASE Configure(c)
  BY <1>6 DEF Configure
<1> QED
  BY <1>1, <1>2, <1>3, <1>4, <1>5, <1>6
  DEF ClientStep, Begin, RequireVm, NextId, CheckDrive, Find, List

\* The VM of a snapshot that is listed is there.
LEMMA SeenIsThere ==
    ASSUME FakeInv, NEW c \in Clients, Listed(handle[c], snap[c]) # {}
    PROVE  Known(handle[c])
BY DEF FakeInv, TypeOK, SnapshotsAreOwn, Listed, NamedSo

\* A snapshot that is taken later comes later in the list, and only a deletion that
\* its call hears of takes one out.
LEMMA SureStep ==
    ASSUME FakeInv, NEW c \in Clients, ClientStep(c), NEW d \in Clients
    PROVE  SureOK(d)'
<1> USE FakeAssumption DEF FakeInv, TypeOK, backend, client, SureOK
<1>a. CallOK(d) /\ SureOK(d) /\ SureOK(c) /\ handle[d] \in Ids /\ handle[c] \in Ids
  OBVIOUS
<1>1. CASE UNCHANGED snapshots /\ d # c
  <2>1. /\ at'[d] = at[d] /\ handle'[d] = handle[d] /\ snap'[d] = snap[d]
        /\ upid'[d] = upid[d] /\ result'[d] = result[d]
        /\ sure'[d] => sure[d]
    BY <1>1 DEF ClientStep, Begin, RequireVm, Power, Delete, NextId, CheckDrive, Clone, Configure,
       TakeSnapshot, Find, Found, List, Rollback, Forget, GoOn, Go, End
  <2> QED BY <1>1, <1>a, <2>1 DEF NamedSo, Listed
<1>2. CASE Begin(c)
  BY <1>1, <1>2 DEF Begin
<1>3. CASE RequireVm(c) \/ Power(c) \/ NextId(c) \/ CheckDrive(c) \/ Clone(c)
           \/ Configure(c) \/ Rollback(c)
  <2>1. /\ at[c] \notin {"idle", "find"} /\ at'[c] \notin {"find", "rollback"}
        /\ sure' = sure /\ UNCHANGED snapshots
    <3>1. CASE RequireVm(c) \/ Power(c) \/ NextId(c) \/ CheckDrive(c) \/ Rollback(c)
      BY <3>1 DEF RequireVm, Power, NextId, CheckDrive, Rollback, Requiring, Puts, Go, End
    <3>2. CASE Clone(c) \/ Configure(c)
      <4>1. GoOn(c) \/ End(c, "returned")
        BY <3>2 DEF Clone, Configure
      <4>2. at'[c] \notin {"find", "rollback"}
        BY <4>1 DEF GoOn, Go, End, Parts
      <4> QED BY <3>2, <4>2 DEF Clone, AddVm, Configure, Puts
    <3> QED BY <1>3, <3>1, <3>2
  <2>2. sure[c] => at[c] = "rollback" /\ Known(handle[c])
    BY <1>a, <2>1, SeenIsThere
  <2>3. sure[c] => at'[c] = "idle" /\ result'[c] = "returned"
    <3>1. CASE RequireVm(c)
      BY <2>2, <3>1 DEF RequireVm, Required
    <3>2. CASE Rollback(c)
      BY <3>2 DEF Rollback, End
    <3> QED
      BY <1>3, <2>2, <3>1, <3>2 DEF Power, NextId, CheckDrive, Clone, Configure, Puts
  <2> QED BY <1>1, <1>a, <2>1, <2>3
<1>8. CASE List(c)
  <2>1. /\ at'[c] \in {"idle", "rollback"} /\ UNCHANGED <<snapshots, handle, snap>>
        /\ sure'[c] => at'[c] = "rollback" /\ Listed(handle[c], snap[c]) # {}
    BY <1>8 DEF List, Go, End
  <2> QED BY <1>1, <1>a, <2>1 DEF Listed, NamedSo
<1>4. CASE Find(c)
  <2>1. CASE d = c /\ sure[c]
    <3>0. Listed(handle[c], snap[c]) = NamedSo(handle[c], snap[c])
      BY <1>4, <1>a, <2>1 DEF Find, Listed
    <3>1. [name |-> snap[c], upid |-> upid[c]] \in NamedSo(handle[c], snap[c])
      BY <1>4, <1>a, <2>1 DEF Find, NamedSo
    <3>2. PICK first \in NamedSo(handle[c], snap[c]) :
             /\ \A s \in NamedSo(handle[c], snap[c]) : first.upid <= s.upid
             /\ Found(c, first)
      BY <1>4, <3>0, <3>1 DEF Find
    <3>3. first.upid <= upid[c] /\ first.upid \in Nat /\ upid[c] \in Nat
      BY <1>a, <3>1, <3>2 DEF NamedSo, Snapshot
    <3>4. first.upid = upid[c]
      BY <1>4, <1>a, <2>1, <3>2, <3>3 DEF Find
    <3> QED BY <2>1, <3>2, <3>4 DEF Found, End
  <2> QED BY <1>1, <1>4, <1>a, <2>1 DEF Find, Found, End
<1>5. CASE TakeSnapshot(c)
  <2> DEFINE new == [name |-> snap[c], upid |-> tasks']
  <2>1. /\ snapshots' = [snapshots EXCEPT ![handle[c]] = @ \cup {new}]
        /\ tasks' = tasks + 1 /\ UNCHANGED <<handle, snap, result>>
        /\ upid' = [upid EXCEPT ![c] = tasks'] /\ at' = [at EXCEPT ![c] = "find"]
        /\ sure' = [sure EXCEPT ![c] = /\ snap[c] # Current
                                       /\ NamedSo(handle[c], snap[c]) = {}]
    BY <1>5 DEF TakeSnapshot, MakeUpid, Go
  <2>2. CASE d = c
    <3>1. sure'[d] => NamedSo(handle[d], snap[d]) = {} /\ snap[d] # Current
      BY <2>1, <2>2
    <3>2. snapshots'[handle[d]] = snapshots[handle[d]] \cup {new}
      BY <1>a, <2>1, <2>2
    <3>3. handle'[d] = handle[d] /\ snap'[d] = snap[d] /\ upid'[d] = tasks'
          /\ at'[d] = "find"
      BY <2>1, <2>2
    <3>4. new \in snapshots'[handle[d]] /\ new = [name |-> snap'[d], upid |-> upid'[d]]
      BY <2>2, <3>2, <3>3
    <3>5. sure'[d] => \A s \in NamedSo(handle[d], snap[d])' : s = new
      BY <3>1, <3>2, <3>3 DEF NamedSo
    <3>6. \A s \in NamedSo(handle[d], snap[d])' : sure'[d] => s.upid = upid'[d]
      BY <3>3, <3>5
    <3> HIDE DEF new
    <3> QED BY <3>1, <3>3, <3>4, <3>6
  <2>3. CASE d # c
    <3>1. at'[d] = at[d] /\ sure'[d] = sure[d] /\ upid'[d] = upid[d]
      BY <2>1, <2>3
    <3>2. sure[d] /\ at[d] = "find" => upid[d] <= tasks
      BY <1>a DEF SnapshotsAreOwn
    <3>3. upid[d] \in Nat /\ tasks \in Nat
      OBVIOUS
    <3>4. snapshots'[handle[d]] = snapshots[handle[d]]
          \/ snapshots'[handle[d]] = snapshots[handle[d]] \cup {new}
      BY <1>a, <2>1
    <3>5. Listed(handle[d], snap[d]) \subseteq Listed(handle[d], snap[d])'
      BY <2>1, <3>4 DEF Listed, NamedSo
    <3> QED BY <1>a, <2>1, <3>1, <3>2, <3>3, <3>4, <3>5 DEF NamedSo
  <2> QED BY <2>2, <2>3
<1>6. CASE Delete(c)
  <2>1. /\ snapshots' = [snapshots EXCEPT ![handle[c]] = {}]
        /\ at[c] = "delete" /\ at' = [at EXCEPT ![c] = "idle"]
        /\ sure' = [e \in Clients |-> sure[e] /\ handle[e] # handle[c]]
        /\ UNCHANGED <<handle, snap, upid>>
        /\ d # c => result'[d] = result[d]
    BY <1>6 DEF Delete, End
  <2> QED BY <1>a, <2>1 DEF NamedSo, Listed
<1>7. CASE Forget(c)
  <2>1. /\ snapshots' = [snapshots EXCEPT ![handle[c]] = @ \ NamedSo(handle[c], snap[c])]
        /\ at[c] = "forget" /\ at' = [at EXCEPT ![c] = "idle"]
        /\ sure' = [e \in Clients |-> sure[e] /\ ~(/\ handle[e] = handle[c]
                                                  /\ snap[e] = snap[c])]
        /\ UNCHANGED <<handle, snap, upid>>
        /\ d # c => result'[d] = result[d]
    BY <1>7 DEF Forget, End
  <2>2. snapshots'[handle[d]] \subseteq snapshots[handle[d]]
    BY <1>a, <2>1
  <2>3. CASE at[d] = "find" /\ sure'[d]
    <3> DEFINE own == [name |-> snap[d], upid |-> upid[d]]
    <3>1. sure[d] /\ own \in snapshots[handle[d]]
      BY <1>a, <2>1, <2>3
    <3>2. own \in snapshots'[handle[d]]
      BY <1>a, <2>1, <2>3, <3>1 DEF NamedSo
    <3> QED BY <1>a, <2>1, <2>2, <2>3, <3>1, <3>2 DEF NamedSo
  <2>4. CASE at[d] = "rollback" /\ sure'[d]
    <3>1. sure[d] /\ ~(handle[d] = handle[c] /\ snap[d] = snap[c])
      BY <2>1, <2>4
    <3>2. Listed(handle[d], snap[d])' = Listed(handle[d], snap[d])
      BY <1>a, <2>1, <3>1 DEF Listed, NamedSo
    <3> QED BY <1>a, <2>1, <2>4, <3>1, <3>2
  <2> QED BY <1>a, <2>1, <2>3, <2>4
<1> QED
  BY <1>2, <1>3, <1>4, <1>5, <1>6, <1>7, <1>8 DEF ClientStep

LEMMA StepInv == ASSUME OneLauncher, FakeInv, [Next]_vars PROVE FakeInv'
<1>1. CASE UNCHANGED vars
  BY <1>1 DEF vars, backend, client, FakeInv, TypeOK, SnapshotsAreOwn, CallOK, Known, BornBefore,
     SureOK, NamedSo, Listed
<1>2. CASE Next
  <2>1. PICK c \in Clients : ClientStep(c)
    BY <1>2 DEF Next
  <2> QED
    BY <2>1, TypeStep, OwnStep, BornStep, CallStep, SureStep DEF FakeInv
<1> QED
  BY <1>1, <1>2

\* With one launching thread the states have their types, every snapshot was
\* taken of the VM that has the id now, and an id chosen by launch stays free
\* until it is cloned to (testing.py add_vm and delete, client.py _next_vmid).
THEOREM Invariance == ASSUME OneLauncher PROVE Spec => []FakeInv
BY InitInv, StepInv, PTL DEF Spec

\* The run's invariant SnapshotsAreOwn, for every value of the constants: an id
\* that is used again brings no snapshots with it (testing.py add_vm, delete).
THEOREM OwnSnapshots == ASSUME OneLauncher PROVE Spec => []SnapshotsAreOwn
<1>1. FakeInv => SnapshotsAreOwn
  BY DEF FakeInv
<1> QED
  BY <1>1, Invariance, PTL

\* What a call of snapshot returns is the snapshot it took, if it can be sure of it,
\* for any number of threads that take, delete and forget snapshots (vm.py:148).
THEOREM OwnSnapshotReturned == ASSUME OneLauncher PROVE Spec => []SnapshotIsOwn
<1>1. FakeInv => SnapshotIsOwn
  BY DEF FakeInv, SureOK, SnapshotIsOwn
<1> QED
  BY <1>1, Invariance, PTL

-----------------------------------------------------------------------------
(* restore *)

\* A restore rolls back the VM whose snapshots it has seen, to one that is there,
\* unless somebody has deleted either meanwhile: for any number of threads that
\* delete and forget (vm.py:163-168).
THEOREM RestoreIsSound == ASSUME OneLauncher PROVE Spec => RestoredIsListed
<1> DEFINE Sound(c) == at[c] = "rollback" /\ at'[c] = "idle" /\ sure[c]
                       => /\ result'[c] = "returned"
                          /\ Known(handle[c]) /\ Listed(handle[c], snap[c]) # {}
<1>1. FakeInv /\ [Next]_vars => [\A c \in Clients : Sound(c)]_vars
  <2> SUFFICES ASSUME FakeInv, NEW d \in Clients, ClientStep(d), NEW c \in Clients,
                      at[c] = "rollback", at'[c] = "idle", sure[c]
               PROVE  /\ result'[c] = "returned"
                      /\ Known(handle[c]) /\ Listed(handle[c], snap[c]) # {}
    BY DEF Next
  <2>1. Listed(handle[c], snap[c]) # {} /\ Known(handle[c])
    BY SeenIsThere DEF FakeInv, SureOK
  <2>2. d = c
    BY DEF FakeInv, TypeOK, ClientStep, Begin, RequireVm, Power, Delete, NextId, CheckDrive,
       Clone, Configure, TakeSnapshot, Find, Found, List, Rollback, Forget, GoOn, Go, End
  <2>3. RequireVm(c) \/ Rollback(c)
    BY <2>2, FakeAssumption DEF ClientStep, Begin, RequireVm, Power, Delete, NextId, CheckDrive,
       Clone, Configure, TakeSnapshot, Find, List, Rollback, Forget, Puts
  <2>4. result'[c] = "returned"
    BY <2>1, <2>3 DEF RequireVm, Required, Rollback, End, FakeInv, TypeOK
  <2> QED BY <2>1, <2>4
<1> QED
  BY <1>1, Invariance, PTL DEF Spec, RestoredIsListed

-----------------------------------------------------------------------------
(* The refinement *)

\* Replacing what is at one id, the others staying, is a Put of the store.
LEMMA PutStore ==
    ASSUME NEW id \in Ids, NEW vm,
           StoredAt(id)' = vm,
           \A other \in Ids \ {id} : StoredAt(other)' = StoredAt(other)
    PROVE  VS!Put(id, vm)
<1>1. Store' = [other \in Ids |-> StoredAt(other)']
  BY DEF Store
<1>2. Store' = [Store EXCEPT ![id] = vm]
  BY <1>1 DEF Store
<1> QED
  BY <1>2 DEF VS!Put

LEMMA SameStore == ASSUME UNCHANGED <<vms, snapshots>> PROVE UNCHANGED Store
BY DEF Store, StoredAt, Known

LEMMA StoredIsVm ==
    ASSUME TypeOK, NEW id \in Ids
    PROVE  /\ ~Known(id) => Store[id] = NoVm
           /\ Known(id) => /\ Store[id] # NoVm
                           /\ Store[id] = [born |-> vms[id].born,
                                           status |-> vms[id].status,
                                           settings |-> vms[id].settings,
                                           snapshots |-> snapshots[id]]
<1>1. Store[id] = StoredAt(id)
  BY DEF Store
<1>2. Known(id) => StoredAt(id) \in StoredVm
  BY DEF StoredAt, StoredVm, TypeOK, Vm, Known
<1> QED
  BY <1>1, <1>2, NoVmAssumption DEF StoredAt

\* Updates of the one field of a stored VM that holds its snapshots.
LEMMA SnapshotsField ==
    ASSUME NEW b, NEW s, NEW t, NEW x, NEW vm,
           vm = [born |-> b, status |-> s, settings |-> t, snapshots |-> x]
    PROVE  vm.snapshots = x
OBVIOUS

LEMMA SnapshotsUpdate ==
    ASSUME NEW b, NEW s, NEW t, NEW x, NEW y, NEW vm,
           vm = [born |-> b, status |-> s, settings |-> t, snapshots |-> x]
    PROVE  [vm EXCEPT !.snapshots = y]
             = [born |-> b, status |-> s, settings |-> t, snapshots |-> y]
BY Z3

LEMMA SettingsUpdate ==
    ASSUME NEW b, NEW s, NEW t, NEW u, NEW x, NEW vm,
           vm = [born |-> b, status |-> s, settings |-> t, snapshots |-> x]
    PROVE  [vm EXCEPT !.settings = u]
             = [born |-> b, status |-> s, settings |-> u, snapshots |-> x]
BY Z3

LEMMA InitStore == Init => VS!Init
BY DEF Init, VS!Init, Store, StoredAt

LEMMA StepStore ==
    ASSUME OneLauncher, FakeInv, [Next]_vars
    PROVE  [VS!Next]_Store
<1> USE FakeAssumption DEF FakeInv, backend, client
<1>0. \A id \in Ids :
        /\ ~Known(id) => Store[id] = NoVm
        /\ Known(id) => /\ Store[id] # NoVm
                        /\ Store[id] = [born |-> vms[id].born, status |-> vms[id].status,
                                        settings |-> vms[id].settings,
                                        snapshots |-> snapshots[id]]
  BY StoredIsVm
<1>1. CASE UNCHANGED <<vms, snapshots>>
  BY <1>1, SameStore
<1>2. ASSUME NEW c \in Clients, Power(c) PROVE VS!Next
  <2>0. PICK id \in Ids : id = handle[c]
    BY DEF TypeOK
  <2> DEFINE s == Status(at[c])
  <2>1. id \in Ids /\ Known(id) /\ s \in {"stopped", "running"}
    BY <2>0, <1>2 DEF Power, Status, TypeOK
  <2>2. vms'[id] = [vms[id] EXCEPT !.status = s] /\ snapshots' = snapshots
    BY <2>0, <1>2 DEF Power, TypeOK
  <2>3. \A other \in Ids \ {id} : StoredAt(other)' = StoredAt(other)
    BY <2>0, <1>2 DEF Power, StoredAt, Known, TypeOK
  <2>4. StoredAt(id)' = [Store[id] EXCEPT !.status = s]
    <3>1. vms[id] \in Vm
      BY DEF TypeOK
    <3>2. /\ vms'[id].born = vms[id].born /\ vms'[id].status = s
          /\ vms'[id].status # "absent" /\ vms'[id].settings = vms[id].settings
      BY <2>1, <2>2, <3>1 DEF Vm
    <3>3. StoredAt(id)' = [born |-> vms[id].born, status |-> s,
                          settings |-> vms[id].settings, snapshots |-> snapshots[id]]
      BY <2>2, <3>2 DEF StoredAt, Known
    <3>4. Store[id] = [born |-> vms[id].born, status |-> vms[id].status,
                       settings |-> vms[id].settings, snapshots |-> snapshots[id]]
      BY <2>1, <1>0 DEF Known
    <3> HIDE DEF s
    <3> QED
      BY <3>3, <3>4
  <2>5. VS!SetPower(id, s)
    BY <2>1, <2>3, <2>4, PutStore, <1>0 DEF VS!SetPower, VS!Put, StoredAt, Known
  <2> QED
    BY <2>1, <2>5 DEF VS!Next
<1>3. ASSUME NEW c \in Clients, Delete(c) PROVE VS!Next
  <2>0. PICK id \in Ids : id = handle[c]
    BY DEF TypeOK
  <2>1. id \in Ids /\ Known(id)
    BY <2>0, <1>3 DEF Delete, TypeOK
  <2>2. StoredAt(id)' = NoVm
    BY <2>0, <1>3 DEF Delete, StoredAt, Known, Absent, TypeOK
  <2>3. \A other \in Ids \ {id} : StoredAt(other)' = StoredAt(other)
    BY <2>0, <1>3 DEF Delete, StoredAt, Known, TypeOK
  <2>4. VS!Remove(id)
    BY <2>1, <2>2, <2>3, PutStore, <1>0 DEF VS!Remove, VS!Put, StoredAt, Known
  <2> QED
    BY <2>1, <2>4 DEF VS!Next
<1>4. ASSUME NEW c \in Clients, Clone(c) PROVE VS!Next
  <2>0. PICK id \in Ids : id = handle[c]
    BY DEF TypeOK
  <2>1. id \in Ids /\ ~Known(id)
    BY <2>0, <1>4 DEF Clone, OneLauncher, CallOK, Operations, TypeOK
  <2>2. snapshots'[id] = {}
    BY <2>0, <1>4, <2>1 DEF Clone, AddVm, SnapshotsAreOwn, TypeOK
  <2>3. StoredAt(id)' = [born |-> tasks', status |-> "stopped", settings |-> {},
                         snapshots |-> {}]
    BY <2>0, <1>4, <2>2 DEF Clone, AddVm, NewVm, StoredAt, Known, TypeOK
  <2>4. \A other \in Ids \ {id} : StoredAt(other)' = StoredAt(other)
    BY <2>0, <1>4 DEF Clone, AddVm, StoredAt, Known, TypeOK
  <2>5. tasks' \in 0..MaxTasks
    BY <2>0, <1>4 DEF Clone, MakeUpid, TypeOK
  <2>6. VS!Create(id, tasks')
    BY <2>1, <2>3, <2>4, PutStore, <1>0 DEF VS!Create, VS!Put, StoredAt, Known
  <2> QED
    BY <2>1, <2>5, <2>6 DEF VS!Next
<1>5. ASSUME NEW c \in Clients, TakeSnapshot(c) PROVE VS!Next
  <2>0. PICK id \in Ids : id = handle[c]
    BY DEF TypeOK
  <2> DEFINE s == [name |-> snap[c], upid |-> tasks']
  <2>1. id \in Ids /\ Known(id)
    BY <2>0, <1>5 DEF TakeSnapshot, TypeOK
  <2>2. snap[c] \in Names
    BY <2>0, <1>5 DEF TakeSnapshot, CallOK
  <2>3. s \in VS!Snapshot
    BY <2>0, <1>5, <2>2 DEF TakeSnapshot, MakeUpid, VS!Snapshot, TypeOK
  <2>4. s \notin snapshots[id]
    BY <2>0, <1>5, <2>1 DEF TakeSnapshot, MakeUpid, SnapshotsAreOwn, Snapshot, TypeOK
  <2>5. snapshots'[id] = snapshots[id] \cup {s} /\ vms' = vms
    BY <2>0, <1>5 DEF TakeSnapshot, TypeOK
  <2>6. \A other \in Ids \ {id} : StoredAt(other)' = StoredAt(other)
    BY <2>0, <1>5 DEF TakeSnapshot, StoredAt, Known, TypeOK
  <2>7. Store[id] = [born |-> vms[id].born, status |-> vms[id].status,
                     settings |-> vms[id].settings, snapshots |-> snapshots[id]]
    BY <2>1, <1>0 DEF Known
  <2>8. Store[id].snapshots = snapshots[id]
    BY <2>7, SnapshotsField
  <2>9. StoredAt(id)' = [born |-> vms[id].born, status |-> vms[id].status,
                         settings |-> vms[id].settings, snapshots |-> snapshots[id] \cup {s}]
    BY <2>1, <2>5 DEF StoredAt, Known
  <2>10. StoredAt(id)' = [Store[id] EXCEPT !.snapshots = snapshots[id] \cup {s}]
    <3> DEFINE Kept == snapshots[id] \cup {s}
    <3>1. StoredAt(id)' = [born |-> vms[id].born, status |-> vms[id].status,
                           settings |-> vms[id].settings, snapshots |-> Kept]
      BY <2>9
    <3> HIDE DEF Kept
    <3>2. StoredAt(id)' = [Store[id] EXCEPT !.snapshots = Kept]
      BY <2>7, <3>1, SnapshotsUpdate
    <3> QED
      BY <3>2 DEF Kept
  <2>11. VS!TakeSnapshot(id, s)
    <3>1. s \notin Store[id].snapshots
      BY <2>4, <2>8
    <3>2. StoredAt(id)' = [Store[id] EXCEPT !.snapshots = @ \cup {s}]
      BY <2>8, <2>10
    <3> HIDE DEF s
    <3> QED
      BY <2>1, <2>6, <3>1, <3>2, PutStore, <1>0 DEF VS!TakeSnapshot, VS!Put, StoredAt, Known
  <2> QED
    BY <2>1, <2>3, <2>11 DEF VS!Next
<1>6. ASSUME NEW c \in Clients, Forget(c) PROVE [VS!Next]_Store
  <2>0. PICK id \in Ids : id = handle[c]
    BY DEF TypeOK
  <2> DEFINE Kept == {s \in snapshots[id] : s.name # snap[c]}
  <2>1. id \in Ids /\ snap[c] \in Names /\ vms' = vms
    BY <2>0, <1>6 DEF Forget, CallOK, TypeOK
  <2>2. snapshots'[id] = Kept
    BY <2>0, <1>6 DEF Forget, NamedSo, TypeOK
  <2>3. \A other \in Ids \ {id} : StoredAt(other)' = StoredAt(other)
    BY <2>0, <1>6 DEF Forget, StoredAt, Known, TypeOK
  <2>4. CASE ~Known(id)
    <3>1. StoredAt(id)' = StoredAt(id)
      BY <2>1, <2>4 DEF StoredAt, Known
    <3> QED
      BY <2>3, <3>1 DEF Store
  <2>5. CASE Known(id)
    <3>1. Store[id] = [born |-> vms[id].born, status |-> vms[id].status,
                       settings |-> vms[id].settings, snapshots |-> snapshots[id]]
      BY <2>1, <2>5, <1>0 DEF Known
    <3>2. StoredAt(id)' = [born |-> vms[id].born, status |-> vms[id].status,
                           settings |-> vms[id].settings, snapshots |-> Kept]
      BY <2>1, <2>2, <2>5 DEF StoredAt, Known
    <3>3. Store[id].snapshots = snapshots[id]
      BY <3>1, SnapshotsField
    <3>4. StoredAt(id)' = [Store[id] EXCEPT !.snapshots = Kept]
      <4> HIDE DEF Kept
      <4> QED
        BY <3>1, <3>2, SnapshotsUpdate
    <3>5. StoredAt(id)' = [Store[id] EXCEPT !.snapshots = {s \in @ : s.name # snap[c]}]
      BY <3>3, <3>4
    <3>6. VS!DropSnapshots(id, snap[c])
      BY <2>1, <2>3, <2>5, <3>5, PutStore, <1>0 DEF VS!DropSnapshots, VS!Put, StoredAt, Known
    <3> QED
      BY <2>1, <3>6 DEF VS!Next
  <2> QED
    BY <2>4, <2>5
<1>7. ASSUME NEW c \in Clients, Configure(c) PROVE VS!Next
  <2>0. PICK id \in Ids : id = handle[c]
    BY DEF TypeOK
  <2>1. PICK new \in SUBSET Settings : vms' = [vms EXCEPT ![id].settings = @ \cup new]
    BY <1>7, <2>0 DEF Configure, Settings
  <2> DEFINE All == vms[id].settings \cup new
  <2>2. Known(id) /\ snapshots' = snapshots
    BY <2>0, <1>7 DEF Configure
  <2>3. vms'[id] = [vms[id] EXCEPT !.settings = All] /\ vms[id] \in Vm
    BY <2>1 DEF TypeOK
  <2>4. \A other \in Ids \ {id} : StoredAt(other)' = StoredAt(other)
    BY <2>1, <2>2 DEF StoredAt, Known, TypeOK
  <2>5. Store[id] = [born |-> vms[id].born, status |-> vms[id].status,
                     settings |-> vms[id].settings, snapshots |-> snapshots[id]]
    BY <2>2, <1>0
  <2>6. StoredAt(id)' = [born |-> vms[id].born, status |-> vms[id].status,
                         settings |-> All, snapshots |-> snapshots[id]]
    <3>1. /\ vms'[id].born = vms[id].born /\ vms'[id].status = vms[id].status
          /\ vms'[id].settings = All
      BY <2>3 DEF Vm
    <3> HIDE DEF All
    <3> QED BY <2>2, <3>1 DEF StoredAt, Known
  <2>7. Store[id].settings = vms[id].settings
    BY <2>5
  <2>8. StoredAt(id)' = [Store[id] EXCEPT !.settings = All]
    <3> HIDE DEF All
    <3> QED BY <2>5, <2>6, SettingsUpdate
  <2>9. StoredAt(id)' = [Store[id] EXCEPT !.settings = @ \cup new]
    BY <2>7, <2>8
  <2>10. VS!Configure(id, new)
    BY <2>2, <2>4, <2>9, PutStore, <1>0 DEF VS!Configure, VS!Put
  <2> QED
    BY <2>10 DEF VS!Next
<1> QED
  BY <1>1, <1>2, <1>3, <1>4, <1>5, <1>6, <1>7
  DEF Next, ClientStep, vars, Begin, RequireVm, NextId, CheckDrive, Find, List, Rollback

\* With one launching thread the fake backend implements the store of VMs that
\* the methods of ProxmoxVM take for granted (testing.py FakeBackend).
THEOREM Refinement == ASSUME OneLauncher PROVE Spec => IsVmStore
<1>1. Init => VS!Init
  BY InitStore
<1>2. FakeInv /\ [Next]_vars => [VS!Next]_Store
  BY StepStore
<1> QED
  BY <1>1, <1>2, Invariance, PTL DEF Spec, IsVmStore, VS!Spec
=============================================================================
