------------------------------ MODULE FakeBackend ------------------------------
(***************************************************************************)
(* The methods of ProxmoxVM and ProxmoxClient.launch on the FakeBackend of   *)
(* testing.py.  A route of the fake is one step and its task has ended when  *)
(* it answers; a method is a sequence of routes, and other threads that      *)
(* share the backend take steps in between.                                  *)
(***************************************************************************)
EXTENDS Integers, FiniteSets

CONSTANTS
    Clients,   \* threads that use the backend
    Ops,       \* Ops[c]: the operations thread c calls
    Names,     \* names of snapshots
    NoName,    \* no name
    Current,   \* the name under which Proxmox lists the running state of a VM
    Seeded,    \* the VMs a test adds with add_vm, the template among them
    NoVm,      \* the abstract store has no VM there
    LastId,    \* bound: the greatest VM id
    MaxTasks   \* bound: how many tasks the fake hands out

\* Tests seed the template with this id.
TemplateId == 9000
\* 100 is what _next_vmid picks when there are no VMs.
Ids == {100} \cup TemplateId..LastId

Operations == {"start", "stop", "reboot", "delete", "snapshot", "restore",
               "launch", "clone_to", "resize_disk", "configure_cloud_init", "forget"}

ASSUME FakeAssumption ==
    /\ LastId \in Nat /\ LastId >= TemplateId
    /\ MaxTasks \in Nat
    /\ Seeded \subseteq Ids
    /\ NoName \notin Names
    /\ Ops \in [Clients -> SUBSET Operations]

VARIABLES
    vms,        \* _vms, by id: status, what PUT config has stored, and the task
                \* that made each
    snapshots,  \* _snapshots, by id: name, and the task that took each
    tasks,      \* _task_counter
    at,         \* at[c]: the route thread c requests next
    handle,     \* handle[c]: the VM id its call is about
    snap,       \* snap[c]: the snapshot name its call is about
    upid,       \* upid[c]: the task of the snapshot its call took
    result,     \* result[c]: how its last call ended
    sure        \* sure[c]: its last call took the only snapshot of that name, or
                \* found the one it restores, and since then nobody deleted it or
                \* the VM

backend == <<vms, snapshots, tasks>>
client == <<handle, snap, upid>>
vars == <<backend, at, client, result, sure>>

-----------------------------------------------------------------------------

\* The fields that launch and configure_cloud_init set.
Settings == {"hardware", "cloud_init"}
Vm == [status : {"absent", "stopped", "running"}, settings : SUBSET Settings,
       born : 0..MaxTasks]
NewVm(n) == [status |-> "stopped", settings |-> {}, born |-> n]
Absent == [status |-> "absent", settings |-> {}, born |-> 0]
Snapshot == [name : Names, upid : 1..MaxTasks]
StoredVm == [born : 0..MaxTasks, status : {"stopped", "running"},
             settings : SUBSET Settings, snapshots : SUBSET Snapshot]
ASSUME NoVmAssumption == NoVm \notin StoredVm

\* The calls of launch after the clone, in order.
Parts == <<"hardware", "resize", "cloud_init", "boot">>
PartNames == {Parts[i] : i \in DOMAIN Parts}
\* The routes of methods that make more than one call.
LaterRoutes == {"find", "rollback", "check", "clone"} \cup PartNames
Results == {"none", "returned", "stand_in", "other_snapshot", "VmNotFoundError",
            "SnapshotNotFoundError", "ProxmoxError", "KeyError"}

TypeOK ==
    /\ vms \in [Ids -> Vm]
    /\ snapshots \in [Ids -> SUBSET Snapshot]
    /\ tasks \in 0..MaxTasks
    /\ at \in [Clients -> {"idle"} \cup Operations \cup LaterRoutes]
    /\ handle \in [Clients -> Ids]
    /\ snap \in [Clients -> Names \cup {NoName}]
    /\ upid \in [Clients -> 0..MaxTasks]
    /\ result \in [Clients -> Results]
    /\ sure \in [Clients -> BOOLEAN]

Known(id) == vms[id].status # "absent"
Existing == {id \in Ids : Known(id)}

Init ==
    /\ vms = [id \in Ids |-> IF id \in Seeded THEN NewVm(0) ELSE Absent]
    /\ snapshots = [id \in Ids |-> {}]
    /\ tasks = 0
    /\ at = [c \in Clients |-> "idle"]
    /\ handle = [c \in Clients |-> TemplateId]
    /\ snap = [c \in Clients |-> NoName]
    /\ upid = [c \in Clients |-> 0]
    /\ result = [c \in Clients |-> "none"]
    /\ sure = [c \in Clients |-> FALSE]

-----------------------------------------------------------------------------
(* How a call goes on and ends *)

Go(c, route) == at' = [at EXCEPT ![c] = route] /\ UNCHANGED result
End(c, how) ==
    /\ at' = [at EXCEPT ![c] = "idle"]
    /\ result' = [result EXCEPT ![c] = how]

MakeUpid == tasks < MaxTasks /\ tasks' = tasks + 1

AddVm(id) ==
    /\ vms' = [vms EXCEPT ![id] = NewVm(tasks')]
    /\ UNCHANGED snapshots  \* setdefault keeps a list that is there

\* A thread calls an operation, on a VM it has a handle of; who calls clone picks
\* an id that is free.
Begin(c) ==
    /\ at[c] = "idle"
    /\ \E op \in Ops[c] :
         /\ at' = [at EXCEPT ![c] = op]
         /\ \E id \in IF op = "clone_to" THEN Ids \ Existing ELSE Existing :
               handle' = [handle EXCEPT ![c] = id]
         /\ \E n \in IF op \in {"snapshot", "restore", "forget"} THEN Names ELSE {NoName} :
               snap' = [snap EXCEPT ![c] = n]
    /\ upid' = [upid EXCEPT ![c] = 0]
    /\ result' = [result EXCEPT ![c] = "none"]
    /\ sure' = [sure EXCEPT ![c] = FALSE]
    /\ UNCHANGED backend

-----------------------------------------------------------------------------
(* Routes that require the VM to exist *)

Puts == {"hardware", "resize", "cloud_init", "resize_disk", "configure_cloud_init"}
Requiring == {"start", "stop", "reboot", "boot", "delete", "snapshot", "rollback"} \cup Puts
\* clone looks for the template, which keeps its own id.
Required(c) == IF at[c] \in {"clone", "clone_to"} THEN TemplateId ELSE handle[c]

RequireVm(c) ==
    /\ at[c] \in Requiring \cup {"clone", "clone_to"}
    /\ ~Known(Required(c))
    /\ End(c, "VmNotFoundError")
    /\ UNCHANGED <<backend, client, sure>>

\* Mutant of Status: the fake stores the verb of the route
StatusVerb(route) == IF route = "stop" THEN "stopped" ELSE route

Status(route) == IF route = "stop" THEN "stopped" ELSE "running"

\* POST status/start, stop (and shutdown) and reboot; launch ends with a start.
Power(c) ==
    /\ at[c] \in {"start", "stop", "reboot", "boot"} /\ Known(handle[c])
    /\ vms' = [vms EXCEPT ![handle[c]].status = Status(at[c])]
    /\ MakeUpid
    /\ End(c, "returned")
    /\ UNCHANGED <<snapshots, client, sure>>

\* Mutant of Delete: the fake keeps the snapshots of a VM it deletes
DeleteKeeping(c) ==
    /\ at[c] = "delete" /\ Known(handle[c])
    /\ vms' = [vms EXCEPT ![handle[c]] = Absent]
    /\ MakeUpid
    /\ End(c, "returned")
    /\ UNCHANGED <<snapshots, client, sure>>

Delete(c) ==
    /\ at[c] = "delete" /\ Known(handle[c])
    /\ vms' = [vms EXCEPT ![handle[c]] = Absent]
    /\ snapshots' = [snapshots EXCEPT ![handle[c]] = {}]
    /\ sure' = [d \in Clients |-> sure[d] /\ handle[d] # handle[c]]
    /\ MakeUpid
    /\ End(c, "returned")
    /\ UNCHANGED client

-----------------------------------------------------------------------------
(* launch and clone *)

\* Mutant of NextFree: _next_vmid returns the greatest id there is
NextFreeGreatest(id) ==
    IF Existing = {} THEN id = 100
    ELSE id \in Existing /\ \A other \in Existing : other <= id

\* The fake has no cluster/nextid, so _next_vmid takes one more than the greatest.
NextFree(id) ==
    IF Existing = {} THEN id = 100
    ELSE id - 1 \in Existing /\ \A other \in Existing : other < id

NextId(c) ==
    /\ at[c] = "launch"
    /\ \E id \in Ids : NextFree(id) /\ handle' = [handle EXCEPT ![c] = id]
    /\ Go(c, "check") \/ Go(c, "clone")
    /\ UNCHANGED <<backend, snap, upid, sure>>

\* If cloud-init is asked for, the template must have a drive: whether it has is
\* in its fields.
CheckDrive(c) ==
    /\ at[c] = "check"
    /\ IF Known(TemplateId) THEN Go(c, "clone") \/ End(c, "ProxmoxError")
                            ELSE End(c, "KeyError")
    /\ UNCHANGED <<backend, client, sure>>

\* launch goes on with the next part that its configuration asks for, or returns.
GoOn(c) ==
    \/ \E i \in DOMAIN Parts :
         /\ \A j \in DOMAIN Parts : Parts[j] = at[c] => j < i
         /\ Go(c, Parts[i])
    \/ End(c, "returned")

\* launch clones to the id it picked, ProxmoxVM.clone to one its caller picked.
Clone(c) ==
    /\ at[c] \in {"clone", "clone_to"} /\ Known(TemplateId)
    /\ MakeUpid
    /\ AddVm(handle[c])
    /\ IF at[c] = "clone" THEN GoOn(c) ELSE End(c, "returned")
    /\ UNCHANGED <<client, sure>>

\* PUT config stores what it is sent, PUT resize nothing.
Configure(c) ==
    /\ at[c] \in Puts /\ Known(handle[c])
    /\ vms' = [vms EXCEPT ![handle[c]].settings = @ \cup
                  CASE at[c] = "hardware" -> {"hardware"}
                    [] at[c] \in {"cloud_init", "configure_cloud_init"} -> {"cloud_init"}
                    [] OTHER -> {}]
    /\ IF at[c] \in PartNames THEN GoOn(c) ELSE End(c, "returned")
    /\ UNCHANGED <<snapshots, tasks, client, sure>>

-----------------------------------------------------------------------------
(* Snapshots *)

NamedSo(id, n) == {s \in snapshots[id] : s.name = n}

\* What list_snapshots shows of them: nothing that is named like the running state.
Listed(id, n) == IF n = Current THEN {} ELSE NamedSo(id, n)

TakeSnapshot(c) ==
    /\ at[c] = "snapshot" /\ Known(handle[c])
    /\ MakeUpid
    /\ snapshots' = [snapshots EXCEPT ![handle[c]] = @ \cup {[name |-> snap[c], upid |-> tasks']}]
    /\ upid' = [upid EXCEPT ![c] = tasks']
    /\ sure' = [sure EXCEPT ![c] = snap[c] # Current /\ NamedSo(handle[c], snap[c]) = {}]
    /\ Go(c, "find")
    /\ UNCHANGED <<vms, handle, snap>>

Found(c, s) == End(c, IF s.upid = upid[c] THEN "returned" ELSE "other_snapshot")

\* Mutant of Find: snapshot returns the last of that name
FindLast(c) ==
    /\ at[c] = "find"
    /\ \/ Listed(handle[c], snap[c]) = {} /\ End(c, "stand_in")
       \/ \E last \in Listed(handle[c], snap[c]) :
            /\ \A s \in Listed(handle[c], snap[c]) : s.upid <= last.upid
            /\ Found(c, last)
    /\ UNCHANGED <<backend, client, sure>>

\* snapshot returns the first of that name, or makes a description up.
Find(c) ==
    /\ at[c] = "find"
    /\ \/ Listed(handle[c], snap[c]) = {} /\ End(c, "stand_in")
       \/ \E first \in Listed(handle[c], snap[c]) :
            /\ \A s \in Listed(handle[c], snap[c]) : first.upid <= s.upid
            /\ Found(c, first)
    /\ UNCHANGED <<backend, client, sure>>

\* restore looks for the snapshot; the listing of an unknown VM is empty.
List(c) ==
    /\ at[c] = "restore"
    /\ IF Listed(handle[c], snap[c]) = {} THEN End(c, "SnapshotNotFoundError")
       ELSE Go(c, "rollback")
    /\ sure' = [sure EXCEPT ![c] = Listed(handle[c], snap[c]) # {}]
    /\ UNCHANGED <<backend, client>>

\* The fake's rollback changes nothing and does not look for the snapshot.
Rollback(c) ==
    /\ at[c] = "rollback" /\ Known(handle[c])
    /\ MakeUpid
    /\ End(c, "returned")
    /\ UNCHANGED <<vms, snapshots, client, sure>>

\* Mutant of Forget: the fake drops every snapshot of the VM
ForgetAll(c) ==
    /\ at[c] = "forget"
    /\ snapshots' = [snapshots EXCEPT ![handle[c]] = {}]
    /\ sure' = [d \in Clients |-> sure[d] /\ ~(/\ handle[d] = handle[c]
                                              /\ snap[d] = snap[c])]
    /\ MakeUpid
    /\ End(c, "returned")
    /\ UNCHANGED <<vms, client>>

\* DELETE snapshots/{snap}, which no method requests; any VM will do.
Forget(c) ==
    /\ at[c] = "forget"
    /\ snapshots' = [snapshots EXCEPT ![handle[c]] = @ \ NamedSo(handle[c], snap[c])]
    /\ sure' = [d \in Clients |-> sure[d] /\ ~(/\ handle[d] = handle[c]
                                              /\ snap[d] = snap[c])]
    /\ MakeUpid
    /\ End(c, "returned")
    /\ UNCHANGED <<vms, client>>

ClientStep(c) ==
    \/ Begin(c) \/ RequireVm(c) \/ Power(c) \/ Delete(c)
    \/ NextId(c) \/ CheckDrive(c) \/ Clone(c) \/ Configure(c)
    \/ TakeSnapshot(c) \/ Find(c) \/ List(c) \/ Rollback(c) \/ Forget(c)

Next == \E c \in Clients : ClientStep(c)

Spec == Init /\ [][Next]_vars

-----------------------------------------------------------------------------

\* Every snapshot the fake lists was taken of the VM that now has the id: the
\* VM was made by an earlier task than the snapshot, and an id without a VM has
\* none, whatever deletions and launches went before (delete pops the list,
\* add_vm keeps one that it finds).
SnapshotsAreOwn ==
    \A id \in Ids : \A s \in snapshots[id] :
       Known(id) /\ vms[id].born < s.upid /\ s.upid <= tasks

\* "Returns the SnapshotInfo for it" (vm.py:141): what snapshot returns describes the
\* snapshot it took, whatever others do to the VM before it lists the snapshots, if
\* the name was not in use and nobody has deleted the snapshot or the VM.  It cannot
\* be sure of a snapshot named Current, which is never listed (vm.py:177).
SnapshotIsOwn ==
    \A c \in Clients : at[c] = "idle" /\ sure[c] => result[c] = "returned"

\* The VM the abstract store has at an id.
StoredAt(id) ==
    IF Known(id) THEN [born |-> vms[id].born, status |-> vms[id].status,
                       settings |-> vms[id].settings, snapshots |-> snapshots[id]]
    ELSE NoVm
Store == [id \in Ids |-> StoredAt(id)]
VS == INSTANCE VmStore WITH Serials <- 0..MaxTasks, store <- Store

\* The fake implements a store of VMs while one thread launches and clones: no
\* clone replaces a VM, and none inherits snapshots or settings.
IsVmStore == VS!Spec

\* A restore acts on what it saw a request ago (vm.py:163-169), and others delete
\* VMs and snapshots, take snapshots and use ids again in between: unless one of
\* them has deleted the VM or the snapshots of that name, the restore returns, and
\* the VM it rolls back is the one it saw and still has a snapshot of the name.
RestoredIsListed ==
    [][\A c \in Clients :
         at[c] = "rollback" /\ at'[c] = "idle" /\ sure[c]
         => /\ result'[c] = "returned"
            /\ Known(handle[c]) /\ Listed(handle[c], snap[c]) # {}]_vars
-----------------------------------------------------------------------------
(* The inductive invariant that FakeBackend_proofs rests on *)

Launches(c) == "launch" \in Ops[c] \/ "clone_to" \in Ops[c]
\* Only one thread picks the ids of new VMs.
OneLauncher ==
    \A c, d \in Clients : Launches(c) /\ Launches(d) => c = d

\* A call is at a route of an operation its thread may call, with what it needs.
CallOK(c) ==
    /\ at[c] \in Operations => at[c] \in Ops[c]
    /\ at[c] \in {"snapshot", "forget"} => snap[c] \in Names
    /\ at[c] \in {"check", "clone", "clone_to"} => Launches(c) /\ ~Known(handle[c])

\* Until it is looked for, the snapshot a call is sure of is the first of its name;
\* until the rollback, what a restore is sure of is still listed.
SureOK(c) ==
    /\ at[c] \notin {"find", "rollback", "idle"} => ~sure[c]
    /\ at[c] = "rollback" /\ sure[c] => Listed(handle[c], snap[c]) # {}
    /\ at[c] = "idle" /\ sure[c] => result[c] = "returned"
    /\ at[c] = "find" /\ sure[c] =>
          /\ snap[c] # Current
          /\ [name |-> snap[c], upid |-> upid[c]] \in snapshots[handle[c]]
          /\ \A s \in NamedSo(handle[c], snap[c]) :
                s.upid # upid[c] => upid[c] < s.upid

\* Every VM was made by a task that the fake has handed out.
BornBefore == \A id \in Ids : vms[id].born <= tasks

FakeInv ==
    /\ TypeOK /\ SnapshotsAreOwn /\ BornBefore
    /\ \A c \in Clients : CallOK(c) /\ SureOK(c)
=============================================================================
