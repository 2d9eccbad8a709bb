-------------------------------- MODULE VmStore --------------------------------
(***************************************************************************)
(* What the methods of ProxmoxVM take for granted of the backend behind     *)
(* them: a store of VMs.  A VM comes into being at an id that is free, with *)
(* no snapshots and no settings; it keeps its identity, its snapshots and    *)
(* its settings until it is deleted, and all of it goes then.                *)
(***************************************************************************)
EXTENDS Naturals

CONSTANTS
    Ids,     \* ids of VMs
    Names,   \* names of snapshots
    Settings, \* what can be set of a VM
    Serials, \* what tells VMs, and snapshots, of the same id or name apart
    NoVm     \* what is at an id where no VM is

VARIABLE store  \* store[id]: the VM with that id, or NoVm

Snapshot == [name : Names, upid : Serials]

Init == \A id \in Ids : store[id] = NoVm \/ store[id].snapshots = {}

Put(id, vm) == store' = [store EXCEPT ![id] = vm]

Create(id, n) ==
    /\ store[id] = NoVm
    /\ Put(id, [born |-> n, status |-> "stopped", settings |-> {}, snapshots |-> {}])

SetPower(id, s) ==
    /\ store[id] # NoVm
    /\ Put(id, [store[id] EXCEPT !.status = s])

Configure(id, new) ==
    /\ store[id] # NoVm
    /\ Put(id, [store[id] EXCEPT !.settings = @ \cup new])

TakeSnapshot(id, s) ==
    /\ store[id] # NoVm
    /\ s \notin store[id].snapshots
    /\ Put(id, [store[id] EXCEPT !.snapshots = @ \cup {s}])

DropSnapshots(id, name) ==
    /\ store[id] # NoVm
    /\ Put(id, [store[id] EXCEPT !.snapshots = {s \in @ : s.name # name}])

Remove(id) == store[id] # NoVm /\ Put(id, NoVm)

Next ==
    \E id \in Ids :
       \/ \E n \in Serials : Create(id, n)
       \/ \E s \in {"stopped", "running"} : SetPower(id, s)
       \/ \E new \in SUBSET Settings : Configure(id, new)
       \/ \E s \in Snapshot : TakeSnapshot(id, s)
       \/ \E name \in Names : DropSnapshots(id, name)
       \/ Remove(id)

Spec == Init /\ [][Next]_store
=============================================================================
