----------------------------- MODULE EnsureRunning -----------------------------
(***************************************************************************)
(* ProxmoxClient.ensure_running and purge (client.py) as clients of one      *)
(* cluster call them concurrently: look a VM up by name, look at its state,  *)
(* start it or launch it, call by call, while others delete, stop and        *)
(* migrate VMs.  A client made with a node sees the VMs of that node alone.  *)
(* ensure_running is always called with the same name, which is no number    *)
(* (get_vm takes a name of digits for an id).                                *)
(***************************************************************************)
EXTENDS Integers, FiniteSets

CONSTANTS
    Clients,   \* who calls ensure_running and purge
    Ops,       \* Ops[c]: which of the two client c calls
    Nodes,     \* the nodes of the cluster
    NoNode,
    Pin,       \* Pin[c]: the node client c was made with, or NoNode
    Target,    \* Target[c]: where it clones to: the node of the call, or that of the
               \* client, or the first of the cluster
    LastId,    \* bound: the cluster has the VM ids FirstId..LastId
    Template,  \* the VM that launches clone
    MaxCalls,  \* bound: MaxCalls[c] is how many calls client c makes
    Faults     \* which kinds of failure happen in this instance

FirstId == 100
VmIds == FirstId..LastId
NoId == 0
Nobody == 0     \* the client of a task whose result nobody waits for any more
FaultKinds == {"call",     \* an API call raises a ProxmoxAPIError
               "missing",  \* the error says that something "does not exist"
               "task",     \* a task fails
               "wait",     \* wait_for_task gives up
               "delete", "stop", "migrate"}  \* what others do to VMs

ASSUME EnsureAssumption ==
    /\ Nobody \notin Clients
    /\ LastId \in Nat /\ Template \in FirstId..(LastId - 1)
    /\ MaxCalls \in [Clients -> Nat]
    /\ Ops \in [Clients -> SUBSET {"ensure", "purge"}]
    /\ Pin \in [Clients -> Nodes \cup {NoNode}] /\ Target \in [Clients -> Nodes]
    /\ Faults \subseteq FaultKinds

VARIABLES
    vms,      \* the cluster's VMs, by id
    jobs,     \* the asynchronous tasks that run: what, on which VM, for whom
    outcome,  \* outcome[c]: how the task that client c waits for has ended
    pc,       \* pc[c]: the API call client c makes next
    handle,   \* handle[c]: the id of the VM its call is about
    listed,   \* listed[c]: what purge has still to delete
    known,    \* known[c]: the node that each of these was on when c saw it
    present,  \* present[c]: what its call can count on: the VMs of that name that c
              \* could see when ensure_running began, then the one that it found;
              \* the VMs that purge listed; less those that are gone
    lost,     \* lost[c]: the VM its call is about was deleted or stopped since the
              \* call found or cloned it
    result,   \* result[c]: how its last call ended
    calls     \* calls[c]: how many calls it has made

tasks == <<jobs, outcome>>
memory == <<handle, listed, known, present, lost>>
vars == <<vms, tasks, pc, memory, result, calls>>

-----------------------------------------------------------------------------

\* by: the client whose launch has still to apply the VM's settings.
VmRecord == [named : BOOLEAN, status : {"absent", "cloning", "stopped", "running"},
             configured : BOOLEAN, by : Clients \cup {Nobody},
             node : Nodes \cup {NoNode}]
Absent == [named |-> FALSE, status |-> "absent", configured |-> FALSE, by |-> Nobody,
           node |-> NoNode]
Job == [kind : {"clone", "start", "delete"}, id : VmIds, for : Clients \cup {Nobody}]
Existing == {id \in VmIds : vms[id].status # "absent"}
Named == {id \in Existing : vms[id].named}
\* The VMs that the lists of client c hold.
Sees(c, id) == id \in Existing /\ (Pin[c] = NoNode \/ vms[id].node = Pin[c])
Visible(c) == {id \in Named : Sees(c, id)}
\* The template is on the node that the client asks to clone it.
Clonable(c) == /\ vms[Template].status \in {"stopped", "running"}
               /\ vms[Template].node = Target[c]

Looking == {"lookup", "info", "start", "wait_start"}
Launching == {"nextid", "clone", "wait_clone", "config", "launch_start",
              "wait_launch"}
Purging == {"list", "delete", "wait_delete"}

TypeOK ==
    /\ vms \in [VmIds -> VmRecord]
    /\ jobs \subseteq Job
    /\ outcome \in [Clients -> {"none", "ok", "failed"}]
    /\ pc \in [Clients -> {"idle"} \cup Looking \cup Launching \cup Purging]
    /\ handle \in [Clients -> VmIds \cup {NoId}]
    /\ listed \in [Clients -> SUBSET VmIds]
    /\ known \in [Clients -> [VmIds -> Nodes \cup {NoNode}]]
    /\ present \in [Clients -> SUBSET VmIds]
    /\ lost \in [Clients -> BOOLEAN]
    /\ result \in [Clients -> {"none", "running", "purged", "raised"}]
    /\ calls \in [Clients -> Nat]

NoneKnown == [id \in VmIds |-> NoNode]

\* The template, and perhaps a VM that already has the name.
Init ==
    /\ \E s \in {"absent", "stopped", "running"}, m, n \in Nodes :
          vms = [id \in VmIds |->
                   IF id = Template
                   THEN [Absent EXCEPT !.status = "stopped", !.node = m]
                   ELSE IF id = LastId /\ s # "absent"
                   THEN [Absent EXCEPT !.named = TRUE, !.status = s, !.configured = TRUE,
                                       !.node = n]
                   ELSE Absent]
    /\ jobs = {}
    /\ outcome = [c \in Clients |-> "none"]
    /\ pc = [c \in Clients |-> "idle"]
    /\ handle = [c \in Clients |-> NoId]
    /\ listed = [c \in Clients |-> {}]
    /\ known = [c \in Clients |-> NoneKnown]
    /\ present = [c \in Clients |-> {}]
    /\ lost = [c \in Clients |-> FALSE]
    /\ result = [c \in Clients |-> "none"]
    /\ calls = [c \in Clients |-> 0]

Goto(c, stage) == pc' = [pc EXCEPT ![c] = stage] /\ UNCHANGED <<result, calls>>
End(c, how) ==
    /\ pc' = [pc EXCEPT ![c] = "idle"]
    /\ result' = [result EXCEPT ![c] = how]
    /\ UNCHANGED calls

Submit(c, kind, id) ==
    /\ jobs' = jobs \cup {[kind |-> kind, id |-> id, for |-> c]}
    /\ outcome' = [outcome EXCEPT ![c] = "none"]
\* The client no longer waits for a task.
Leave(c) ==
    /\ jobs' = {IF j.for = c THEN [j EXCEPT !.for = Nobody] ELSE j : j \in jobs}
    /\ outcome' = [outcome EXCEPT ![c] = "none"]

\* The cluster answers calls about the VM through the node that c knows.
Reaches(c, id) == id \in Existing /\ vms[id].node = known[c][id]

Begin(c, op, stage) ==
    /\ pc[c] = "idle" /\ op \in Ops[c] /\ calls[c] < MaxCalls[c]
    /\ pc' = [pc EXCEPT ![c] = stage]
    /\ result' = [result EXCEPT ![c] = "none"]
    /\ calls' = [calls EXCEPT ![c] = @ + 1]
    /\ handle' = [handle EXCEPT ![c] = NoId]
    /\ listed' = [listed EXCEPT ![c] = {}]
    /\ known' = [known EXCEPT ![c] = NoneKnown]
    /\ lost' = [lost EXCEPT ![c] = FALSE]
    /\ UNCHANGED <<vms, tasks>>

-----------------------------------------------------------------------------
(* ensure_running *)

Ensure(c) ==
    /\ Begin(c, "ensure", "lookup")
    /\ present' = [present EXCEPT ![c] = Visible(c)]

Found(c, id) ==
    /\ pc[c] = "lookup"
    /\ handle' = [handle EXCEPT ![c] = id]
    /\ present' = [present EXCEPT ![c] = {id}]
    /\ known' = [known EXCEPT ![c] = [NoneKnown EXCEPT ![id] = vms[id].node]]
    /\ Goto(c, "info")

\* Mutant of Lookup: the first VM of the list is taken, whatever its name
LookupFirst(c) ==
    /\ pc[c] = "lookup"
    /\ \/ \E id \in Existing : Sees(c, id) /\ Found(c, id)
       \/ Visible(c) = {} /\ Goto(c, "nextid") /\ UNCHANGED <<handle, known, present>>
    /\ UNCHANGED <<vms, tasks, listed, lost>>

Lookup(c) ==
    /\ pc[c] = "lookup"
    /\ \/ \E id \in Visible(c) : Found(c, id)
       \/ Visible(c) = {} /\ Goto(c, "nextid") /\ UNCHANGED <<handle, known, present>>
    /\ UNCHANGED <<vms, tasks, listed, lost>>

\* Mutant of Info: only a running VM is left alone, a cloning one is cloned again
InfoCloning(c) ==
    /\ pc[c] = "info"
    /\ CASE vms[handle[c]].status = "cloning" -> Goto(c, "nextid")
         [] vms[handle[c]].status = "running" -> End(c, "running")
         [] OTHER -> Goto(c, "start")
    /\ UNCHANGED <<vms, tasks, memory>>

Info(c) ==
    /\ pc[c] = "info" /\ Reaches(c, handle[c])
    /\ IF vms[handle[c]].status = "running" THEN End(c, "running")
                                            ELSE Goto(c, "start")
    /\ UNCHANGED <<vms, tasks, memory>>

\* POST status/start, of ensure_running itself or of the launch it has called.
Start(c) ==
    /\ pc[c] \in {"start", "launch_start"} /\ Reaches(c, handle[c])
    /\ vms[handle[c]].status # "cloning"   \* a VM that is being cloned is locked
    /\ Submit(c, "start", handle[c])
    /\ Goto(c, IF pc[c] = "start" THEN "wait_start" ELSE "wait_launch")
    /\ UNCHANGED <<vms, memory>>

\* Mutant of Started: start does not wait for its task
StartedAtOnce(c) ==
    /\ pc[c] \in {"wait_start", "wait_launch"}
    /\ End(c, "running") /\ Leave(c)
    /\ UNCHANGED <<vms, memory>>

Started(c) ==
    /\ pc[c] \in {"wait_start", "wait_launch"} /\ outcome[c] = "ok"
    /\ End(c, "running") /\ Leave(c)
    /\ UNCHANGED <<vms, memory>>

\* VmNotFoundError before the launch: ensure_running launches the VM, which is gone.
Gone(c) ==
    /\ pc[c] \in {"info", "start"} /\ handle[c] \notin Existing
    /\ Goto(c, "nextid")
    /\ UNCHANGED <<vms, tasks, memory>>

\* Or the VM is there: it has moved to another node, or the text of another error
\* says that something "does not exist", of which _translate_exception makes the
\* same VmNotFoundError.  The call has been told that there is none.
TakenForGone(c) ==
    /\ \/ /\ pc[c] \in {"info", "start"}
          /\ handle[c] \in Existing /\ ~Reaches(c, handle[c])
       \/ "missing" \in Faults /\ pc[c] \in Looking
    /\ present' = [present EXCEPT ![c] = {}]
    /\ Goto(c, "nextid") /\ Leave(c)
    /\ UNCHANGED <<vms, handle, listed, known, lost>>

-----------------------------------------------------------------------------
(* launch, as LaunchMany has it in full *)

\* The lowest free id, which the cluster answers, or, when that call raises, the one
\* above the highest.  Bound: as long as that is in VmIds.
NextId(c) ==
    /\ pc[c] = "nextid"
    /\ \E id \in VmIds \ Existing :
          /\ \/ \A other \in VmIds \ Existing : id <= other
             \/ /\ "call" \in Faults
                /\ \A other \in Existing : other < id
                /\ id = FirstId \/ id - 1 \in Existing
          /\ handle' = [handle EXCEPT ![c] = id]
    /\ Goto(c, "clone")
    /\ UNCHANGED <<vms, tasks, listed, known, present, lost>>

Clone(c) ==
    /\ pc[c] = "clone" /\ Clonable(c) /\ handle[c] \notin Existing
    /\ vms' = [vms EXCEPT ![handle[c]] =
                 [named |-> TRUE, status |-> "cloning", configured |-> FALSE, by |-> c,
                  node |-> Target[c]]]
    /\ lost' = [lost EXCEPT ![c] = FALSE]
    /\ known' = [known EXCEPT ![c] = [NoneKnown EXCEPT ![handle[c]] = Target[c]]]
    /\ Submit(c, "clone", handle[c])
    /\ Goto(c, "wait_clone")
    /\ UNCHANGED <<handle, listed, present>>

\* Mutant of Cloned: the settings are left to the next call
ClonedUnconfigured(c) ==
    /\ pc[c] = "wait_clone" /\ outcome[c] = "ok"
    /\ Goto(c, "launch_start") /\ Leave(c)
    /\ UNCHANGED <<vms, memory>>

Cloned(c) ==
    /\ pc[c] = "wait_clone" /\ outcome[c] = "ok"
    /\ Goto(c, "config") /\ Leave(c)
    /\ UNCHANGED <<vms, memory>>

\* The PUTs of hardware, disk and cloud-init settings.
Configure(c) ==
    /\ pc[c] = "config" /\ Reaches(c, handle[c])
    /\ vms' = [vms EXCEPT ![handle[c]].configured = TRUE,
                              ![handle[c]].by = Nobody]
    /\ Goto(c, "launch_start")
    /\ UNCHANGED <<tasks, memory>>

-----------------------------------------------------------------------------
(* purge *)

Purge(c) == Begin(c, "purge", "list") /\ present' = [present EXCEPT ![c] = {}]

List(c) ==
    /\ pc[c] = "list"
    /\ LET all == {id \in Existing : Sees(c, id)}
       IN /\ listed' = [listed EXCEPT ![c] = all]
          /\ present' = [present EXCEPT ![c] = all]
          /\ known' = [known EXCEPT ![c] =
                          [id \in VmIds |-> IF id \in all THEN vms[id].node ELSE NoNode]]
    /\ Goto(c, "delete")
    /\ UNCHANGED <<vms, tasks, handle, lost>>

\* DELETE of the next listed VM; the cluster may refuse that of a running one.
DeleteNext(c) ==
    /\ pc[c] = "delete"
    /\ \E id \in listed[c] :
          /\ Reaches(c, id) /\ vms[id].status # "cloning"
          /\ handle' = [handle EXCEPT ![c] = id]
          /\ listed' = [listed EXCEPT ![c] = @ \ {id}]
          /\ Submit(c, "delete", id)
    /\ Goto(c, "wait_delete")
    /\ UNCHANGED <<vms, known, present, lost>>

\* Mutant of Deleted: purge does not look at how the delete task ended
DeletedOrNot(c) ==
    /\ pc[c] = "wait_delete" /\ outcome[c] \in {"ok", "failed"}
    /\ Goto(c, "delete") /\ Leave(c)
    /\ UNCHANGED <<vms, memory>>

Deleted(c) ==
    /\ pc[c] = "wait_delete" /\ outcome[c] = "ok"
    /\ Goto(c, "delete") /\ Leave(c)
    /\ UNCHANGED <<vms, memory>>

Purged(c) ==
    /\ pc[c] = "delete" /\ listed[c] = {}
    /\ End(c, "purged")
    /\ UNCHANGED <<vms, tasks, memory>>

-----------------------------------------------------------------------------
(* Failures *)

\* The cluster cannot do what the call asks for.
Refused(c) ==
    \/ pc[c] = "nextid" /\ VmIds = Existing
    \/ pc[c] = "clone" /\ (~Clonable(c) \/ handle[c] \in Existing)
    \/ pc[c] \in {"config", "launch_start"} /\ ~Reaches(c, handle[c])
    \/ pc[c] \in {"start", "launch_start"} /\ vms[handle[c]].status = "cloning"
    \/ pc[c] = "delete" /\ \E id \in listed[c] :
          ~Reaches(c, id) \/ vms[id].status \in {"cloning", "running"}

\* A call or a wait of the client raises, and so does what it is part of.  A
\* launch that has cloned drops the settings it has not applied.
Raises(c) ==
    /\ pc[c] # "idle"
    /\ \/ Refused(c) \/ "call" \in Faults
       \/ /\ pc[c] \in {"wait_start", "wait_launch", "wait_clone", "wait_delete"}
          /\ outcome[c] = "failed" \/ "wait" \in Faults
    /\ vms' = [id \in VmIds |-> IF vms[id].by = c THEN [vms[id] EXCEPT !.by = Nobody]
                                                ELSE vms[id]]
    /\ End(c, "raised") /\ Leave(c)
    /\ handle' = [handle EXCEPT ![c] = NoId]
    /\ listed' = [listed EXCEPT ![c] = {}]
    /\ known' = [known EXCEPT ![c] = NoneKnown]
    /\ present' = [present EXCEPT ![c] = {}]
    /\ lost' = [lost EXCEPT ![c] = FALSE]

ClientStep(c) ==
    \/ Ensure(c) \/ Lookup(c) \/ Info(c) \/ Start(c) \/ Started(c)
    \/ Gone(c) \/ TakenForGone(c)
    \/ NextId(c) \/ Clone(c) \/ Cloned(c) \/ Configure(c)
    \/ Purge(c) \/ List(c) \/ DeleteNext(c) \/ Deleted(c) \/ Purged(c)
    \/ Raises(c)

-----------------------------------------------------------------------------
(* The cluster *)

Lose(id) == lost' = [c \in Clients |-> lost[c] \/ handle[c] = id]
Remove(id) ==
    /\ vms' = [vms EXCEPT ![id] = Absent]
    /\ present' = [c \in Clients |-> present[c] \ {id}]
    /\ Lose(id)

JobEnds(j, how) ==
    /\ jobs' = jobs \ {j}
    /\ outcome' = IF j.for = Nobody THEN outcome
                  ELSE [outcome EXCEPT ![j.for] = how]
    /\ UNCHANGED <<pc, handle, listed, known, result, calls>>

\* Starting a VM that runs already succeeds or fails.
JobDone(j) ==
    /\ \/ /\ j.kind = "clone"
          /\ vms' = [vms EXCEPT ![j.id].status = "stopped"]
          /\ UNCHANGED <<present, lost>>
       \/ /\ j.kind = "start" /\ vms[j.id].status \in {"stopped", "running"}
          /\ vms' = [vms EXCEPT ![j.id].status = "running"]
          /\ UNCHANGED <<present, lost>>
       \/ /\ j.kind = "delete" /\ vms[j.id].status \in {"stopped", "running"}
          /\ Remove(j.id)
    /\ JobEnds(j, "ok")

\* A clone that fails leaves nothing; a start or a delete fails also because of
\* what has become of the VM since the task was submitted.
JobFails(j) ==
    /\ \/ "task" \in Faults
       \/ j.kind = "start" /\ vms[j.id].status # "stopped"
       \/ j.kind = "delete" /\ vms[j.id].status \in {"absent", "cloning"}
    /\ IF j.kind = "clone" THEN Remove(j.id) ELSE UNCHANGED <<vms, present, lost>>
    /\ JobEnds(j, "failed")

\* A client that is about to look for the VM on the node that it leaves cannot count
\* on it any more.
Migrate(id, n) ==
    /\ vms[id].node # n /\ \A j \in jobs : j.id # id   \* a task locks the VM
    /\ vms' = [vms EXCEPT ![id].node = n]
    /\ present' = [c \in Clients |-> IF pc[c] = "lookup" /\ Pin[c] = vms[id].node
                                      THEN present[c] \ {id} ELSE present[c]]
    /\ UNCHANGED lost

\* Others of the cluster delete a VM, stop it, or move it to another node.
Outsider ==
    \E id \in Existing :
        /\ vms[id].status # "cloning"
        /\ \/ "delete" \in Faults /\ Remove(id)
           \/ /\ "stop" \in Faults /\ vms[id].status = "running"
              /\ vms' = [vms EXCEPT ![id].status = "stopped"]
              /\ Lose(id) /\ UNCHANGED present
           \/ "migrate" \in Faults /\ \E n \in Nodes : Migrate(id, n)
        /\ UNCHANGED <<tasks, pc, handle, listed, known, result, calls>>

Next ==
    \/ \E c \in Clients : ClientStep(c)
    \/ \E j \in jobs : JobDone(j) \/ JobFails(j)
    \/ Outsider
Spec == Init /\ [][Next]_vars

-----------------------------------------------------------------------------
(* Properties *)

\* "Returns the running VM" (client.py:288): the VM a call returns has the name
\* and runs, whoever started or cloned it, unless it was deleted or stopped since the
\* call found or cloned it.
ReturnedRunning ==
    \A c \in Clients : result[c] = "running" /\ ~lost[c] =>
        vms[handle[c]].named /\ vms[handle[c]].status = "running"

\* "Clones the VM from template_id when it is missing" (client.py:287): a call
\* clones only if it could not see a VM of that name from when it began to when it
\* looked, if the VM it found is gone, or if an error told it so.  So a repeated call
\* is idempotent, and a VM deleted under a call is made again.  A client that was made
\* with a node cannot see the VMs of the others (client.py:354-355).
ClonesOnlyWhenMissing ==
    \A c \in Clients : pc[c] \in Launching => present[c] = {}

\* A VM lacks the settings of its launch only while that launch has still to apply
\* them, or when it has raised: no launch returns and leaves them to somebody else,
\* though other clients may start the VM meanwhile (client.py:201-215, 290-308).
SettingsAccounted ==
    \A id \in VmIds : vms[id].by # Nobody =>
        LET c == vms[id].by IN pc[c] \in {"wait_clone", "config"} /\ handle[c] = id

\* "Delete all VMs" (client.py:341): when purge returns, none of the VMs it listed
\* is left, running ones neither, though others add and delete VMs meanwhile.  (A
\* test says otherwise of the running ones, tests/unit/test_client.py:147-153.)
PurgedAll == \A c \in Clients : result[c] = "purged" => present[c] = {}

-----------------------------------------------------------------------------
(* The inductive invariant that EnsureRunning_proofs rests on *)

\* The client that waits for a task is where it has submitted it.
Waits(kind) == CASE kind = "clone" -> {"wait_clone"}
                 [] kind = "start" -> {"wait_start", "wait_launch"}
                 [] kind = "delete" -> {"wait_delete"}
JobOK(j) ==
    /\ j.kind = "clone" => vms[j.id].status = "cloning"
    /\ j.for # Nobody => /\ pc[j.for] \in Waits(j.kind)
                         /\ j.id = handle[j.for]
                         /\ outcome[j.for] = "none"
OneClone == \A j, k \in jobs :
    j.kind = "clone" /\ k.kind = "clone" /\ j.id = k.id => j = k

\* What a client can still rely on at the stage its call has reached.
Holding == {"info", "start", "wait_start", "wait_clone", "config", "launch_start",
            "wait_launch"}
ClientOK(c) ==
    /\ result[c] # "none" => pc[c] = "idle"
    /\ pc[c] \in Holding \cup {"clone"} \/ result[c] = "running"
         => handle[c] \in VmIds
    /\ pc[c] \in Holding /\ ~lost[c] => handle[c] \in Named
    /\ pc[c] \in {"wait_start", "wait_launch"} /\ outcome[c] = "ok" /\ ~lost[c]
         => vms[handle[c]].status = "running"
    /\ pc[c] = "lookup" => present[c] \subseteq Visible(c)
    /\ pc[c] \in {"info", "start", "wait_start"}
         => present[c] \subseteq {handle[c]} \cap Existing
    /\ pc[c] = "delete" => present[c] \subseteq listed[c]
    /\ pc[c] = "wait_delete"
         => present[c] \subseteq listed[c] \cup
               (IF outcome[c] = "ok" THEN {} ELSE {handle[c]})

EnsureInv ==
    /\ TypeOK
    /\ \A j \in jobs : JobOK(j)
    /\ OneClone
    /\ \A c \in Clients : ClientOK(c)
    /\ ReturnedRunning /\ ClonesOnlyWhenMissing /\ SettingsAccounted /\ PurgedAll

-----------------------------------------------------------------------------
(* What the documentation promises *)

\* "Must be called while the VM is stopped" (vm.py:323): launch configures the VM
\* before anything starts it.
ConfiguredWhileStopped ==
    [][\A id \in VmIds :
          vms'[id].configured /\ ~vms[id].configured
             => vms[id].status = "stopped"]_vars
=============================================================================
