------------------------------ MODULE LaunchMany ------------------------------
(***************************************************************************)
(* ProxmoxClient.launch_many (client.py): a pool of worker threads clones   *)
(* and configures one VM per config, while the calling thread collects the  *)
(* results, cancels what has not started after the first error, and deletes *)
(* the VMs it has collected.  Each launch is ProxmoxClient.launch, one      *)
(* action per HTTP call; the cluster runs the asynchronous tasks; another   *)
(* client creates and removes VMs of its own meanwhile.                     *)
(***************************************************************************)
EXTENDS Integers, FiniteSets

CONSTANTS
    NJobs,          \* number of configs given to launch_many
    MaxWorkers,     \* threads of the launch pool
    LastId,         \* bound: the cluster has the VM ids FirstId..LastId
    Wants,          \* Wants[j]: the optional parts of config j
    Faults,         \* which kinds of failure happen in this instance
    ForeignIds,     \* ids at which another client creates and removes VMs
    DeleteRunning   \* TRUE iff the cluster accepts DELETE of a running VM

FirstId == 100
Jobs == 1..NJobs
NoJob == 0
Foreign == 0        \* the owner of a VM that none of the jobs cloned
VmIds == FirstId..LastId
NoId == 0
Settings == {"hw", "disk", "ci", "start"}
FaultKinds == {"nextid", "fallback", "drive", "clone", "build", "task",
               "wait", "delete", "interrupt"}

ASSUME SizeAssumption ==
    /\ NJobs \in Nat \ {0}
    /\ MaxWorkers \in Nat \ {0}
    /\ LastId \in Nat
    /\ LastId > FirstId
ASSUME ConfigAssumption ==
    /\ Wants \in [Jobs -> SUBSET Settings]
    /\ Faults \subseteq FaultKinds
    /\ ForeignIds \subseteq VmIds \ {FirstId}
    /\ DeleteRunning \in BOOLEAN

VARIABLES
    vms,         \* the cluster's VMs, by id
    task,        \* task[j]: the last asynchronous task job j submitted
    pc,          \* pc[j]: where job j is, first in launch, later in delete
    vmid,        \* vmid[j]: new_vmid of launch
    todo,        \* todo[j]: the optional parts launch has still to apply
    main,        \* where the thread that called launch_many is
    seen,        \* futures as_completed has yielded
    created,     \* the list "created"
    firstError,  \* the job whose exception is first_error, or NoJob
    cursor,      \* the next future the cancelling loop visits
    ticket       \* ticket[j]: when future j was handed to as_completed

cluster == <<vms, task>>
caller == <<main, seen, created, firstError, cursor>>
vars == <<vms, task, pc, vmid, todo, main, seen, created, firstError, cursor,
          ticket>>

-----------------------------------------------------------------------------
(* Stages *)

InQueue == {"queued", "cancelled"}
Launching == {"nextid", "drive", "clone", "wait_clone", "build", "wait_start"}
\* A config that launch_many never submits, as it was interrupted, has nothing to do.
Settled == {"done", "failed", "notified", "unsubmitted"}
Deleting == {"delete", "wait_delete"}
Finished == {"deleted", "kept"}
Stages == InQueue \cup Launching \cup Settled \cup Deleting \cup Finished
Interrupted == {"interrupted", "aborted", "abandoned"}

Free == {id \in VmIds : vms[id].status = "absent"}
Existing == VmIds \ Free
Absent == [owner |-> Foreign, status |-> "absent", has |-> {}]

VmRecord == [owner : Jobs \cup {Foreign},
             status : {"absent", "cloning", "stopped", "running"},
             has : SUBSET Settings]

\* Mutant of Rank: cloud-init is configured after the start
RankStartFirst == [hw |-> 1, disk |-> 2, ci |-> 4, start |-> 3]

Rank == [hw |-> 1, disk |-> 2, ci |-> 3, start |-> 4]
\* The optional parts in the order of the statements of launch.
NextPart(j, s) == s \in todo[j] /\ \A t \in todo[j] : Rank[s] <= Rank[t]

Init ==
    /\ vms = [id \in VmIds |->
                IF id = FirstId   \* the template every config is cloned from
                THEN [owner |-> Foreign, status |-> "stopped", has |-> {}]
                ELSE Absent]
    /\ task = [j \in Jobs |-> "none"]
    /\ pc = [j \in Jobs |-> "queued"]
    /\ vmid = [j \in Jobs |-> NoId]
    /\ todo = Wants
    /\ main = "submit"
    /\ seen = {}
    /\ created = {}
    /\ firstError = NoJob
    /\ cursor = 1
    /\ ticket = [j \in Jobs |-> 0]

-----------------------------------------------------------------------------
(* The pool: a worker thread takes work items in submission order *)

AtHead(j) ==
    /\ \A k \in Jobs : k < j => pc[k] \notin InQueue
    /\ Cardinality({k \in Jobs : pc[k] \in Launching}) < MaxWorkers

\* Future j is finished.  as_completed yields what had settled when it was called
\* first, in no order (ticket 0), then the others in the order they settle.
Settle(j, stage) ==
    /\ pc' = [pc EXCEPT ![j] = stage]
    /\ ticket' = [ticket EXCEPT ![j] =
          IF main \in {"submit"} \cup Interrupted
          THEN 0 ELSE 1 + Cardinality({k \in Jobs : pc[k] \in Settled})]

Pick(j) ==
    /\ pc[j] = "queued" /\ AtHead(j)
    /\ pc' = [pc EXCEPT ![j] = "nextid"]
    /\ UNCHANGED <<cluster, vmid, todo, caller, ticket>>

\* A cancelled future is reported to as_completed only when a worker gets to it.
SkipCancelled(j) ==
    /\ pc[j] = "cancelled" /\ AtHead(j)
    /\ Settle(j, "notified")
    /\ UNCHANGED <<cluster, vmid, todo, caller>>

-----------------------------------------------------------------------------
(* One launch, call by call *)

LowestFree(id) == id \in Free /\ \A f \in Free : id <= f
AboveExisting(id) == id - 1 \in Existing /\ \A e \in Existing : e < id

\* GET cluster/nextid, or the scan that replaces it when that call raises.
NextId(j, id) ==
    /\ pc[j] = "nextid"
    /\ \/ LowestFree(id)
       \/ "nextid" \in Faults /\ AboveExisting(id)
    /\ vmid' = [vmid EXCEPT ![j] = id]
    /\ pc' = [pc EXCEPT ![j] = IF "ci" \in todo[j] THEN "drive" ELSE "clone"]
    /\ UNCHANGED <<cluster, todo, caller, ticket>>

CheckDrive(j) ==
    /\ pc[j] = "drive"
    /\ pc' = [pc EXCEPT ![j] = "clone"]
    /\ UNCHANGED <<cluster, vmid, todo, caller, ticket>>

CloneAccepted(j) ==
    /\ pc[j] = "clone" /\ vmid[j] \in Free
    /\ vms' = [vms EXCEPT ![vmid[j]] =
                 [owner |-> j, status |-> "cloning", has |-> {}]]
    /\ task' = [task EXCEPT ![j] = "clone"]
    /\ pc' = [pc EXCEPT ![j] = "wait_clone"]
    /\ UNCHANGED <<vmid, todo, caller, ticket>>

\* The id was free when nextid answered and is taken by now.
CloneRefused(j) ==
    /\ pc[j] = "clone" /\ vmid[j] \notin Free
    /\ Settle(j, "failed")
    /\ UNCHANGED <<cluster, vmid, todo, caller>>

\* Mutant of WaitOk: the task's exit status is not looked at
WaitOkIgnoringStatus(j) ==
    /\ pc[j] \in {"wait_clone", "wait_start"} /\ task[j] \in {"ok", "failed"}
    /\ pc' = [pc EXCEPT ![j] = "build"]
    /\ UNCHANGED <<cluster, vmid, todo, caller, ticket>>

WaitOk(j) ==
    /\ pc[j] \in {"wait_clone", "wait_start"} /\ task[j] = "ok"
    /\ pc' = [pc EXCEPT ![j] = "build"]
    /\ UNCHANGED <<cluster, vmid, todo, caller, ticket>>

\* PUT config, PUT resize or PUT cloud-init: synchronous calls.
Apply(j, s) ==
    /\ pc[j] = "build" /\ NextPart(j, s) /\ s # "start"
    /\ vms' = [vms EXCEPT ![vmid[j]].has = @ \cup {s}]
    /\ todo' = [todo EXCEPT ![j] = @ \ {s}]
    /\ UNCHANGED <<task, pc, vmid, caller, ticket>>

\* Mutant of Start: start does not wait for its task
StartWithoutWait(j) ==
    /\ pc[j] = "build" /\ NextPart(j, "start")
    /\ task' = [task EXCEPT ![j] = "start"]
    /\ todo' = [todo EXCEPT ![j] = @ \ {"start"}]
    /\ UNCHANGED <<vms, pc, vmid, caller, ticket>>

Start(j) ==
    /\ pc[j] = "build" /\ NextPart(j, "start")
    /\ task' = [task EXCEPT ![j] = "start"]
    /\ todo' = [todo EXCEPT ![j] = @ \ {"start"}]
    /\ pc' = [pc EXCEPT ![j] = "wait_start"]
    /\ UNCHANGED <<vms, vmid, caller, ticket>>

Return(j) ==
    /\ pc[j] = "build" /\ todo[j] = {}
    /\ Settle(j, "done")
    /\ UNCHANGED <<cluster, vmid, todo, caller>>

\* A call raises before it changes anything, or the template has no drive.
CallFails(j) ==
    /\ \/ pc[j] = "nextid" /\ {"nextid", "fallback"} \subseteq Faults
       \/ pc[j] = "drive" /\ "drive" \in Faults
       \/ pc[j] = "clone" /\ "clone" \in Faults
       \/ pc[j] = "build" /\ todo[j] # {} /\ "build" \in Faults
    /\ Settle(j, "failed")
    /\ UNCHANGED <<cluster, vmid, todo, caller>>

\* wait_for_task raises: the task failed, a poll failed, or the deadline passed
\* (in the last two cases whatever the task is doing, and without stopping it).
WaitFails(j) ==
    /\ pc[j] \in {"wait_clone", "wait_start"}
    /\ task[j] = "failed" \/ "wait" \in Faults
    /\ Settle(j, "failed")
    /\ UNCHANGED <<cluster, vmid, todo, caller>>

-----------------------------------------------------------------------------
(* Rollback: ProxmoxVM.delete of each VM in "created", all at once *)

DeleteAccepted(j) ==
    /\ pc[j] = "delete"
    /\ vms[vmid[j]].status = "running" => DeleteRunning
    /\ task' = [task EXCEPT ![j] = "delete"]
    /\ pc' = [pc EXCEPT ![j] = "wait_delete"]
    /\ UNCHANGED <<vms, vmid, todo, caller, ticket>>

DeleteRefused(j) ==
    /\ pc[j] = "delete"
    /\ \/ "delete" \in Faults
       \/ vms[vmid[j]].status = "running" /\ ~DeleteRunning
    /\ pc' = [pc EXCEPT ![j] = "kept"]
    /\ UNCHANGED <<cluster, vmid, todo, caller, ticket>>

DeleteReturns(j) ==
    /\ pc[j] = "wait_delete"
    /\ \/ task[j] = "ok" /\ pc' = [pc EXCEPT ![j] = "deleted"]
       \/ /\ task[j] = "failed" \/ "wait" \in Faults
          /\ pc' = [pc EXCEPT ![j] = "kept"]
    /\ UNCHANGED <<cluster, vmid, todo, caller, ticket>>

JobStep(j) ==
    \/ Pick(j) \/ SkipCancelled(j)
    \/ \E id \in VmIds : NextId(j, id)
    \/ CheckDrive(j) \/ CloneAccepted(j) \/ CloneRefused(j)
    \/ WaitOk(j) \/ WaitFails(j)
    \/ \E s \in Settings : Apply(j, s)
    \/ Start(j) \/ Return(j) \/ CallFails(j)
    \/ DeleteAccepted(j) \/ DeleteRefused(j) \/ DeleteReturns(j)

-----------------------------------------------------------------------------
(* The thread that called launch_many *)

\* All futures are submitted; as_completed notes those that have settled already.
Enter ==
    /\ main = "submit" /\ main' = "collect"
    /\ UNCHANGED <<cluster, pc, vmid, todo, seen, created, firstError, cursor,
                   ticket>>

\* Mutant of Uncollected: cancelled futures are not counted
UncollectedUncancelled == {j \in Jobs : pc[j] \in {"done", "failed"} /\ j \notin seen}

Uncollected == {j \in Jobs : pc[j] \in Settled /\ j \notin seen}

\* Mutant of Collect: a later failure replaces first_error
CollectOverwriting(j) ==
    /\ main = "collect" /\ j \in Uncollected
    /\ \A k \in Uncollected : ticket[j] <= ticket[k]
    /\ seen' = seen \cup {j}
    /\ \/ /\ pc[j] # "done"
          /\ firstError' = j
          /\ main' = "cancel" /\ cursor' = 1
          /\ UNCHANGED created
       \/ /\ pc[j] = "done"
          /\ created' = created \cup {j}
          /\ UNCHANGED <<main, firstError, cursor>>
    /\ UNCHANGED <<cluster, pc, vmid, todo, ticket>>

Collect(j) ==
    /\ main = "collect" /\ j \in Uncollected
    /\ \A k \in Uncollected : ticket[j] <= ticket[k]
    /\ seen' = seen \cup {j}
    /\ \/ /\ firstError # NoJob
          /\ UNCHANGED <<main, created, firstError, cursor>>
       \/ /\ firstError = NoJob /\ pc[j] # "done"
          /\ firstError' = j
          /\ main' = "cancel" /\ cursor' = 1
          /\ UNCHANGED created
       \/ /\ firstError = NoJob /\ pc[j] = "done"
          /\ created' = created \cup {j}
          /\ UNCHANGED <<main, firstError, cursor>>
    /\ UNCHANGED <<cluster, pc, vmid, todo, ticket>>

\* One pass of "for pending in futures: pending.cancel()"; a future that has
\* started or settled ignores the request.
Cancel ==
    /\ main = "cancel"
    /\ pc' = [pc EXCEPT ![cursor] = IF @ = "queued" THEN "cancelled" ELSE @]
    /\ \/ cursor < NJobs /\ cursor' = cursor + 1 /\ UNCHANGED main
       \/ cursor = NJobs /\ main' = "collect" /\ UNCHANGED cursor
    /\ UNCHANGED <<cluster, vmid, todo, seen, created, firstError, ticket>>

\* Mutant of LeavePool: every id a launch was given is deleted
LeavePoolDeletingAll ==
    /\ main = "collect" /\ seen = Jobs
    /\ \/ firstError = NoJob /\ main' = "returned" /\ UNCHANGED pc
       \/ /\ firstError # NoJob /\ main' = "rollback"
          /\ pc' = [j \in Jobs |-> IF vmid[j] # NoId THEN "delete" ELSE pc[j]]
    /\ UNCHANGED <<cluster, vmid, todo, seen, created, firstError, cursor, ticket>>

\* Mutant of LeavePool: the rollback does not wait for the pool
LeavePoolAtFirstError ==
    /\ main = "collect" /\ (seen = Jobs \/ firstError # NoJob)
    /\ \/ firstError = NoJob /\ main' = "returned" /\ UNCHANGED pc
       \/ /\ firstError # NoJob /\ main' = "rollback"
          /\ pc' = [j \in Jobs |-> IF j \in created THEN "delete" ELSE pc[j]]
    /\ UNCHANGED <<cluster, vmid, todo, seen, created, firstError, cursor, ticket>>

LeavePool ==
    /\ main = "collect" /\ seen = Jobs
    /\ \/ firstError = NoJob /\ main' = "returned" /\ UNCHANGED pc
       \/ /\ firstError # NoJob /\ main' = "rollback"
          /\ pc' = [j \in Jobs |-> IF j \in created THEN "delete" ELSE pc[j]]
    /\ UNCHANGED <<cluster, vmid, todo, seen, created, firstError, cursor,
                   ticket>>

\* Mutant of RollbackEnd: the deletes are not waited for
RollbackEndUnjoined ==
    /\ main = "rollback"
    /\ main' = "raised"
    /\ UNCHANGED <<cluster, pc, vmid, todo, seen, created, firstError, cursor, ticket>>

RollbackEnd ==
    /\ main = "rollback" /\ \A j \in created : pc[j] \in Finished
    /\ main' = "raised"
    /\ UNCHANGED <<cluster, pc, vmid, todo, seen, created, firstError, cursor,
                   ticket>>

\* A KeyboardInterrupt leaves a "with" block, which waits for every work item of
\* its pool, queued ones included.  In the submitting loop it comes when the first n
\* configs are submitted: no worker has one of the others yet, or ever gets it.
InterruptSubmit ==
    /\ main = "submit" /\ main' = "interrupted"
    /\ \E n \in 0..NJobs :
         /\ \A j \in Jobs : j > n => pc[j] = "queued"
         /\ pc' = [j \in Jobs |-> IF j > n THEN "unsubmitted" ELSE pc[j]]
    /\ UNCHANGED <<cluster, vmid, todo, seen, created, firstError, cursor, ticket>>

\* In the collecting loop or the join nothing is rolled back: the lists are gone with
\* the frame.
InterruptCollect ==
    /\ main \in {"collect", "cancel"} /\ main' = "interrupted"
    /\ seen' = {} /\ created' = {} /\ firstError' = NoJob /\ cursor' = 1
    /\ ticket' = [j \in Jobs |-> 0]
    /\ UNCHANGED <<cluster, pc, vmid, todo>>

\* In the rollback the deletes that are not submitted yet, the last ones of "created",
\* are never made.
InterruptRollback ==
    /\ main = "rollback" /\ main' = "interrupted"
    /\ \E left \in SUBSET {j \in created : pc[j] = "delete"} :
         /\ \A j \in left, k \in created \ left : ticket[k] <= ticket[j]
         /\ pc' = [j \in Jobs |-> IF j \in left THEN "kept" ELSE pc[j]]
    /\ UNCHANGED <<cluster, vmid, todo, seen, created, firstError, cursor, ticket>>

\* A second one ends the wait for the work items, and they go on.
InterruptJoin ==
    /\ main = "interrupted" /\ main' = "abandoned"
    /\ UNCHANGED <<cluster, pc, vmid, todo, seen, created, firstError, cursor, ticket>>

Interrupt ==
    /\ "interrupt" \in Faults
    /\ InterruptSubmit \/ InterruptCollect \/ InterruptRollback \/ InterruptJoin

AbortEnd ==
    /\ main = "interrupted" /\ \A j \in Jobs : pc[j] \in Settled \cup Finished
    /\ main' = "aborted"
    /\ UNCHANGED <<cluster, pc, vmid, todo, seen, created, firstError, cursor,
                   ticket>>

MainStep ==
    \/ Enter \/ (\E j \in Jobs : Collect(j)) \/ Cancel
    \/ LeavePool \/ RollbackEnd \/ AbortEnd

-----------------------------------------------------------------------------
(* The cluster and its other clients *)

CloneEnds(j) ==
    /\ task[j] = "clone"
    /\ task' = [task EXCEPT ![j] = "ok"]
    /\ vms' = [vms EXCEPT ![vmid[j]].status = "stopped"]
    /\ UNCHANGED <<pc, vmid, todo, caller, ticket>>

StartEnds(j) ==
    /\ task[j] = "start"
    /\ task' = [task EXCEPT ![j] = "ok"]
    /\ vms' = [vms EXCEPT ![vmid[j]].status = "running"]
    /\ UNCHANGED <<pc, vmid, todo, caller, ticket>>

DeleteEnds(j) ==
    /\ task[j] = "delete"
    /\ task' = [task EXCEPT ![j] = "ok"]
    /\ vms' = [vms EXCEPT ![vmid[j]] = Absent]
    /\ UNCHANGED <<pc, vmid, todo, caller, ticket>>

\* A failed clone task removes what it had copied; the others change nothing.
TaskFails(j) ==
    /\ "task" \in Faults /\ task[j] \in {"clone", "start", "delete"}
    /\ task' = [task EXCEPT ![j] = "failed"]
    /\ vms' = IF task[j] = "clone" THEN [vms EXCEPT ![vmid[j]] = Absent] ELSE vms
    /\ UNCHANGED <<pc, vmid, todo, caller, ticket>>

TaskStep(j) == CloneEnds(j) \/ StartEnds(j) \/ DeleteEnds(j) \/ TaskFails(j)

ForeignCreate(id) ==
    /\ id \in Free
    /\ vms' = [vms EXCEPT ![id] = [Absent EXCEPT !.status = "stopped"]]
    /\ UNCHANGED <<task, pc, vmid, todo, caller, ticket>>

ForeignDelete(id) ==
    /\ id \notin Free /\ vms[id].owner = Foreign
    /\ vms' = [vms EXCEPT ![id] = Absent]
    /\ UNCHANGED <<task, pc, vmid, todo, caller, ticket>>

ForeignStep == \E id \in ForeignIds : ForeignCreate(id) \/ ForeignDelete(id)

Over == main \in {"returned", "raised", "aborted", "abandoned"}
Stay == Over /\ (\A j \in Jobs : task[j] \in {"none", "ok", "failed"})
             /\ UNCHANGED vars

Next ==
    \/ \E j \in Jobs : JobStep(j) \/ TaskStep(j)
    \/ MainStep \/ Interrupt
    \/ ForeignStep \/ Stay

Spec == Init /\ [][Next]_vars

\* The threads run; nothing is assumed of the cluster or of its other clients.
FairSpec ==
    /\ Spec
    /\ \A j \in Jobs : WF_vars(JobStep(j))
    /\ WF_vars(MainStep)

-----------------------------------------------------------------------------
(* Properties *)

\* Types; what is collected has been yielded; only queued jobs have no id.
TypeOK ==
    /\ vms \in [VmIds -> VmRecord]
    /\ task \in [Jobs -> {"none", "clone", "start", "delete", "ok", "failed"}]
    /\ pc \in [Jobs -> Stages]
    /\ vmid \in [Jobs -> VmIds \cup {NoId}]
    /\ todo \in [Jobs -> SUBSET Settings]
    /\ main \in {"submit", "collect", "cancel", "rollback", "interrupted",
                 "returned", "raised", "aborted", "abandoned"}
    /\ seen \subseteq Jobs
    /\ created \subseteq Jobs
    /\ firstError \in Jobs \cup {NoJob}
    /\ cursor \in Jobs
    /\ ticket \in [Jobs -> Nat]

\* Job j believes that the VM with id vmid[j] is the one it cloned.
Holds(j) ==
    \/ pc[j] \in {"build", "wait_start", "done", "delete"}
    \/ pc[j] = "wait_clone" /\ task[j] # "failed"
    \/ task[j] \in {"clone", "start", "delete"}

\* launch configures, starts and hands out the VM it cloned, and rollback
\* deletes that one: no other client's VM and no other job's, although two
\* jobs may have been told the same id by _next_vmid (client.py:179, 373).
Owns(j) ==
    Holds(j) => /\ vmid[j] \in VmIds
                /\ vms[vmid[j]].owner = j
                /\ vms[vmid[j]].status # "absent"
OwnsItsVm == \A j \in Jobs : Owns(j)

\* The list launch_many returns (client.py:267) has a VM for every config, each
\* with every part its config asks for, and running iff the config says so.
Complete(j) ==
    /\ vms[vmid[j]].has = Wants[j] \ {"start"}
    /\ vms[vmid[j]].status = IF "start" \in Wants[j] THEN "running" ELSE "stopped"
ReturnedComplete ==
    main = "returned" => created = Jobs /\ \A j \in Jobs : Complete(j)

\* No call of launch_many, nor a task one of its calls started, changes a VM
\* that another client owns.
ForeignVms(state) == {id \in VmIds : state[id].owner = Foreign
                                     /\ state[id].status # "absent"}
ForeignUntouched ==
    [][~ForeignStep => \A id \in ForeignVms(vms) : vms'[id] = vms[id]]_vars

\* Hardware, disk and cloud-init settings reach a VM only while it is stopped
\* (vm.py:323: cloud-init is applied at the next boot).
ConfiguredWhileStopped ==
    [][\A id \in VmIds : ~(vms'[id].has \subseteq vms[id].has)
         => vms[id].status = "stopped" /\ vms'[id].status = "stopped"]_vars

\* The error that launch_many raises (client.py:265) is one a launch raised,
\* never the CancelledError of a future that launch_many itself cancelled.
RaisesALaunchError == firstError # NoJob => pc[firstError] = "failed"

\* Rollback begins when no launch is running or can still begin, so no worker
\* clones or configures while another deletes (client.py:242, 258).
RollbackRunsAlone ==
    (\E j \in Jobs : pc[j] \in Deleting)
        => \A k \in Jobs : pc[k] \notin InQueue \cup Launching

\* What the caller may see of the VM of config j, and of the call.
VmOf(j) ==
    IF task[j] = "none" THEN "none"
    ELSE IF vms[vmid[j]].owner # j THEN "gone"
    ELSE IF Complete(j) THEN "ready" ELSE "made"
Outcome == CASE main = "returned" -> "returned"
             [] main \in {"raised", "aborted"} -> "raised"
             [] main = "abandoned" -> "abandoned"
             [] OTHER -> "pending"
B == INSTANCE Batch WITH vm <- [j \in Jobs |-> VmOf(j)], outcome <- Outcome

\* launch_many implements the abstract batch: no config is cloned twice, no VM
\* comes back, a return finds every VM finished and no late task or rollback
\* takes one away after it; after a raise no VM is made any more, unless the call was
\* interrupted a second time while it waited for its threads.
IsBatch == B!Spec

\* Once launch_many has returned or raised, no thread of it issues a call, an
\* interrupt in its loops or in the rollback included (client.py:242-264); only a
\* second interrupt, while it waits for its threads, makes it leave them behind.
NoStragglers == [][Over /\ main # "abandoned" => UNCHANGED <<pc, main>>]_vars

\* launch_many comes back, whatever fails and even if no task ever ends: every
\* wait has a deadline, and the cancelled futures are yielded too.
Termination == <>Over

-----------------------------------------------------------------------------
(* The inductive invariant that LaunchMany_proofs rests on *)

Started(j) == "start" \in Wants[j] \ todo[j]

\* What a job's stage says of its task and of what it has left to do.
JobOK(j) ==
    /\ todo[j] \subseteq Wants[j]
    /\ task[j] \in {"none", "clone"} => todo[j] = Wants[j]
    /\ pc[j] \in InQueue \cup {"notified", "unsubmitted", "nextid", "drive", "clone"}
         => task[j] = "none"
    /\ pc[j] \in {"drive", "clone"} \/ task[j] # "none" => vmid[j] \in VmIds
    /\ pc[j] = "wait_clone" => /\ task[j] \in {"clone", "ok", "failed"}
                               /\ todo[j] = Wants[j]
    /\ pc[j] = "wait_start" => /\ task[j] \in {"start", "ok", "failed"}
                               /\ Started(j)
    /\ pc[j] = "wait_delete" => task[j] \in {"delete", "ok", "failed"}
    /\ pc[j] \in {"build", "done", "delete"} => task[j] = "ok"
    /\ task[j] = "clone" => pc[j] \in {"wait_clone", "failed"}
    /\ task[j] = "start" => pc[j] \in {"wait_start", "failed"} /\ Started(j)
    /\ task[j] = "delete" => pc[j] \in {"wait_delete", "kept"}
    /\ pc[j] = "done" \/ Started(j) => todo[j] = {}

\* What it says of the job's VM: the parts applied are those no longer to do.
VmOK(j) ==
    pc[j] \notin Deleting \cup Finished /\ Holds(j) =>
        /\ vms[vmid[j]].has = Wants[j] \ (todo[j] \cup {"start"})
        /\ vms[vmid[j]].status = IF task[j] = "clone" THEN "cloning"
                                 ELSE IF Started(j) /\ task[j] = "ok"
                                 THEN "running" ELSE "stopped"

\* What the calling thread knows of the jobs.
CallerOK ==
    /\ created \subseteq seen
    /\ \A j \in seen : pc[j] \in Settled \cup Deleting \cup Finished
    /\ \A j \in Jobs : pc[j] \in Deleting \cup Finished => j \in created /\ seen = Jobs
    /\ main \in {"submit", "collect", "cancel", "returned"}
         => \A j \in created : pc[j] = "done"
    /\ firstError = NoJob => created = seen
    /\ RaisesALaunchError
    /\ main \notin Interrupted => \A j \in Jobs :
          /\ pc[j] \in {"cancelled", "notified"} => firstError # NoJob
          /\ pc[j] # "unsubmitted"
    /\ main = "cancel" => firstError # NoJob
    /\ main \in {"rollback", "raised", "returned"} => seen = Jobs
    /\ main = "returned" => firstError = NoJob
    /\ main = "aborted" => \A j \in Jobs : pc[j] \in Settled \cup Finished
    /\ main = "raised" => \A j \in created : pc[j] \in Finished

\* The stage of a launch determines what it owns and what its VM has; nobody
\* owns what is not there.
LaunchInv ==
    /\ TypeOK
    /\ \A id \in Free : vms[id].owner = Foreign
    /\ \A j \in Jobs : JobOK(j) /\ Owns(j) /\ VmOK(j)
    /\ CallerOK

-----------------------------------------------------------------------------
(* Why launch_many comes back: it never waits for itself, and every thread has   *)
(* only so many steps to take                                                   *)

\* The threads with something to do: a worker at the head of the queue, a launch
\* or a delete (whose calls answer or raise and whose waits have a deadline), and
\* the calling thread when what it waits for is there.
JobReady(j) ==
    \/ pc[j] \in InQueue /\ AtHead(j)
    \/ pc[j] \in (Launching \ {"build"}) \cup Deleting
    \/ pc[j] = "build" /\ (todo[j] = {} \/ \E s \in Settings : NextPart(j, s))
MainReady ==
    \/ main \in {"submit", "cancel"}
    \/ main = "collect" /\ seen = Jobs
    \/ main = "collect" /\ \E j \in Uncollected : \A k \in Uncollected : ticket[j] <= ticket[k]
    \/ main = "rollback" /\ \A j \in created : pc[j] \in Finished
    \/ main = "interrupted" /\ \A j \in Jobs : pc[j] \in Settled \cup Finished

\* Until the call is over, some thread of it has something to do: the workers do
\* not wait for the caller, and as_completed, the join of the pool and the join of
\* the deletes wait only for futures that a worker will get to, cancelled ones
\* included (client.py:242-264).
NeverAllWaiting == Over \/ MainReady \/ \E j \in Jobs : JobReady(j)

\* Rollback waits for deletes only.
RollingBack == main = "rollback" => \A j \in created : pc[j] \in Deleting \cup Finished

\* How many steps job j has left, at most.
JobRank(j) ==
    CASE pc[j] = "queued" -> 17
      [] pc[j] = "nextid" -> 16
      [] pc[j] = "drive" -> 15
      [] pc[j] = "clone" -> 14
      [] pc[j] = "wait_clone" -> 13
      [] pc[j] = "wait_start" -> 5 + 2 * Cardinality(todo[j])
      [] pc[j] = "build" -> 4 + 2 * Cardinality(todo[j])
      [] pc[j] = "done" -> 3
      [] pc[j] = "delete" -> 2
      [] pc[j] \in {"wait_delete", "cancelled"} -> 1
      [] OTHER -> 0

\* How many steps the calling thread has left, at most.
MainRank ==
    CASE main = "submit" -> 2 * NJobs + 5
      [] main = "collect" -> 3 + Cardinality(Jobs \ seen)
                             + IF firstError = NoJob THEN NJobs + 1 ELSE 0
      [] main = "cancel" -> 3 + Cardinality(Jobs \ seen) + NJobs + 1 - cursor
      [] main = "rollback" -> 2
      [] main = "interrupted" -> 1
      [] OTHER -> 0

Descends(j) == /\ JobRank(j)' <= JobRank(j)
               /\ JobStep(j) => JobRank(j)' < JobRank(j)

\* Every step of a job leaves it fewer, and no step of anyone gives it more: a
\* launch is never taken up again (client.py:243-255).
JobsDescend == [][\A j \in Jobs : Descends(j)]_vars

CallerDescends == /\ MainRank' <= MainRank
                  /\ MainStep \/ Interrupt => MainRank' < MainRank

\* The same of the calling thread: the cancelling pass is made once
\* (client.py:251-253).
MainDescends == [][CallerDescends]_vars

-----------------------------------------------------------------------------
(* What a failed launch_many leaves in the cluster *)

\* A VM of job j is the one it cloned last; a job that is done deleting has none.
CloneOK(j) ==
    \A id \in VmIds : vms[id].owner = j =>
        /\ id = vmid[j] /\ task[j] # "none"
        /\ pc[j] # "deleted"
        /\ pc[j] = "wait_delete" => task[j] # "ok"

\* When launch_many raises, the VMs of three kinds of launches are left, and of no
\* others: those that failed after their clone was accepted, those that ended well
\* after the first error was seen, and those whose delete did not succeed in time
\* (client.py:246-264).
LeftAccounted ==
    main = "raised" => \A id \in VmIds, j \in Jobs : vms[id].owner = j =>
        \/ pc[j] = "failed" /\ task[j] # "none"
        \/ pc[j] = "done" /\ j \notin created
        \/ pc[j] = "kept"

-----------------------------------------------------------------------------
(* What the documentation promises *)

\* "Launch multiple VMs in parallel. Rolls back all on any failure." (client.py:233):
\* when launch_many raises, none of the VMs it made is left.
RollsBackAll ==
    main = "raised" => \A id \in VmIds : vms[id].owner = Foreign
=============================================================================
