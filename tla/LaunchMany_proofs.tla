-------------------------- MODULE LaunchMany_proofs --------------------------
(***************************************************************************)
(* Theorems about launch_many for any number of configs, workers and ids,   *)
(* any faults and any behaviour of the other clients of the cluster.  All   *)
(* follow from one inductive invariant, LaunchInv.                          *)
(***************************************************************************)
EXTENDS LaunchMany, FiniteSetTheorems, WellFoundedInduction, TLAPS

USE SizeAssumption, ConfigAssumption

jobVars == <<task, pc, vmid, todo>>

\* The number of settled futures, from which Settle draws its ticket.
LEMMA SettledCount ==
    Cardinality({k \in Jobs : pc[k] \in Settled}) \in Nat
<1>1. IsFiniteSet(Jobs)
  BY FS_Interval DEF Jobs
<1> QED BY <1>1, FS_Subset, FS_CardinalityType

LEMMA InitInv == Init => LaunchInv
<1> SUFFICES ASSUME Init PROVE LaunchInv
  OBVIOUS
<1>1. TypeOK
  BY DEF Init, TypeOK, Absent, VmRecord, VmIds, FirstId, Jobs, Stages, InQueue, Foreign,
         NoJob, NoId, Settings
<1>2. ASSUME NEW j \in Jobs PROVE JobOK(j) /\ Owns(j) /\ VmOK(j)
  BY DEF Init, JobOK, Owns, VmOK, Holds, Started, InQueue
<1>3. CallerOK
  BY DEF Init, CallerOK, RaisesALaunchError, Settled,
         Deleting, Finished
<1>4. \A id \in Free : vms[id].owner = Foreign
  BY DEF Init, Free, Absent
<1> QED BY <1>1, <1>2, <1>3, <1>4 DEF LaunchInv

-----------------------------------------------------------------------------
(* Type correctness *)

LEMMA TypeStep == TypeOK /\ [Next]_vars => TypeOK'
<1> SUFFICES ASSUME TypeOK, [Next]_vars PROVE TypeOK'
  OBVIOUS
<1> USE DEF TypeOK, cluster, caller, Stages, Launching, Settled, InQueue,
            Deleting, Finished
<1>1. ASSUME NEW j \in Jobs, JobStep(j) PROVE TypeOK'
  <2>1. CASE Pick(j) \/ CheckDrive(j) \/ WaitOk(j)
    BY <2>1 DEF Pick, CheckDrive, WaitOk
  <2>2. ASSUME NEW st \in Settled, Settle(j, st),
               UNCHANGED <<cluster, vmid, todo, caller>>
        PROVE  TypeOK'
    <3>1. ticket' \in [Jobs -> Nat]
      BY <2>2, SettledCount DEF Settle
    <3> QED BY <2>2, <3>1 DEF Settle
  <2>3. CASE SkipCancelled(j) \/ CloneRefused(j) \/ Return(j) \/ CallFails(j)
             \/ WaitFails(j)
    BY <2>2, <2>3 DEF SkipCancelled, CloneRefused, Return, CallFails, WaitFails
  <2>4. CASE \E id \in VmIds : NextId(j, id)
    BY <2>4 DEF NextId
  <2>5. CASE CloneAccepted(j)
    BY <2>5 DEF CloneAccepted, Free, VmRecord
  <2>6. CASE \E s \in Settings : Apply(j, s)
    <3> PICK s \in Settings : Apply(j, s)
      BY <2>6
    <3>1. \A v \in VmRecord : [v EXCEPT !.has = @ \cup {s}] \in VmRecord
      BY DEF VmRecord
    <3>2. vms' \in [VmIds -> VmRecord]
      BY <3>1 DEF Apply
    <3> QED BY <3>2 DEF Apply
  <2>7. CASE Start(j)
    BY <2>7 DEF Start
  <2>8. CASE DeleteAccepted(j) \/ DeleteRefused(j) \/ DeleteReturns(j)
    BY <2>8 DEF DeleteAccepted, DeleteRefused, DeleteReturns
  <2> QED BY <1>1, <2>1, <2>3, <2>4, <2>5, <2>6, <2>7, <2>8 DEF JobStep
<1>2. ASSUME NEW j \in Jobs, TaskStep(j) PROVE TypeOK'
  <2>a. \A v \in VmRecord : /\ [v EXCEPT !.status = "stopped"] \in VmRecord
                             /\ [v EXCEPT !.status = "running"] \in VmRecord
    BY DEF VmRecord
  <2>b. Absent \in VmRecord
    BY DEF Absent, VmRecord, Foreign
  <2>1. CASE CloneEnds(j)
    BY <2>1, <2>a DEF CloneEnds
  <2>2. CASE StartEnds(j)
    BY <2>2, <2>a DEF StartEnds
  <2>3. CASE DeleteEnds(j)
    BY <2>3, <2>b DEF DeleteEnds
  <2>4. CASE TaskFails(j)
    BY <2>4, <2>b DEF TaskFails
  <2> QED BY <1>2, <2>1, <2>2, <2>3, <2>4 DEF TaskStep
<1>3. CASE MainStep
  <2>1. CASE Enter
    BY <2>1 DEF Enter
  <2>2. CASE \E j \in Jobs : Collect(j)
    <3>1. 1 \in Jobs
      BY DEF Jobs
    <3> QED BY <2>2, <3>1 DEF Collect
  <2>3. CASE Cancel
    BY <2>3 DEF Cancel, Jobs
  <2>4. CASE LeavePool
    BY <2>4 DEF LeavePool
  <2>5. CASE RollbackEnd \/ AbortEnd
    BY <2>5 DEF RollbackEnd, AbortEnd
  <2> QED BY <1>3, <2>1, <2>2, <2>3, <2>4, <2>5 DEF MainStep
<1>4. CASE Interrupt
  <2>1. CASE InterruptCollect
    BY <2>1 DEF InterruptCollect, Jobs
  <2>2. CASE InterruptSubmit \/ InterruptRollback
    <3>1. pc' \in [Jobs -> Stages]
      BY <2>2 DEF InterruptSubmit, InterruptRollback
    <3> QED BY <2>2, <3>1 DEF InterruptSubmit, InterruptRollback
  <2>3. CASE InterruptJoin
    BY <2>3 DEF InterruptJoin
  <2> QED BY <1>4, <2>1, <2>2, <2>3 DEF Interrupt
<1>5. CASE ForeignStep
  BY <1>5 DEF ForeignStep, ForeignCreate, ForeignDelete, Absent, Foreign, VmRecord
<1>6. CASE UNCHANGED vars
  BY <1>6 DEF vars
<1> QED BY <1>1, <1>2, <1>3, <1>4, <1>5, <1>6 DEF Next, Stay

\* An interrupt takes what is not submitted yet out of its pool, and no more.
LEMMA InterruptEffect ==
    ASSUME TypeOK, Interrupt
    PROVE  /\ UNCHANGED <<vms, task, vmid, todo>>
           /\ \/ main = "interrupted" /\ main' = "abandoned"
              \/ /\ main \in {"submit", "collect", "cancel", "rollback"}
                 /\ main' = "interrupted"
           /\ \A k \in Jobs :
                \/ pc'[k] = pc[k]
                \/ main = "submit" /\ pc[k] = "queued" /\ pc'[k] = "unsubmitted"
                \/ main = "rollback" /\ pc[k] = "delete" /\ pc'[k] = "kept"
<1> USE DEF TypeOK, cluster
<1>1. CASE InterruptSubmit
  BY <1>1 DEF InterruptSubmit
<1>2. CASE InterruptCollect
  BY <1>2 DEF InterruptCollect
<1>3. CASE InterruptRollback
  BY <1>3 DEF InterruptRollback
<1>4. CASE InterruptJoin
  BY <1>4 DEF InterruptJoin
<1> QED BY <1>1, <1>2, <1>3, <1>4 DEF Interrupt

-----------------------------------------------------------------------------
(* What a job's stage says of its task and its VM *)

JobInv(j) == JobOK(j) /\ Owns(j) /\ VmOK(j)

\* A step of anyone but job k leaves what k relies on alone, if it changes only
\* VMs that k does not own and ids without a VM.
LEMMA Frame ==
    ASSUME TypeOK, NEW k \in Jobs, JobInv(k),
           pc'[k] = pc[k], task'[k] = task[k], vmid'[k] = vmid[k],
           todo'[k] = todo[k],
           \A id \in VmIds : \/ vms'[id] = vms[id]
                             \/ vms[id].owner # k
                             \/ vms[id].status = "absent"
    PROVE  JobInv(k)'
<1>1. JobOK(k)'
  BY DEF JobInv, JobOK, Started
<1>2. Holds(k)' = Holds(k)
  BY DEF Holds
<1>3. Holds(k) => vms'[vmid[k]] = vms[vmid[k]]
  BY DEF JobInv, Owns
<1>4. Owns(k)'
  BY <1>2, <1>3 DEF JobInv, Owns
<1>5. VmOK(k)'
  BY <1>2, <1>3 DEF JobInv, VmOK, Started
<1> QED BY <1>1, <1>4, <1>5 DEF JobInv

\* A stage change of job j that touches no VM: the others are undisturbed.
LEMMA OthersKeep ==
    ASSUME TypeOK, \A k \in Jobs : JobInv(k), NEW j \in Jobs,
           \A k \in Jobs \ {j} : /\ pc'[k] = pc[k] /\ task'[k] = task[k]
                                  /\ vmid'[k] = vmid[k] /\ todo'[k] = todo[k],
           \A id \in VmIds : \/ vms'[id] = vms[id]
                             \/ vms[id].owner = j
                             \/ vms[id].status = "absent",
           JobInv(j)'
    PROVE  \A k \in Jobs : JobInv(k)'
<1> SUFFICES ASSUME NEW k \in Jobs, k # j PROVE JobInv(k)'
  OBVIOUS
<1>1. \A id \in VmIds : \/ vms'[id] = vms[id]
                        \/ vms[id].owner # k
                        \/ vms[id].status = "absent"
  OBVIOUS
<1> QED BY <1>1, Frame

\* Every step of a job keeps its own part of the invariant.
LEMMA JobStepInv ==
    ASSUME TypeOK, \A k \in Jobs : JobInv(k), NEW j \in Jobs, JobStep(j)
    PROVE  \A k \in Jobs : JobInv(k)'
<1> USE DEF TypeOK, cluster, Deleting, Finished
<1>a. JobInv(j)
  OBVIOUS
<1>1. CASE Pick(j)
  <2>1. JobInv(j)'
    BY <1>1, <1>a DEF Pick, JobInv, JobOK, Owns, VmOK, Holds, Started, InQueue
  <2> QED BY <1>1, <2>1, OthersKeep DEF Pick
<1>2. CASE SkipCancelled(j)
  <2>1. JobInv(j)'
    BY <1>2, <1>a DEF SkipCancelled, Settle, JobInv, JobOK, Owns, VmOK, Holds,
                      Started, InQueue
  <2> QED BY <1>2, <2>1, OthersKeep DEF SkipCancelled, Settle
<1>3. ASSUME NEW id \in VmIds, NextId(j, id) PROVE \A k \in Jobs : JobInv(k)'
  <2>1. JobInv(j)'
    BY <1>3, <1>a DEF NextId, JobInv, JobOK, Owns, VmOK, Holds, Started, InQueue
  <2> QED BY <1>3, <2>1, OthersKeep DEF NextId
<1>4. CASE CheckDrive(j)
  <2>1. JobInv(j)'
    BY <1>4, <1>a DEF CheckDrive, JobInv, JobOK, Owns, VmOK, Holds, Started,
                      InQueue
  <2> QED BY <1>4, <2>1, OthersKeep DEF CheckDrive
<1>5. CASE CloneAccepted(j)
  <2>1. vmid[j] \in VmIds /\ vms[vmid[j]].status = "absent"
    BY <1>5 DEF CloneAccepted, Free
  <2>2. vms'[vmid[j]] = [owner |-> j, status |-> "cloning", has |-> {}]
    BY <1>5, <2>1 DEF CloneAccepted
  <2>3. pc'[j] = "wait_clone" /\ task'[j] = "clone" /\ vmid' = vmid /\ todo' = todo
    BY <1>5 DEF CloneAccepted
  <2>4. pc[j] = "clone"
    BY <1>5 DEF CloneAccepted
  <2>5. JobOK(j)'
    BY <1>a, <2>3, <2>4 DEF JobInv, JobOK, Started, InQueue
  <2>6. Owns(j)' /\ VmOK(j)'
    BY <1>a, <2>1, <2>2, <2>3, <2>4 DEF JobInv, JobOK, Owns, VmOK, Started
  <2> QED BY <1>5, <2>1, <2>5, <2>6, OthersKeep DEF CloneAccepted, JobInv
<1>6. CASE CloneRefused(j)
  <2>1. JobInv(j)'
    BY <1>6, <1>a DEF CloneRefused, Settle, JobInv, JobOK, Owns, VmOK, Holds,
                      Started, InQueue
  <2> QED BY <1>6, <2>1, OthersKeep DEF CloneRefused, Settle
<1>7. CASE WaitOk(j)
  <2>1. JobInv(j)'
    BY <1>7, <1>a DEF WaitOk, JobInv, JobOK, Owns, VmOK, Holds, Started, InQueue
  <2> QED BY <1>7, <2>1, OthersKeep DEF WaitOk
<1>8. CASE WaitFails(j)
  <2>1. JobInv(j)'
    BY <1>8, <1>a DEF WaitFails, Settle, JobInv, JobOK, Owns, VmOK, Holds,
                      Started, InQueue
  <2> QED BY <1>8, <2>1, OthersKeep DEF WaitFails, Settle
<1>9. ASSUME NEW s \in Settings, Apply(j, s) PROVE \A k \in Jobs : JobInv(k)'
  <2>1. pc[j] = "build" /\ task[j] = "ok" /\ s \in todo[j] /\ s # "start"
    BY <1>9, <1>a DEF Apply, NextPart, JobInv, JobOK
  <2>2. Holds(j) /\ ~Started(j)
    BY <1>a, <2>1 DEF Holds, JobInv, JobOK
  <2>3. /\ vmid[j] \in VmIds
        /\ vms[vmid[j]].owner = j
        /\ vms[vmid[j]].status = "stopped"
        /\ vms[vmid[j]].has = Wants[j] \ (todo[j] \cup {"start"})
    BY <1>a, <2>1, <2>2 DEF JobInv, Owns, VmOK
  <2>4. todo'[j] = todo[j] \ {s} /\ pc' = pc /\ task' = task /\ vmid' = vmid
    BY <1>9 DEF Apply
  <2>5. /\ vms'[vmid[j]].owner = j
        /\ vms'[vmid[j]].status = "stopped"
        /\ vms'[vmid[j]].has = vms[vmid[j]].has \cup {s}
    BY <1>9, <2>3 DEF Apply, VmRecord
  <2>6. JobOK(j)'
    BY <1>a, <2>1, <2>2, <2>4 DEF JobInv, JobOK, Started, InQueue
  <2>7. Owns(j)'
    BY <2>3, <2>4, <2>5 DEF Owns
  <2>8. ~Started(j)'
    BY <2>1, <2>2, <2>4 DEF Started
  <2>9. Wants[j] \ (todo'[j] \cup {"start"}) = vms[vmid[j]].has \cup {s}
    BY <1>a, <2>1, <2>3, <2>4 DEF JobInv, JobOK
  <2>10. VmOK(j)'
    BY <2>1, <2>4, <2>5, <2>8, <2>9 DEF VmOK
  <2>11. \A id \in VmIds : vms'[id] = vms[id] \/ vms[id].owner = j
    BY <1>9, <2>3 DEF Apply
  <2>12. \A k \in Jobs \ {j} : todo'[k] = todo[k]
    BY <1>9 DEF Apply
  <2> QED BY <2>4, <2>6, <2>7, <2>10, <2>11, <2>12, OthersKeep DEF JobInv
<1>10. CASE Start(j)
  <2>1. JobInv(j)'
    <3>1. todo[j] = {"start"}
      BY <1>10 DEF Start, NextPart, Rank, Settings
    <3>2. /\ pc[j] = "build" /\ task'[j] = "start" /\ pc'[j] = "wait_start"
          /\ todo'[j] = {} /\ vms' = vms /\ vmid' = vmid
      BY <1>10, <3>1 DEF Start
    <3>3. JobOK(j)'
      BY <1>a, <3>1, <3>2 DEF JobInv, JobOK, Started, InQueue
    <3>4. Owns(j)' /\ VmOK(j)'
      BY <1>a, <3>1, <3>2 DEF JobInv, JobOK, Owns, VmOK, Holds, Started
    <3> QED BY <3>3, <3>4 DEF JobInv
  <2> QED BY <1>10, <2>1, OthersKeep DEF Start
<1>11. CASE Return(j)
  <2>1. JobInv(j)'
    BY <1>11, <1>a DEF Return, Settle, JobInv, JobOK, Owns, VmOK, Holds, Started,
                       InQueue
  <2> QED BY <1>11, <2>1, OthersKeep DEF Return, Settle
<1>12. CASE CallFails(j)
  <2>1. JobInv(j)'
    BY <1>12, <1>a DEF CallFails, Settle, JobInv, JobOK, Owns, VmOK, Holds,
                       Started, InQueue
  <2> QED BY <1>12, <2>1, OthersKeep DEF CallFails, Settle
<1>13. CASE DeleteAccepted(j)
  <2>1. JobInv(j)'
    BY <1>13, <1>a DEF DeleteAccepted, JobInv, JobOK, Owns, VmOK, Holds, Started,
                       InQueue
  <2> QED BY <1>13, <2>1, OthersKeep DEF DeleteAccepted
<1>14. CASE DeleteRefused(j)
  <2>1. JobInv(j)'
    BY <1>14, <1>a DEF DeleteRefused, JobInv, JobOK, Owns, VmOK, Holds, Started,
                       InQueue
  <2> QED BY <1>14, <2>1, OthersKeep DEF DeleteRefused
<1>15. CASE DeleteReturns(j)
  <2>1. JobInv(j)'
    BY <1>15, <1>a DEF DeleteReturns, JobInv, JobOK, Owns, VmOK, Holds, Started,
                       InQueue
  <2> QED BY <1>15, <2>1, OthersKeep DEF DeleteReturns
<1> QED BY <1>1, <1>2, <1>3, <1>4, <1>5, <1>6, <1>7, <1>8, <1>9, <1>10, <1>11,
           <1>12, <1>13, <1>14, <1>15 DEF JobStep

\* So does every step of the task it submitted.
LEMMA TaskStepInv ==
    ASSUME TypeOK, \A k \in Jobs : JobInv(k), NEW j \in Jobs, TaskStep(j)
    PROVE  \A k \in Jobs : JobInv(k)'
<1> USE DEF TypeOK, Deleting, Finished
<1>a. JobInv(j)
  OBVIOUS
<1>b. /\ task[j] \in {"clone", "start", "delete"}
      /\ pc' = pc /\ vmid' = vmid /\ todo' = todo
      /\ \A k \in Jobs \ {j} : task'[k] = task[k]
  BY DEF TaskStep, CloneEnds, StartEnds, DeleteEnds, TaskFails
<1>c. vmid[j] \in VmIds /\ vms[vmid[j]].owner = j /\ vms[vmid[j]].status # "absent"
  BY <1>a, <1>b DEF JobInv, Owns, Holds
<1>d. \A id \in VmIds : vms'[id] = vms[id] \/ vms[id].owner = j
  BY <1>c DEF TaskStep, CloneEnds, StartEnds, DeleteEnds, TaskFails
<1>1. CASE CloneEnds(j)
  <2>1. task[j] = "clone" /\ task'[j] = "ok" /\ ~Started(j)
    BY <1>1, <1>a DEF CloneEnds, JobInv, JobOK, Started
  <2>2. /\ vms'[vmid[j]].owner = j /\ vms'[vmid[j]].status = "stopped"
        /\ vms'[vmid[j]].has = vms[vmid[j]].has
    BY <1>1, <1>c DEF CloneEnds, VmRecord
  <2>3. JobOK(j)'
    BY <1>a, <1>b, <2>1 DEF JobInv, JobOK, Started, InQueue
  <2>4. Owns(j)' /\ VmOK(j)'
    BY <1>a, <1>b, <1>c, <2>1, <2>2 DEF JobInv, JobOK, Owns, VmOK, Holds, Started
  <2> QED BY <1>b, <1>d, <2>3, <2>4, OthersKeep DEF JobInv
<1>2. CASE StartEnds(j)
  <2>1. task[j] = "start" /\ task'[j] = "ok"
    BY <1>2 DEF StartEnds
  <2>2. /\ vms'[vmid[j]].owner = j /\ vms'[vmid[j]].status = "running"
        /\ vms'[vmid[j]].has = vms[vmid[j]].has
    BY <1>2, <1>c DEF StartEnds, VmRecord
  <2>3. JobOK(j)'
    BY <1>a, <1>b, <2>1 DEF JobInv, JobOK, Started, InQueue
  <2>4. Owns(j)' /\ VmOK(j)'
    BY <1>a, <1>b, <1>c, <2>1, <2>2 DEF JobInv, JobOK, Owns, VmOK, Holds, Started
  <2> QED BY <1>b, <1>d, <2>3, <2>4, OthersKeep DEF JobInv
<1>3. CASE DeleteEnds(j) \/ TaskFails(j)
  <2>1. /\ task[j] = "delete" \/ task'[j] = "failed"
        /\ task'[j] \in {"ok", "failed"}
        /\ task[j] = "start" => vms' = vms
    BY <1>3 DEF DeleteEnds, TaskFails
  <2>2. JobInv(j)'
    <3>1. JobOK(j)'
      BY <1>a, <1>b, <2>1 DEF JobInv, JobOK, Started, InQueue
    <3>2. CASE task[j] \in {"clone", "delete"}
      <4>1. ~Holds(j)'
        BY <1>a, <1>b, <2>1, <3>2 DEF JobInv, JobOK, Holds
      <4> QED BY <3>1, <4>1 DEF JobInv, Owns, VmOK
    <3>3. CASE task[j] = "start"
      BY <1>a, <1>b, <2>1, <3>1, <3>3
         DEF JobInv, JobOK, Owns, VmOK, Holds, Started
    <3> QED BY <1>b, <3>2, <3>3
  <2> QED BY <1>b, <1>d, <2>2, OthersKeep
<1> QED BY <1>1, <1>2, <1>3 DEF TaskStep

\* The steps of the calling thread and of other clients keep it as well.
LEMMA JobInvStep ==
    ASSUME LaunchInv, [Next]_vars
    PROVE  \A k \in Jobs : JobInv(k)'
<1> USE DEF Deleting, Finished
<1>a. TypeOK /\ \A k \in Jobs : JobInv(k)
  BY DEF LaunchInv, JobInv
<1>1. ASSUME NEW j \in Jobs, JobStep(j) \/ TaskStep(j)
      PROVE  \A k \in Jobs : JobInv(k)'
  BY <1>a, <1>1, JobStepInv, TaskStepInv
<1>2. CASE Cancel
  <2> SUFFICES ASSUME NEW k \in Jobs PROVE JobInv(k)'
    OBVIOUS
  <2>1. \/ pc'[k] = pc[k]
        \/ pc[k] = "queued" /\ pc'[k] = "cancelled"
    BY <1>a, <1>2 DEF Cancel, TypeOK
  <2>2. UNCHANGED <<vms, task, vmid, todo>>
    BY <1>2 DEF Cancel, cluster
  <2> QED BY <1>a, <2>1, <2>2
          DEF JobInv, JobOK, Owns, VmOK, Holds, Started, InQueue
<1>3. CASE LeavePool
  <2> SUFFICES ASSUME NEW k \in Jobs PROVE JobInv(k)'
    OBVIOUS
  <2>1. \/ pc'[k] = pc[k]
        \/ pc[k] = "done" /\ pc'[k] = "delete"
    BY <1>a, <1>3 DEF LeavePool, TypeOK, LaunchInv, CallerOK
  <2>2. UNCHANGED <<vms, task, vmid, todo>>
    BY <1>3 DEF LeavePool, cluster
  <2> QED BY <1>a, <2>1, <2>2
          DEF JobInv, JobOK, Owns, VmOK, Holds, Started, InQueue
<1>4. CASE UNCHANGED <<vms, jobVars>>
  BY <1>a, <1>4, Frame DEF jobVars
<1>5. CASE ForeignStep
  <2>1. UNCHANGED jobVars
    BY <1>5 DEF ForeignStep, ForeignCreate, ForeignDelete, jobVars
  <2>2. ASSUME NEW k \in Jobs, NEW id \in VmIds
        PROVE  \/ vms'[id] = vms[id]
               \/ vms[id].owner # k
               \/ vms[id].status = "absent"
    <3>1. k # Foreign
      BY DEF Jobs, Foreign
    <3> QED BY <1>5, <1>a, <3>1
            DEF ForeignStep, ForeignCreate, ForeignDelete, Free, TypeOK
  <2> QED BY <1>a, <2>1, <2>2, Frame DEF jobVars
<1>6. CASE Enter \/ (\E j \in Jobs : Collect(j)) \/ RollbackEnd \/ AbortEnd
           \/ UNCHANGED vars
  BY <1>4, <1>6 DEF Enter, Collect, RollbackEnd, AbortEnd, vars, jobVars, cluster
<1>7. CASE Interrupt
  <2> SUFFICES ASSUME NEW k \in Jobs PROVE JobInv(k)'
    OBVIOUS
  <2>1. \/ pc'[k] = pc[k]
        \/ pc[k] = "queued" /\ pc'[k] = "unsubmitted"
        \/ pc[k] = "delete" /\ pc'[k] = "kept"
    BY <1>a, <1>7, InterruptEffect
  <2>2. UNCHANGED <<vms, task, vmid, todo>>
    BY <1>a, <1>7, InterruptEffect
  <2> QED BY <1>a, <2>1, <2>2
          DEF JobInv, JobOK, Owns, VmOK, Holds, Started, InQueue
<1> QED BY <1>1, <1>2, <1>3, <1>5, <1>6, <1>7 DEF Next, MainStep, Stay

-----------------------------------------------------------------------------
(* What the calling thread knows *)

LEMMA CallerStep ==
    ASSUME LaunchInv, [Next]_vars
    PROVE  CallerOK'
<1> USE DEF caller
<1>a. TypeOK /\ CallerOK
  BY DEF LaunchInv
<1>b. \A j \in Jobs : pc[j] \in Stages
  BY <1>a DEF TypeOK
\* A job that neither settles anew nor starts to be deleted.
<1>c. ASSUME UNCHANGED caller, NEW j \in Jobs,
             pc[j] \in InQueue \cup Launching,
             \E st \in Stages \ (Deleting \cup Finished) :
                pc' = [pc EXCEPT ![j] = st],
             pc'[j] # "unsubmitted",
             main \notin Interrupted
               => (pc'[j] \in {"cancelled", "notified"} => firstError # NoJob)
      PROVE  CallerOK'
  <2>1. j \notin seen /\ j \notin created /\ firstError # j
    <3>1. pc[j] \notin Settled \cup Deleting \cup Finished
      BY <1>c DEF InQueue, Launching, Settled, Deleting, Finished
    <3>2. j \notin seen /\ j \notin created
      BY <1>a, <3>1 DEF CallerOK
    <3>3. firstError # j
      BY <1>a, <3>1 DEF CallerOK, RaisesALaunchError, Settled, NoJob, Jobs
    <3> QED BY <3>2, <3>3
  <2>2. main \notin {"rollback", "raised", "returned", "aborted"}
    BY <1>a, <1>c, <2>1 DEF CallerOK, InQueue, Launching, Settled, Finished
  <2>3. \A k \in Jobs \ {j} : pc'[k] = pc[k]
    BY <1>a, <1>c DEF TypeOK
  <2>4. pc'[j] \notin Deleting \cup Finished
    BY <1>a, <1>c DEF TypeOK
  <2> QED BY <1>a, <1>c, <2>1, <2>2, <2>3, <2>4
          DEF CallerOK, RaisesALaunchError, TypeOK, NoJob
<1>1. ASSUME NEW j \in Jobs, JobStep(j) PROVE CallerOK'
  <2>1. CASE pc[j] \in InQueue \cup Launching
    <3>1. UNCHANGED caller
      BY <1>1, <2>1 DEF JobStep, Pick, SkipCancelled, NextId, CheckDrive,
         CloneAccepted, CloneRefused, WaitOk, WaitFails, Apply, Start, Return,
         CallFails, DeleteAccepted, DeleteRefused, DeleteReturns
    <3>2. \E st \in {"nextid", "notified", "drive", "clone", "wait_clone",
                     "failed", "build", "wait_start", "done"} :
            /\ pc' = [pc EXCEPT ![j] = st]
            /\ st = "notified" => pc[j] = "cancelled"
      <4>1. pc = [pc EXCEPT ![j] = pc[j]]
        BY <1>a DEF TypeOK
      <4> QED BY <1>1, <2>1, <4>1 DEF JobStep, Pick, SkipCancelled, NextId,
         CheckDrive, CloneAccepted, CloneRefused, WaitOk, WaitFails, Apply, Start,
         Return, CallFails, DeleteAccepted, DeleteRefused, DeleteReturns, Settle,
         InQueue, Launching
    <3>3. \A st \in {"nextid", "notified", "drive", "clone", "wait_clone",
                     "failed", "build", "wait_start", "done"} :
            /\ st \in Stages \ (Deleting \cup Finished)
            /\ st # "cancelled" /\ st # "unsubmitted"
      BY DEF Stages, Launching, Settled, Deleting, Finished
    <3>4. main \notin Interrupted
            => (pc[j] = "cancelled" => firstError # NoJob)
      BY <1>a DEF CallerOK
    <3>5. /\ pc'[j] # "unsubmitted"
          /\ main \notin Interrupted
               => (pc'[j] \in {"cancelled", "notified"} => firstError # NoJob)
      BY <1>a, <3>2, <3>3, <3>4 DEF TypeOK
    <3> QED BY <1>c, <2>1, <3>1, <3>2, <3>3, <3>5
  <2>2. CASE pc[j] \in Deleting
    <3>1. /\ UNCHANGED caller
          /\ \E st \in Deleting \cup Finished : pc' = [pc EXCEPT ![j] = st]
      BY <1>1, <2>2 DEF JobStep, Pick, SkipCancelled, NextId, CheckDrive,
         CloneAccepted, CloneRefused, WaitOk, WaitFails, Apply, Start, Return,
         CallFails, DeleteAccepted, DeleteRefused, DeleteReturns, Deleting, Finished
    <3>2. /\ j \in created /\ firstError # j
          /\ main \notin {"raised", "returned", "aborted", "submit", "collect", "cancel"}
      <4>1. /\ j \in created /\ pc[j] # "done" /\ pc[j] # "failed"
            /\ pc[j] \notin Settled \cup Finished
        BY <1>a, <2>2 DEF CallerOK, Settled, Deleting, Finished
      <4>2. main \notin {"submit", "collect", "cancel", "returned", "raised", "aborted"}
        BY <1>a, <4>1 DEF CallerOK
      <4>3. firstError # j
        BY <1>a, <4>1 DEF CallerOK, RaisesALaunchError, NoJob, Jobs
      <4> QED BY <4>1, <4>2, <4>3
    <3>3. \A k \in Jobs \ {j} : pc'[k] = pc[k]
      BY <1>a, <3>1 DEF TypeOK
    <3>4. pc'[j] \in Deleting \cup Finished
      BY <1>a, <3>1 DEF TypeOK
    <3>5. pc'[j] \notin {"cancelled", "notified", "unsubmitted"}
      BY <3>4 DEF Deleting, Finished
    <3> QED BY <1>a, <2>2, <3>1, <3>2, <3>3, <3>4, <3>5
            DEF CallerOK, RaisesALaunchError, TypeOK, NoJob
  <2> QED BY <1>1, <2>1, <2>2 DEF JobStep, Pick, SkipCancelled, NextId, CheckDrive,
         CloneAccepted, CloneRefused, WaitOk, WaitFails, Apply, Start, Return,
         CallFails, DeleteAccepted, DeleteRefused, DeleteReturns,
         InQueue, Launching, Deleting
<1>2. CASE UNCHANGED <<pc, caller>>
  BY <1>a, <1>2 DEF CallerOK, RaisesALaunchError
<1>3. ASSUME NEW j \in Jobs, TaskStep(j) PROVE CallerOK'
  BY <1>2, <1>3 DEF TaskStep, CloneEnds, StartEnds, DeleteEnds, TaskFails
<1>4. CASE ForeignStep \/ UNCHANGED vars
  BY <1>2, <1>4 DEF ForeignStep, ForeignCreate, ForeignDelete, vars
<1>5. CASE Enter \/ Interrupt
  <2> USE DEF Interrupted
  <2>1. CASE Enter
    BY <1>a, <2>1 DEF Enter, CallerOK, RaisesALaunchError
  <2>2. CASE InterruptCollect
    <3>1. /\ main \in {"collect", "cancel"} /\ main' = "interrupted" /\ pc' = pc
          /\ seen' = {} /\ created' = {} /\ firstError' = NoJob
      BY <2>2 DEF InterruptCollect
    <3>2. \A j \in Jobs : pc[j] \notin Deleting \cup Finished
      BY <1>a, <3>1 DEF CallerOK, Deleting, Finished
    <3> QED BY <3>1, <3>2 DEF CallerOK, RaisesALaunchError
  <2>3. CASE InterruptSubmit
    <3>1. /\ main = "submit" /\ main' = "interrupted"
          /\ UNCHANGED <<seen, created, firstError>>
      BY <2>3 DEF InterruptSubmit
    <3>2. \A k \in Jobs : \/ pc'[k] = pc[k]
                          \/ pc[k] = "queued" /\ pc'[k] = "unsubmitted"
      BY <1>a, <2>3 DEF InterruptSubmit, TypeOK
    <3> QED BY <1>a, <3>1, <3>2
            DEF CallerOK, RaisesALaunchError, TypeOK, NoJob, Settled, Deleting, Finished
  <2>4. CASE InterruptRollback
    <3>1. /\ main = "rollback" /\ main' = "interrupted"
          /\ UNCHANGED <<seen, created, firstError>>
      BY <2>4 DEF InterruptRollback
    <3>2. \A k \in Jobs : \/ pc'[k] = pc[k]
                          \/ pc[k] = "delete" /\ pc'[k] = "kept"
      BY <1>a, <2>4 DEF InterruptRollback, TypeOK
    <3> QED BY <1>a, <3>1, <3>2
            DEF CallerOK, RaisesALaunchError, TypeOK, NoJob, Settled, Deleting, Finished
  <2>5. CASE InterruptJoin
    BY <1>a, <2>5 DEF InterruptJoin, CallerOK, RaisesALaunchError
  <2> QED BY <1>5, <2>1, <2>2, <2>3, <2>4, <2>5 DEF Interrupt
<1>6. ASSUME NEW j \in Jobs, Collect(j) PROVE CallerOK'
  <2>1. pc' = pc /\ pc[j] \in Settled /\ main = "collect"
    BY <1>6 DEF Collect, Uncollected
  <2>2. seen' = seen \cup {j} /\ main' \in {"collect", "cancel"}
    BY <1>6, <2>1 DEF Collect
  <2>3. CASE firstError # NoJob
    BY <1>a, <1>6, <2>1, <2>2, <2>3
       DEF Collect, CallerOK, RaisesALaunchError
  <2>4. CASE firstError = NoJob /\ pc[j] # "done"
    <3>1. pc[j] = "failed"
      BY <1>a, <2>1, <2>4 DEF CallerOK, Settled, Interrupted
    <3>2. firstError' = j /\ created' = created /\ j # NoJob
      BY <1>6, <2>4 DEF Collect, Jobs, NoJob
    <3> QED BY <1>a, <2>1, <2>2, <2>4, <3>1, <3>2
            DEF CallerOK, RaisesALaunchError, Interrupted
  <2>5. CASE firstError = NoJob /\ pc[j] = "done"
    <3>1. firstError' = firstError /\ created' = created \cup {j} /\ main' = main
      BY <1>6, <2>5 DEF Collect
    <3> QED BY <1>a, <2>1, <2>2, <2>5, <3>1
            DEF CallerOK, RaisesALaunchError
  <2> QED BY <2>3, <2>4, <2>5
<1>7. CASE Cancel
  <2>1. \A k \in Jobs : \/ pc'[k] = pc[k]
                        \/ pc[k] = "queued" /\ pc'[k] = "cancelled"
    BY <1>a, <1>7 DEF Cancel, TypeOK
  <2>2. /\ main = "cancel" /\ main' \in {"cancel", "collect"}
        /\ seen' = seen /\ created' = created /\ firstError' = firstError
    BY <1>7 DEF Cancel
  <2> QED BY <1>a, <2>1, <2>2
          DEF CallerOK, RaisesALaunchError, TypeOK, NoJob, Interrupted,
              Settled, Deleting, Finished
<1>8. CASE LeavePool
  <2>1. /\ seen = Jobs /\ main = "collect"
        /\ UNCHANGED <<seen, created, firstError>>
    BY <1>8 DEF LeavePool
  <2>2. CASE firstError = NoJob /\ main' = "returned" /\ UNCHANGED pc
    BY <1>a, <2>1, <2>2 DEF CallerOK, RaisesALaunchError, Interrupted, Deleting, Finished
  <2>3. CASE /\ firstError # NoJob /\ main' = "rollback"
             /\ pc' = [j \in Jobs |-> IF j \in created THEN "delete" ELSE pc[j]]
    <3>1. \A j \in Jobs : pc'[j] = IF j \in created THEN "delete" ELSE pc[j]
      BY <2>3
    <3>2. firstError \in Jobs \ created
      <4>1. \A j \in created : pc[j] = "done"
        BY <1>a, <2>1 DEF CallerOK
      <4>2. pc[firstError] = "failed" /\ firstError \in Jobs
        BY <1>a, <2>3 DEF CallerOK, RaisesALaunchError, TypeOK
      <4> QED BY <4>1, <4>2
    <3>3. RaisesALaunchError'
      BY <1>a, <2>1, <2>3, <3>1, <3>2
         DEF CallerOK, RaisesALaunchError
    <3>4. \A j \in Jobs : pc'[j] \in Deleting \cup Finished => j \in created
      BY <1>a, <3>1 DEF CallerOK
    <3>5. \A j \in Jobs : pc'[j] \in Settled \cup Deleting \cup Finished
      BY <1>a, <2>1, <3>1 DEF CallerOK, Deleting
    <3>6. \A j \in Jobs : /\ pc'[j] \in {"cancelled", "notified"} => firstError # NoJob
                          /\ pc'[j] # "unsubmitted"
      BY <1>a, <2>1, <2>3, <3>1 DEF CallerOK, Interrupted
    <3> QED BY <1>a, <2>1, <2>3, <3>3, <3>4, <3>5, <3>6 DEF CallerOK, TypeOK
  <2> QED BY <1>8, <2>2, <2>3 DEF LeavePool
<1>9. CASE RollbackEnd \/ AbortEnd
  BY <1>a, <1>9 DEF RollbackEnd, AbortEnd, CallerOK, RaisesALaunchError, Interrupted
<1> QED BY <1>1, <1>2, <1>3, <1>4, <1>5, <1>6, <1>7, <1>8, <1>9
        DEF Next, MainStep, Stay

\* What is not there is Absent: only a free id is written with something else.
LEMMA FreeStep ==
    ASSUME LaunchInv, [Next]_vars
    PROVE  \A id \in Free' : vms'[id].owner = Foreign
<1> SUFFICES ASSUME NEW id \in VmIds, vms'[id].status = "absent", vms'[id] # Absent
             PROVE  vms'[id].owner = Foreign
  BY DEF Free, Absent
<1> USE DEF LaunchInv, TypeOK, Free, VmRecord
<1>1. CASE vms'[id] = vms[id]
  BY <1>1
<1>2. ASSUME NEW j \in Jobs, JobStep(j) PROVE vms'[id] = vms[id]
  <2>1. ASSUME NEW s \in Settings, Apply(j, s) PROVE vms'[id] = vms[id]
    <3>1. pc[j] = "build" /\ Holds(j)
      BY <2>1 DEF Apply, Holds
    <3>2. vms[vmid[j]].status # "absent" /\ vmid[j] \in VmIds
      BY <3>1 DEF Owns
    <3> QED BY <2>1, <3>2 DEF Apply
  <2>2. ~CloneAccepted(j) \/ vms'[id] = vms[id]
    BY DEF CloneAccepted
  <2> QED BY <1>2, <2>1, <2>2 DEF JobStep, cluster, Pick, SkipCancelled, NextId,
        CheckDrive, CloneRefused, WaitOk, WaitFails, Start, Return, CallFails,
        DeleteAccepted, DeleteRefused, DeleteReturns
<1>3. ASSUME NEW j \in Jobs, TaskStep(j) PROVE vms'[id] = vms[id]
  BY <1>3 DEF TaskStep, CloneEnds, StartEnds, DeleteEnds, TaskFails
<1>4. CASE MainStep \/ Interrupt \/ UNCHANGED vars
  BY <1>4, InterruptEffect DEF MainStep, Enter, Collect, Cancel, LeavePool, RollbackEnd,
     AbortEnd, vars, cluster
<1>5. CASE ForeignStep
  BY <1>5 DEF ForeignStep, ForeignCreate, ForeignDelete, Absent
<1> QED BY <1>1, <1>2, <1>3, <1>4, <1>5 DEF Next, Stay

LEMMA InvStep == LaunchInv /\ [Next]_vars => LaunchInv'
<1> SUFFICES ASSUME LaunchInv, [Next]_vars PROVE LaunchInv'
  OBVIOUS
<1>1. TypeOK'
  BY TypeStep DEF LaunchInv
<1> QED BY <1>1, JobInvStep, CallerStep, FreeStep DEF LaunchInv, JobInv

-----------------------------------------------------------------------------
(* The theorems *)

\* In every reachable state the stage of a launch determines what it owns and
\* what its VM has, and the calling thread's lists agree with the stages.
THEOREM Invariance == Spec => []LaunchInv
BY InitInv, InvStep, PTL DEF Spec

\* The variables of launch_many and the cluster keep their types.
THEOREM TypeCorrectness == Spec => []TypeOK
<1>1. LaunchInv => TypeOK
  BY DEF LaunchInv
<1> QED BY <1>1, Invariance, PTL

\* launch and the rollback touch only the VM the job cloned itself, whatever ids
\* _next_vmid hands to concurrent launches (client.py:179, 373).
THEOREM Ownership == Spec => []OwnsItsVm
<1>1. LaunchInv => OwnsItsVm
  BY DEF LaunchInv, OwnsItsVm
<1> QED BY <1>1, Invariance, PTL

LEMMA CompleteWhenReturned == LaunchInv => ReturnedComplete
<1> SUFFICES ASSUME LaunchInv, main = "returned"
             PROVE  created = Jobs /\ \A j \in Jobs : Complete(j)
  BY DEF ReturnedComplete
<1>1. created = Jobs /\ \A j \in Jobs : pc[j] = "done"
  BY DEF LaunchInv, CallerOK
<1> SUFFICES ASSUME NEW j \in Jobs PROVE Complete(j)
  BY <1>1
<1>2. task[j] = "ok" /\ todo[j] = {} /\ Holds(j)
  BY <1>1 DEF LaunchInv, JobOK, Holds
<1>3. /\ vms[vmid[j]].has = Wants[j] \ {"start"}
      /\ vms[vmid[j]].status = IF Started(j) THEN "running" ELSE "stopped"
  BY <1>1, <1>2 DEF LaunchInv, VmOK, Deleting, Finished
<1> QED BY <1>2, <1>3 DEF Complete, Started

\* When launch_many returns, every config has its VM, complete (client.py:267).
THEOREM CompleteOnReturn == Spec => []ReturnedComplete
BY CompleteWhenReturned, Invariance, PTL

\* launch_many never raises the CancelledError of a future it cancelled itself
\* (client.py:246-253).
THEOREM NeverRaisesCancellation == Spec => []RaisesALaunchError
<1>1. LaunchInv => RaisesALaunchError
  BY DEF LaunchInv, CallerOK
<1> QED BY <1>1, Invariance, PTL

\* No deletion overlaps a launch (client.py:242, 258).
THEOREM RollbackIsolation == Spec => []RollbackRunsAlone
<1>1. LaunchInv => RollbackRunsAlone
  <2> SUFFICES ASSUME LaunchInv, NEW j \in Jobs, pc[j] \in Deleting,
                      NEW k \in Jobs
               PROVE  pc[k] \notin InQueue \cup Launching
    BY DEF RollbackRunsAlone
  <2>1. seen = Jobs
    BY DEF LaunchInv, CallerOK
  <2>2. pc[k] \in Settled \cup Deleting \cup Finished
    BY <2>1 DEF LaunchInv, CallerOK
  <2> QED BY <2>2 DEF InQueue, Launching, Settled, Deleting, Finished
<1> QED BY <1>1, Invariance, PTL

\* No VM of another client is changed, created or removed by launch_many.
THEOREM ForeignSafety == Spec => ForeignUntouched
<1>1. LaunchInv /\ [Next]_vars
        => [~ForeignStep => \A id \in ForeignVms(vms) : vms'[id] = vms[id]]_vars
  <2> SUFFICES ASSUME LaunchInv, [Next]_vars, ~ForeignStep,
                      NEW id \in VmIds, vms[id].owner = Foreign,
                      vms[id].status # "absent"
               PROVE  vms'[id] = vms[id]
    BY DEF ForeignVms
  <2>1. \A j \in Jobs : Holds(j) => vmid[j] # id
    BY DEF LaunchInv, Owns, Jobs, Foreign
  <2>2. ASSUME NEW j \in Jobs, JobStep(j) PROVE vms'[id] = vms[id]
    <3>1. CASE CloneAccepted(j)
      BY <3>1 DEF CloneAccepted, Free, LaunchInv, TypeOK
    <3>2. ASSUME NEW s \in Settings, Apply(j, s) PROVE vms'[id] = vms[id]
      BY <2>1, <3>2 DEF Apply, Holds, LaunchInv, TypeOK
    <3>3. CASE UNCHANGED vms
      BY <3>3
    <3> QED BY <2>2, <3>1, <3>2, <3>3 DEF JobStep, cluster, Pick, SkipCancelled,
        NextId, CheckDrive, CloneRefused, WaitOk, WaitFails, Start, Return,
        CallFails, DeleteAccepted, DeleteRefused, DeleteReturns
  <2>3. ASSUME NEW j \in Jobs, TaskStep(j) PROVE vms'[id] = vms[id]
    BY <2>1, <2>3 DEF TaskStep, CloneEnds, StartEnds, DeleteEnds, TaskFails, Holds,
       LaunchInv, TypeOK
  <2>4. CASE MainStep \/ Interrupt \/ UNCHANGED vars
    BY <2>4, InterruptEffect DEF MainStep, Enter, Collect, Cancel, LeavePool, RollbackEnd,
       AbortEnd, vars, cluster, LaunchInv
  <2> QED BY <2>2, <2>3, <2>4 DEF Next, Stay
<1> QED BY <1>1, Invariance, PTL DEF Spec, ForeignUntouched

\* Settings reach a VM only while it is stopped (vm.py:323).
THEOREM StoppedWhileConfigured == Spec => ConfiguredWhileStopped
<1> DEFINE Quiet == \A id \in VmIds : ~(vms'[id].has \subseteq vms[id].has)
              => vms[id].status = "stopped" /\ vms'[id].status = "stopped"
<1>1. LaunchInv /\ [Next]_vars => [Quiet]_vars
  <2> SUFFICES ASSUME LaunchInv, [Next]_vars, NEW id \in VmIds,
                      ~(vms'[id].has \subseteq vms[id].has)
               PROVE  vms[id].status = "stopped" /\ vms'[id].status = "stopped"
    OBVIOUS
  <2>1. ASSUME NEW j \in Jobs, NEW s \in Settings, Apply(j, s)
        PROVE  vms[id].status = "stopped" /\ vms'[id].status = "stopped"
    <3>1. vmid[j] = id /\ pc[j] = "build" /\ todo[j] # {}
      BY <2>1 DEF Apply, NextPart, LaunchInv, TypeOK
    <3>2. task[j] = "ok" /\ ~Started(j) /\ Holds(j)
      BY <3>1 DEF LaunchInv, JobOK, Holds
    <3>3. vms[id].status = "stopped"
      BY <3>1, <3>2 DEF LaunchInv, VmOK, Deleting, Finished
    <3>4. vms'[id].status = vms[id].status
      BY <2>1, <3>1 DEF Apply, LaunchInv, TypeOK, VmRecord
    <3> QED BY <3>3, <3>4
  <2>2. CASE UNCHANGED vms
    BY <2>2
  <2>3. ASSUME NEW j \in Jobs, JobStep(j)
        PROVE  vms[id].status = "stopped" /\ vms'[id].status = "stopped"
    <3>1. CASE CloneAccepted(j)
      BY <3>1 DEF CloneAccepted, LaunchInv, TypeOK
    <3> QED BY <2>1, <2>2, <2>3, <3>1 DEF JobStep, cluster, Pick, SkipCancelled,
        NextId, CheckDrive, CloneRefused, WaitOk, WaitFails, Start, Return,
        CallFails, DeleteAccepted, DeleteRefused, DeleteReturns
  <2>4. ASSUME NEW j \in Jobs, TaskStep(j) PROVE FALSE
    <3>1. vmid[j] \in VmIds
      BY <2>4 DEF TaskStep, CloneEnds, StartEnds, DeleteEnds, TaskFails, LaunchInv,
         Owns, Holds
    <3>2. Absent.has = {}
      BY DEF Absent
    <3>3. vms'[id].has = vms[id].has \/ vms'[id].has = {}
      BY <2>4, <3>1, <3>2 DEF TaskStep, CloneEnds, StartEnds, DeleteEnds, TaskFails,
         LaunchInv, TypeOK, VmRecord
    <3> QED BY <3>3
  <2>5. CASE MainStep \/ Interrupt \/ UNCHANGED vars
    BY <2>2, <2>5, InterruptEffect DEF MainStep, Enter, Collect, Cancel, LeavePool,
       RollbackEnd, AbortEnd, vars, cluster, LaunchInv
  <2>6. CASE ForeignStep
    BY <2>6 DEF ForeignStep, ForeignCreate, ForeignDelete, Absent, LaunchInv,
       TypeOK
  <2> QED BY <2>3, <2>4, <2>5, <2>6 DEF Next, Stay
<1> QED BY <1>1, Invariance, PTL DEF Spec, ConfiguredWhileStopped

\* After launch_many has returned or raised, its threads are all at rest, unless a
\* second interrupt ended its wait for them (client.py:241-264).
THEOREM Quiescence == Spec => NoStragglers
<1>1. LaunchInv /\ [Next]_vars
        => [Over /\ main # "abandoned" => UNCHANGED <<pc, main>>]_vars
  <2> SUFFICES ASSUME LaunchInv, [Next]_vars, Over, main # "abandoned"
               PROVE  UNCHANGED <<pc, main>>
    OBVIOUS
  <2>1. \A j \in Jobs : pc[j] \in Settled \cup Finished
    <3>1. CASE main = "returned"
      BY <3>1 DEF LaunchInv, CallerOK, Settled
    <3>2. CASE main = "raised"
      <4> SUFFICES ASSUME NEW j \in Jobs PROVE pc[j] \in Settled \cup Finished
        OBVIOUS
      <4>1. pc[j] \in Settled \cup Deleting \cup Finished
        BY <3>2 DEF LaunchInv, CallerOK
      <4>2. j \in created => pc[j] \in Finished
        BY <3>2 DEF LaunchInv, CallerOK
      <4>3. pc[j] \in Deleting => j \in created
        BY DEF LaunchInv, CallerOK
      <4> QED BY <4>1, <4>2, <4>3
    <3>3. CASE main = "aborted"
      BY <3>3 DEF LaunchInv, CallerOK
    <3> QED BY <3>1, <3>2, <3>3 DEF Over
  <2>2. \A j \in Jobs : ~JobStep(j)
    BY <2>1 DEF JobStep, Settled, Finished, Pick, SkipCancelled, NextId,
       CheckDrive, CloneAccepted, CloneRefused, WaitOk, WaitFails, Apply, Start,
       Return, CallFails, DeleteAccepted, DeleteRefused, DeleteReturns
  <2>3. ~MainStep /\ ~Interrupt
    BY InterruptEffect DEF LaunchInv, Over, MainStep, Enter, Collect, Cancel, LeavePool,
       RollbackEnd, AbortEnd
  <2> QED BY <2>2, <2>3 DEF Next, Stay, vars, TaskStep, CloneEnds, StartEnds,
       DeleteEnds, TaskFails, ForeignStep, ForeignCreate, ForeignDelete, caller
<1> QED BY <1>1, Invariance, PTL DEF Spec, NoStragglers

-----------------------------------------------------------------------------
(* launch_many implements Batch *)

\* A step that leaves the VM of every config but j as the caller sees it, and
\* the call pending or raised, is a step of the abstract batch if it takes the VM
\* of j along one of the ways of Batch.
LEMMA VmStep ==
    ASSUME NEW j \in Jobs, Outcome' = Outcome, Outcome # "returned",
           \A k \in Jobs \ {j} : VmOf(k)' = VmOf(k),
           \/ VmOf(j)' = VmOf(j)
           \/ /\ Outcome \in {"pending", "abandoned"}
              /\ VmOf(j) = "none" /\ VmOf(j)' = "made"
           \/ VmOf(j) = "made" /\ VmOf(j)' = "ready"
           \/ VmOf(j) \in {"made", "ready"} /\ VmOf(j)' = "gone"
    PROVE  [B!Next]_(B!vars)
<1> DEFINE vm == [k \in Jobs |-> VmOf(k)]
<1>1. vm' = [vm EXCEPT ![j] = VmOf(j)']
  OBVIOUS
<1>2. CASE VmOf(j)' = VmOf(j)
  <2>1. vm' = vm
    BY <1>2
  <2> QED BY <2>1 DEF B!vars
<1>3. CASE /\ Outcome \in {"pending", "abandoned"}
           /\ VmOf(j) = "none" /\ VmOf(j)' = "made"
  <2>1. B!Make(j)
    BY <1>1, <1>3 DEF B!Make, B!Step
  <2> QED BY <2>1 DEF B!Next
<1>4. CASE VmOf(j) = "made" /\ VmOf(j)' = "ready"
  <2>1. B!Finish(j)
    BY <1>1, <1>4 DEF B!Finish, B!Step
  <2> QED BY <2>1 DEF B!Next
<1>5. CASE VmOf(j) \in {"made", "ready"} /\ VmOf(j)' = "gone"
  <2>1. B!Lose(j)
    BY <1>1, <1>5 DEF B!Lose, B!Step
  <2> QED BY <2>1 DEF B!Next
<1> QED BY <1>2, <1>3, <1>4, <1>5

\* The VM of config k looks the same after a step that leaves k's own task and
\* every VM of k alone.
LEMMA VmFrame ==
    ASSUME LaunchInv, NEW k \in Jobs,
           \/ task[k] = "none" /\ task'[k] = "none"
           \/ task[k] # "none" /\ task'[k] # "none" /\ vmid'[k] = vmid[k],
           \A id \in VmIds : \/ vms'[id] = vms[id]
                             \/ vms[id].owner # k /\ vms'[id].owner # k
    PROVE  VmOf(k)' = VmOf(k)
<1>1. CASE task[k] = "none"
  BY <1>1 DEF VmOf
<1>2. CASE task[k] # "none"
  <2>1. vmid[k] \in VmIds /\ vmid'[k] = vmid[k] /\ task'[k] # "none"
    BY <1>2 DEF LaunchInv, JobOK
  <2>2. CASE vms'[vmid[k]] = vms[vmid[k]]
    BY <1>2, <2>1, <2>2 DEF VmOf, Complete
  <2>3. CASE vms[vmid[k]].owner # k /\ vms'[vmid[k]].owner # k
    BY <1>2, <2>1, <2>3 DEF VmOf
  <2> QED BY <2>1, <2>2, <2>3
<1> QED BY <1>1, <1>2

\* A batch that is over has no launch under way, unless it was abandoned.
LEMMA LaunchingIsPending ==
    ASSUME LaunchInv, NEW j \in Jobs,
           pc[j] \in Launching
    PROVE  Outcome \in {"pending", "abandoned"}
<1>1. main # "returned" /\ main # "aborted"
  BY DEF LaunchInv, CallerOK, Launching, Settled, Finished
<1>2. main # "raised"
  BY DEF LaunchInv, CallerOK, Launching, Settled, Deleting, Finished
<1> QED BY <1>1, <1>2 DEF Outcome

\* A batch that has returned has done all of its launches.
LEMMA NotDoneNotReturned ==
    ASSUME LaunchInv, NEW j \in Jobs, pc[j] # "done"
    PROVE  Outcome # "returned"
<1>1. main # "returned"
  BY DEF LaunchInv, CallerOK
<1> QED BY <1>1 DEF Outcome

LEMMA RefineJobStep ==
    ASSUME LaunchInv, NEW j \in Jobs, JobStep(j)
    PROVE  [B!Next]_(B!vars)
<1> USE DEF LaunchInv, TypeOK
<1>a. Outcome' = Outcome
  BY DEF JobStep, cluster, caller, Pick, SkipCancelled, NextId, CheckDrive,
         CloneAccepted, CloneRefused, WaitOk, WaitFails, Apply, Start, Return,
         CallFails, DeleteAccepted, DeleteRefused, DeleteReturns, Outcome
<1>1. CASE CloneAccepted(j)
  <2>1. vmid[j] \in VmIds /\ vms[vmid[j]].owner = Foreign
    BY <1>1 DEF CloneAccepted, Free
  <2>2. \A k \in Jobs \ {j} : VmOf(k)' = VmOf(k)
    <3> SUFFICES ASSUME NEW k \in Jobs \ {j} PROVE VmOf(k)' = VmOf(k)
      OBVIOUS
    <3>1. \A id \in VmIds : \/ vms'[id] = vms[id]
                            \/ vms[id].owner # k /\ vms'[id].owner # k
      BY <1>1, <2>1 DEF CloneAccepted, Foreign, Jobs
    <3>2. task'[k] = task[k] /\ vmid'[k] = vmid[k]
      BY <1>1 DEF CloneAccepted
    <3> QED BY <3>1, <3>2, VmFrame
  <2>3. pc[j] = "clone" /\ task[j] = "none"
    BY <1>1 DEF CloneAccepted, JobOK
  <2>4. VmOf(j) = "none" /\ Outcome \in {"pending", "abandoned"}
    BY <2>3, LaunchingIsPending DEF VmOf, Launching
  <2>5. /\ task'[j] = "clone" /\ vmid'[j] = vmid[j]
        /\ vms'[vmid[j]] = [owner |-> j, status |-> "cloning", has |-> {}]
    BY <1>1, <2>1 DEF CloneAccepted
  <2>6. VmOf(j)' = "made"
    BY <2>5 DEF VmOf, Complete
  <2> QED BY <1>a, <2>2, <2>4, <2>6, VmStep
<1>2. ASSUME NEW s \in Settings, Apply(j, s)
      PROVE  [B!Next]_(B!vars)
  <2>1. /\ pc[j] = "build" /\ task[j] = "ok" /\ s \in todo[j] /\ s # "start"
        /\ s \in Wants[j]
    BY <1>2 DEF Apply, NextPart, JobOK
  <2>2. /\ vmid[j] \in VmIds /\ vms[vmid[j]].owner = j
        /\ vms[vmid[j]].has = Wants[j] \ (todo[j] \cup {"start"})
    BY <2>1 DEF Owns, Holds, VmOK, Deleting, Finished
  <2>3. VmOf(j) = "made"
    BY <2>1, <2>2 DEF VmOf, Complete
  <2>4. /\ task' = task /\ vmid' = vmid /\ vms'[vmid[j]].owner = j
        /\ \A id \in VmIds \ {vmid[j]} : vms'[id] = vms[id]
    BY <1>2, <2>2 DEF Apply, VmRecord
  <2>5. VmOf(j)' \in {"made", "ready"}
    BY <2>1, <2>4 DEF VmOf
  <2>6. \A k \in Jobs \ {j} : VmOf(k)' = VmOf(k)
    BY <2>2, <2>4, VmFrame
  <2>7. Outcome # "returned"
    BY <2>1, NotDoneNotReturned
  <2> QED BY <1>a, <2>3, <2>5, <2>6, <2>7, VmStep
<1>3. CASE ~CloneAccepted(j) /\ \A s \in Settings : ~Apply(j, s)
  <2>1. UNCHANGED vms
    BY <1>3 DEF JobStep, cluster, Pick, SkipCancelled, NextId, CheckDrive,
         CloneRefused, WaitOk, WaitFails, Start, Return, CallFails,
         DeleteAccepted, DeleteRefused, DeleteReturns
  <2>2. ASSUME NEW k \in Jobs
        PROVE  \/ task[k] = "none" /\ task'[k] = "none"
               \/ task[k] # "none" /\ task'[k] # "none" /\ vmid'[k] = vmid[k]
    <3>1. CASE \E id \in VmIds : NextId(j, id)
      BY <3>1 DEF NextId, cluster, JobOK
    <3>2. CASE Start(j) \/ DeleteAccepted(j)
      BY <3>2 DEF Start, DeleteAccepted, JobOK
    <3>3. CASE UNCHANGED <<task, vmid>>
      BY <3>3
    <3> QED BY <1>3, <3>1, <3>2, <3>3 DEF JobStep, cluster, Pick, SkipCancelled,
         CheckDrive, CloneRefused, WaitOk, WaitFails, Return, CallFails,
         DeleteRefused, DeleteReturns
  <2>3. \A k \in Jobs : VmOf(k)' = VmOf(k)
    BY <2>1, <2>2, VmFrame
  <2> QED BY <1>a, <2>3 DEF B!vars
<1> QED BY <1>1, <1>2, <1>3

LEMMA RefineTaskStep ==
    ASSUME LaunchInv, NEW j \in Jobs, TaskStep(j)
    PROVE  [B!Next]_(B!vars)
<1> USE DEF LaunchInv, TypeOK
<1>a. /\ Outcome' = Outcome
      /\ task[j] \in {"clone", "start", "delete"} /\ task'[j] \in {"ok", "failed"}
      /\ pc' = pc /\ vmid' = vmid /\ todo' = todo
      /\ \A k \in Jobs \ {j} : task'[k] = task[k]
  BY DEF TaskStep, CloneEnds, StartEnds, DeleteEnds, TaskFails, caller, Outcome
<1>b. vmid[j] \in VmIds /\ vms[vmid[j]].owner = j
  BY <1>a DEF Owns, Holds
<1>c. Outcome # "returned"
  <2>1. pc[j] # "done"
    BY <1>a DEF JobOK
  <2> QED BY <2>1, NotDoneNotReturned
<1>d. vms'[vmid[j]].owner \in {j, Foreign}
  BY <1>b DEF TaskStep, CloneEnds, StartEnds, DeleteEnds, TaskFails, Absent,
     VmRecord
<1>e. \A k \in Jobs \ {j} : VmOf(k)' = VmOf(k)
  <2> SUFFICES ASSUME NEW k \in Jobs \ {j} PROVE VmOf(k)' = VmOf(k)
    OBVIOUS
  <2>1. \A id \in VmIds : \/ vms'[id] = vms[id]
                          \/ vms[id].owner # k /\ vms'[id].owner # k
    BY <1>b, <1>d DEF TaskStep, CloneEnds, StartEnds, DeleteEnds, TaskFails,
       Foreign, Jobs
  <2> QED BY <1>a, <2>1, VmFrame
<1>1. CASE CloneEnds(j)
  <2>1. /\ task[j] = "clone" /\ pc[j] \in {"wait_clone", "failed"}
        /\ vms'[vmid[j]].owner = j
    BY <1>1, <1>b DEF CloneEnds, JobOK, VmRecord
  <2>2. vms[vmid[j]].status = "cloning"
    BY <2>1 DEF VmOK, Holds, Deleting, Finished
  <2>3. VmOf(j) = "made"
    BY <1>b, <2>1, <2>2 DEF VmOf, Complete
  <2>4. VmOf(j)' \in {"made", "ready"}
    BY <1>a, <2>1 DEF VmOf
  <2> QED BY <1>a, <1>c, <1>e, <2>3, <2>4, VmStep
<1>2. CASE StartEnds(j)
  <2>1. /\ task[j] = "start" /\ pc[j] \in {"wait_start", "failed"} /\ Started(j)
        /\ vms'[vmid[j]].owner = j
    BY <1>2, <1>b DEF StartEnds, JobOK, VmRecord
  <2>2. vms[vmid[j]].status = "stopped" /\ "start" \in Wants[j]
    BY <2>1 DEF VmOK, Holds, Deleting, Finished, Started
  <2>3. VmOf(j) = "made"
    BY <1>b, <2>1, <2>2 DEF VmOf, Complete
  <2>4. VmOf(j)' \in {"made", "ready"}
    BY <1>a, <2>1 DEF VmOf
  <2> QED BY <1>a, <1>c, <1>e, <2>3, <2>4, VmStep
<1>3. CASE DeleteEnds(j) \/ (TaskFails(j) /\ task[j] = "clone")
  <2>1. vms'[vmid[j]].owner # j
    BY <1>3, <1>b DEF DeleteEnds, TaskFails, Absent, Foreign, Jobs
  <2>2. VmOf(j) \in {"made", "ready"} /\ VmOf(j)' = "gone"
    BY <1>a, <1>b, <2>1 DEF VmOf
  <2> QED BY <1>a, <1>c, <1>e, <2>2, VmStep
<1>4. CASE TaskFails(j) /\ task[j] # "clone"
  <2>1. vms' = vms
    BY <1>4 DEF TaskFails
  <2>2. VmOf(j)' = VmOf(j)
    BY <1>a, <2>1 DEF VmOf, Complete
  <2> QED BY <1>a, <1>c, <1>e, <2>2, VmStep
<1> QED BY <1>1, <1>2, <1>3, <1>4 DEF TaskStep

LEMMA RefineMainStep ==
    ASSUME LaunchInv, LaunchInv', MainStep \/ Interrupt
    PROVE  [B!Next]_(B!vars)
<1>1. UNCHANGED <<vms, task, vmid>>
  BY InterruptEffect DEF MainStep, Enter, Collect, Cancel, LeavePool, RollbackEnd,
     AbortEnd, cluster, LaunchInv
<1>2. [j \in Jobs |-> VmOf(j)]' = [j \in Jobs |-> VmOf(j)]
  BY <1>1 DEF VmOf, Complete
<1>3. CASE LeavePool /\ main' = "returned"
  <2>1. Outcome = "pending" /\ Outcome' = "returned"
    BY <1>3 DEF LeavePool, Outcome
  <2>2. ASSUME NEW j \in Jobs PROVE VmOf(j)' = "ready"
    <3>1. ReturnedComplete'
      BY CompleteWhenReturned, PTL
    <3>2. Complete(j)' /\ pc'[j] = "done"
      BY <1>3, <3>1 DEF ReturnedComplete, LaunchInv, CallerOK
    <3>3. task'[j] = "ok" /\ vms'[vmid'[j]].owner = j
      BY <3>2 DEF LaunchInv, JobOK, Owns, Holds
    <3> QED BY <3>2, <3>3 DEF VmOf
  <2>3. B!Return
    BY <1>2, <2>1, <2>2 DEF B!Return
  <2> QED BY <2>3 DEF B!Next
<1>4. CASE RollbackEnd \/ AbortEnd
  <2>1. B!Raise
    BY <1>2, <1>4 DEF B!Raise, RollbackEnd, AbortEnd, Outcome
  <2> QED BY <2>1 DEF B!Next
<1>5. CASE Outcome' = Outcome
  BY <1>2, <1>5 DEF B!vars
<1>6. CASE (LeavePool /\ main' # "returned") \/ Enter \/ Cancel
           \/ \E j \in Jobs : Collect(j)
  <2>1. Outcome = "pending" /\ Outcome' = "pending"
    BY <1>6 DEF LeavePool, Enter, Cancel, Collect, Outcome
  <2> QED BY <1>5, <2>1
<1>7. CASE Interrupt
  <2>1. \/ main = "interrupted" /\ main' = "abandoned"
        \/ /\ main \in {"submit", "collect", "cancel", "rollback"}
           /\ main' = "interrupted"
    BY <1>7, InterruptEffect DEF LaunchInv
  <2>2. CASE main = "interrupted" /\ main' = "abandoned"
    <3>1. B!Abandon
      BY <1>2, <2>2 DEF B!Abandon, Outcome
    <3> QED BY <3>1 DEF B!Next
  <2>3. CASE main \in {"submit", "collect", "cancel", "rollback"} /\ main' = "interrupted"
    <3>1. Outcome = "pending" /\ Outcome' = "pending"
      BY <2>3 DEF Outcome
    <3> QED BY <1>5, <3>1
  <2> QED BY <2>1, <2>2, <2>3
<1> QED BY <1>3, <1>4, <1>6, <1>7 DEF MainStep

\* launch_many promises its callers what Batch says (client.py:226-267).
THEOREM Refinement == Spec => IsBatch
<1>1. Init => B!Init
  BY DEF Init, B!Init, VmOf, Outcome
<1>2. LaunchInv /\ LaunchInv' /\ [Next]_vars
        => [B!Next]_(B!vars)
  <2> SUFFICES ASSUME LaunchInv, LaunchInv', [Next]_vars
               PROVE  [B!Next]_(B!vars)
    OBVIOUS
  <2>1. CASE ForeignStep
    <3>1. UNCHANGED <<task, vmid, main>>
      BY <2>1 DEF ForeignStep, ForeignCreate, ForeignDelete, caller
    <3>2. \A id \in VmIds : \/ vms'[id] = vms[id]
                            \/ vms[id].owner = Foreign /\ vms'[id].owner = Foreign
      BY <2>1 DEF ForeignStep, ForeignCreate, ForeignDelete, LaunchInv, TypeOK,
         Absent
    <3>3. ASSUME NEW k \in Jobs PROVE VmOf(k)' = VmOf(k)
      <4>1. k # Foreign
        BY DEF Jobs, Foreign
      <4> QED BY <3>1, <3>2, <4>1, VmFrame
    <3> QED BY <3>1, <3>3 DEF Outcome, B!vars
  <2>2. CASE UNCHANGED vars
    BY <2>2 DEF vars, cluster, caller, VmOf, Complete, Outcome, B!vars
  <2> QED BY <2>1, <2>2, RefineJobStep, RefineTaskStep, RefineMainStep
          DEF Next, Stay
<1> QED BY <1>1, <1>2, Invariance, PTL DEF Spec, IsBatch, B!Spec

-----------------------------------------------------------------------------
(* No thread waits for ever on another of the same call *)

\* A set of naturals that is not empty has a least element.
LEMMA NatLeast ==
    ASSUME NEW T, T \subseteq Nat, T # {}
    PROVE  \E x \in T : \A y \in T : x <= y
<1>1. PICK x \in T : \A y \in T : ~ (<<y, x>> \in OpToRel(<, Nat))
  BY NatLessThanWellFounded, WFMin
<1>2. \A y \in T : ~ (y < x)
  BY <1>1 DEF OpToRel
<1>3. x \in Nat /\ \A y \in T : y \in Nat
  OBVIOUS
<1>4. \A y \in T : x <= y
  BY <1>2, <1>3
<1> QED BY <1>4

\* So has what a function to the naturals gives on a set that is not empty.
LEMMA LeastBy ==
    ASSUME NEW T, T # {}, NEW f, \A x \in T : f[x] \in Nat
    PROVE  \E x \in T : \A y \in T : f[x] <= f[y]
<1> DEFINE V == {f[x] : x \in T}
<1>1. V \subseteq Nat /\ V # {}
  OBVIOUS
<1> HIDE DEF V
<1>2. PICK v \in V : \A w \in V : v <= w
  BY <1>1, NatLeast
<1> QED BY <1>2 DEF V

LEMMA RollingStep == LaunchInv /\ RollingBack /\ [Next]_vars => RollingBack'
<1> SUFFICES ASSUME LaunchInv, RollingBack, [Next]_vars, main' = "rollback"
             PROVE  \A j \in created' : pc'[j] \in Deleting \cup Finished
  BY DEF RollingBack
<1> USE DEF caller, Deleting, Finished
<1>a. TypeOK /\ CallerOK
  BY DEF LaunchInv
<1>1. ASSUME NEW i \in Jobs, JobStep(i) PROVE \A j \in created' : pc'[j] \in Deleting \cup Finished
  <2>1. UNCHANGED caller
    BY <1>1 DEF JobStep, Pick, SkipCancelled, NextId, CheckDrive, CloneAccepted, CloneRefused,
       WaitOk, WaitFails, Apply, Start, Return, CallFails, DeleteAccepted, DeleteRefused,
       DeleteReturns
  <2>2. \A j \in created : pc[j] \in Deleting \cup Finished
    BY <2>1 DEF RollingBack
  <2>3. pc[i] \in Deleting \cup Finished => pc'[i] \in Deleting \cup Finished
    BY <1>1, <1>a DEF JobStep, Pick, SkipCancelled, NextId, CheckDrive, CloneAccepted,
       CloneRefused, WaitOk, WaitFails, Apply, Start, Return, CallFails, DeleteAccepted,
       DeleteRefused, DeleteReturns, TypeOK
  <2>4. \A j \in Jobs \ {i} : pc'[j] = pc[j]
    BY <1>1, <1>a DEF JobStep, Pick, SkipCancelled, NextId, CheckDrive, CloneAccepted,
       CloneRefused, WaitOk, WaitFails, Apply, Start, Return, CallFails, DeleteAccepted,
       DeleteRefused, DeleteReturns, Settle, TypeOK
  <2> QED BY <1>a, <2>1, <2>2, <2>3, <2>4 DEF TypeOK
<1>2. CASE LeavePool
  BY <1>2, <1>a DEF LeavePool, TypeOK
<1>3. CASE Enter \/ (\E j \in Jobs : Collect(j)) \/ Cancel \/ RollbackEnd \/ AbortEnd \/ Interrupt
  BY <1>3, <1>a, InterruptEffect DEF Enter, Collect, Cancel, RollbackEnd, AbortEnd, CallerOK
<1>4. CASE (\E j \in Jobs : TaskStep(j)) \/ ForeignStep \/ UNCHANGED vars
  BY <1>4 DEF TaskStep, CloneEnds, StartEnds, DeleteEnds, TaskFails, ForeignStep,
              ForeignCreate, ForeignDelete, vars, RollingBack
<1> QED BY <1>1, <1>2, <1>3, <1>4 DEF Next, MainStep, Stay

\* Of the optional parts still to apply, one is next.
LEMMA SomeNextPart ==
    ASSUME TypeOK, NEW j \in Jobs, todo[j] # {}
    PROVE  \E s \in Settings : NextPart(j, s)
<1>1. todo[j] \subseteq Settings
  BY DEF TypeOK
<1>2. \A s \in todo[j] : Rank[s] \in Nat
  BY <1>1 DEF Rank, Settings
<1>3. PICK s \in todo[j] : \A t \in todo[j] : Rank[s] <= Rank[t]
  BY <1>2, LeastBy
<1> QED BY <1>1, <1>3 DEF NextPart

\* If a job has neither settled nor come to its rollback, some job can move: one
\* that is launching, or else the first in the queue, as every worker is free.
LEMMA PoolMoves ==
    ASSUME TypeOK, NEW i \in Jobs, pc[i] \in InQueue \cup Launching
    PROVE  \E j \in Jobs : JobReady(j)
<1>1. CASE \E j \in Jobs : pc[j] \in Launching
  <2>1. PICK j \in Jobs : pc[j] \in Launching
    BY <1>1
  <2>2. JobReady(j)
    BY <2>1, SomeNextPart DEF JobReady
  <2> QED BY <2>2
<1>2. CASE \A j \in Jobs : pc[j] \notin Launching
  <2> DEFINE Q == {j \in Jobs : pc[j] \in InQueue}
  <2>1. Q \subseteq Nat /\ Q # {}
    BY <1>2 DEF Jobs
  <2>2. PICK j \in Q : \A k \in Q : j <= k
    BY <2>1, NatLeast
  <2>3. {k \in Jobs : pc[k] \in Launching} = {}
    BY <1>2
  <2>4. Cardinality({k \in Jobs : pc[k] \in Launching}) < MaxWorkers
    BY <2>3, FS_EmptySet
  <2>5. \A k \in Jobs : k < j => pc[k] \notin InQueue
    BY <2>2 DEF Jobs
  <2> QED BY <2>2, <2>4, <2>5 DEF JobReady, AtHead
<1> QED BY <1>1, <1>2

\* Neither the workers, nor as_completed, nor the two joins wait for something
\* that no thread will do: as long as launch_many has not come back, one of its
\* threads has a step to take (client.py:241-264).
THEOREM NoMutualWait == Spec => []NeverAllWaiting
<1>1. Init => RollingBack
  BY DEF Init, RollingBack
<1>2. LaunchInv /\ RollingBack => NeverAllWaiting
  <2> SUFFICES ASSUME LaunchInv, RollingBack PROVE NeverAllWaiting
    OBVIOUS
  <2>a. TypeOK /\ CallerOK
    BY DEF LaunchInv
  <2>1. CASE main = "collect"
    <3>1. CASE seen = Jobs
      BY <2>1, <3>1 DEF NeverAllWaiting, MainReady
    <3>2. CASE Uncollected # {}
      <4>1. \A j \in Uncollected : ticket[j] \in Nat
        BY <2>a DEF Uncollected, TypeOK
      <4> QED BY <2>1, <3>2, <4>1, LeastBy DEF NeverAllWaiting, MainReady
    <3>3. CASE seen # Jobs /\ Uncollected = {}
      <4>1. PICK j \in Jobs : j \notin seen
        BY <2>a, <3>3 DEF TypeOK
      <4>2. pc[j] \in InQueue \cup Launching
        BY <2>a, <3>3, <4>1 DEF Uncollected, TypeOK, CallerOK, Stages
      <4> QED BY <2>a, <4>2, PoolMoves DEF NeverAllWaiting
    <3> QED BY <3>1, <3>2, <3>3
  <2>2. CASE main = "rollback"
    BY <2>a, <2>2 DEF RollingBack, NeverAllWaiting, MainReady, JobReady, TypeOK
  <2>3. CASE main = "interrupted"
    <3>1. CASE \A j \in Jobs : pc[j] \in Settled \cup Finished
      BY <2>3, <3>1 DEF NeverAllWaiting, MainReady
    <3>2. ASSUME NEW j \in Jobs, pc[j] \notin Settled \cup Finished PROVE NeverAllWaiting
      <4>1. pc[j] \in InQueue \cup Launching \/ pc[j] \in Deleting
        BY <2>a, <3>2 DEF TypeOK, Stages
      <4>2. CASE pc[j] \in Deleting
        BY <4>2 DEF NeverAllWaiting, JobReady
      <4> QED BY <2>a, <4>1, <4>2, PoolMoves DEF NeverAllWaiting
    <3> QED BY <3>1, <3>2
  <2>4. CASE main \in {"submit", "cancel", "returned", "raised", "aborted", "abandoned"}
    BY <2>4 DEF NeverAllWaiting, MainReady, Over
  <2> QED BY <2>a, <2>1, <2>2, <2>3, <2>4 DEF TypeOK
<1> QED BY <1>1, <1>2, RollingStep, Invariance, PTL DEF Spec

-----------------------------------------------------------------------------
(* Every thread has only so many steps to take *)

LEMMA JobsFinite == IsFiniteSet(Jobs) /\ Cardinality(Jobs) = NJobs
  BY FS_Interval DEF Jobs

LEMMA PartsLeft ==
    ASSUME TypeOK, NEW j \in Jobs
    PROVE  IsFiniteSet(todo[j]) /\ Cardinality(todo[j]) \in 0..4
<1>1. IsFiniteSet(Settings) /\ Cardinality(Settings) <= 4
  <2>1. \A S, x : IsFiniteSet(S) => /\ IsFiniteSet(S \cup {x})
                                    /\ Cardinality(S \cup {x}) <= Cardinality(S) + 1
    <3> SUFFICES ASSUME NEW S, NEW x, IsFiniteSet(S)
                 PROVE  /\ IsFiniteSet(S \cup {x})
                        /\ Cardinality(S \cup {x}) <= Cardinality(S) + 1
      OBVIOUS
    <3>1. Cardinality(S) \in Nat
      BY FS_CardinalityType
    <3>2. IsFiniteSet(S \cup {x})
      BY FS_AddElement, Zenon
    <3>3. \/ Cardinality(S \cup {x}) = Cardinality(S)
          \/ Cardinality(S \cup {x}) = Cardinality(S) + 1
      BY FS_AddElement, Zenon
    <3> QED BY <3>1, <3>2, <3>3
  <2> DEFINE P1 == {} \cup {"hw"}  P2 == P1 \cup {"disk"}  P3 == P2 \cup {"ci"}
  <2>2. IsFiniteSet(P1) /\ Cardinality(P1) <= Cardinality({}) + 1
    BY <2>1, FS_EmptySet, Zenon
  <2>3. IsFiniteSet(P2) /\ Cardinality(P2) <= Cardinality(P1) + 1
    BY <2>1, <2>2, Zenon
  <2>4. IsFiniteSet(P3) /\ Cardinality(P3) <= Cardinality(P2) + 1
    BY <2>1, <2>3, Zenon
  <2>5. IsFiniteSet(P3 \cup {"start"}) /\ Cardinality(P3 \cup {"start"}) <= Cardinality(P3) + 1
    BY <2>1, <2>4, Zenon
  <2>6. Settings = P3 \cup {"start"}
    BY DEF Settings
  <2> HIDE DEF P1, P2, P3
  <2>7. /\ Cardinality(P1) \in Nat /\ Cardinality(P2) \in Nat /\ Cardinality(P3) \in Nat
        /\ Cardinality(P3 \cup {"start"}) \in Nat
    BY <2>2, <2>3, <2>4, <2>5, FS_CardinalityType
  <2>8. Cardinality(P3 \cup {"start"}) <= 4
    BY <2>2, <2>3, <2>4, <2>5, <2>7, FS_EmptySet
  <2> QED BY <2>5, <2>6, <2>8, Zenon
<1>2. todo[j] \in SUBSET Settings
  BY DEF TypeOK
<1>3. IsFiniteSet(todo[j]) /\ Cardinality(todo[j]) <= Cardinality(Settings)
  BY <1>1, <1>2, FS_Subset
<1>4. Cardinality(todo[j]) \in Nat /\ Cardinality(Settings) \in Nat
  BY <1>1, <1>3, FS_CardinalityType
<1> QED BY <1>1, <1>3, <1>4

\* A job that a step leaves where it is keeps its rank.
LEMMA SameRank ==
    ASSUME NEW k, pc'[k] = pc[k], todo'[k] = todo[k]
    PROVE  JobRank(k)' = JobRank(k)
  BY DEF JobRank

LEMMA RankIsNat ==
    ASSUME TypeOK, NEW j \in Jobs
    PROVE  JobRank(j) \in 0..17
  BY PartsLeft DEF JobRank

LEMMA JobStepDescends ==
    ASSUME TypeOK, NEW j \in Jobs, JobStep(j)
    PROVE  JobRank(j)' < JobRank(j)
<1> USE DEF TypeOK
<1>a. PICK n \in 0..4 : n = Cardinality(todo[j])
  BY PartsLeft
\* The stages of a launch, in the order of their ranks.
<1>1. ASSUME NEW st, pc' = [pc EXCEPT ![j] = st], todo' = todo
      PROVE  pc'[j] = st /\ todo'[j] = todo[j]
  BY <1>1
<1>2. CASE Pick(j)
  BY <1>1, <1>2 DEF Pick, JobRank
<1>3. CASE SkipCancelled(j)
  BY <1>1, <1>3 DEF SkipCancelled, Settle, JobRank
<1>4. CASE \E id \in VmIds : NextId(j, id)
  BY <1>1, <1>4 DEF NextId, JobRank
<1>5. CASE CheckDrive(j) \/ CloneAccepted(j)
  BY <1>1, <1>5 DEF CheckDrive, CloneAccepted, JobRank
<1>6. CASE CloneRefused(j) \/ CallFails(j) \/ WaitFails(j)
  <2>1. /\ pc[j] \in {"nextid", "drive", "clone", "build", "wait_clone", "wait_start"}
        /\ pc'[j] = "failed"
    BY <1>1, <1>6 DEF CloneRefused, CallFails, WaitFails, Settle
  <2>2. JobRank(j)' = 0
    BY <2>1 DEF JobRank
  <2>3. JobRank(j) > 0
    BY <1>a, <2>1 DEF JobRank
  <2> QED BY <2>2, <2>3
<1>7. CASE WaitOk(j)
  <2>1. pc'[j] = "build" /\ todo'[j] = todo[j] /\ pc[j] \in {"wait_clone", "wait_start"}
    BY <1>1, <1>7 DEF WaitOk
  <2>2. JobRank(j)' = 4 + 2 * n
    BY <1>a, <2>1 DEF JobRank
  <2>3. JobRank(j) = 13 \/ JobRank(j) = 5 + 2 * n
    BY <1>a, <2>1 DEF JobRank
  <2> QED BY <2>2, <2>3
<1>8. ASSUME NEW s \in todo[j], pc[j] = "build", todo' = [todo EXCEPT ![j] = @ \ {s}],
             pc'[j] \in {"build", "wait_start"}
      PROVE  JobRank(j)' < JobRank(j)
  <2>1. todo'[j] = todo[j] \ {s}
    BY <1>8
  <2>2. Cardinality(todo'[j]) = n - 1
    BY <1>a, <1>8, <2>1, PartsLeft, FS_RemoveElement
  <2>3. JobRank(j)' \in {4 + 2 * (n - 1), 5 + 2 * (n - 1)}
    BY <1>8, <2>2 DEF JobRank
  <2>4. JobRank(j) = 4 + 2 * n
    BY <1>a, <1>8 DEF JobRank
  <2> QED BY <2>3, <2>4
<1>9. CASE (\E s \in Settings : Apply(j, s)) \/ Start(j)
  BY <1>8, <1>9 DEF Apply, Start, NextPart
<1>10. CASE Return(j)
  <2>1. pc'[j] = "done" /\ pc[j] = "build"
    BY <1>1, <1>10 DEF Return, Settle
  <2>2. JobRank(j)' = 3 /\ JobRank(j) = 4 + 2 * n
    BY <1>a, <2>1 DEF JobRank
  <2> QED BY <2>2
<1>11. CASE DeleteAccepted(j) \/ DeleteRefused(j) \/ DeleteReturns(j)
  BY <1>1, <1>11 DEF DeleteAccepted, DeleteRefused, DeleteReturns, JobRank
<1> QED BY <1>2, <1>3, <1>4, <1>5, <1>6, <1>7, <1>9, <1>10, <1>11 DEF JobStep

\* A worker has at most seventeen steps to take for a config, the rollback
\* included, and nothing makes them more: no launch is begun again, and cancelling
\* and deleting only shorten it (client.py:243-264).
THEOREM BoundedJobs == Spec => [](\A j \in Jobs : JobRank(j) \in 0..17) /\ JobsDescend
<1>a. TypeOK => \A j \in Jobs : JobRank(j) \in 0..17
  BY RankIsNat
<1>b. TypeOK' => (\A j \in Jobs : JobRank(j) \in 0..17)'
  BY <1>a, PTL
<1>1. ASSUME LaunchInv, [Next]_vars, NEW k \in Jobs
      PROVE  /\ JobRank(k)' <= JobRank(k)
             /\ JobStep(k) => JobRank(k)' < JobRank(k)
  <2>a. TypeOK /\ CallerOK
    BY <1>1 DEF LaunchInv
  <2>b. JobRank(k) \in 0..17 /\ JobRank(k)' \in 0..17
    BY <1>a, <1>b, <1>1, <2>a, TypeStep
  <2>c. JobStep(k) => JobRank(k)' < JobRank(k)
    BY <2>a, JobStepDescends
  <2>1. ASSUME pc'[k] = pc[k], todo'[k] = todo[k]
        PROVE  JobRank(k)' <= JobRank(k)
    BY <2>b, <2>1, SameRank
  <2>2. ASSUME NEW i \in Jobs, JobStep(i), i # k PROVE JobRank(k)' <= JobRank(k)
    <3>1. pc'[k] = pc[k] /\ todo'[k] = todo[k]
      BY <2>a, <2>2 DEF JobStep, Pick, SkipCancelled, NextId, CheckDrive, CloneAccepted,
         CloneRefused, WaitOk, WaitFails, Apply, Start, Return, CallFails, DeleteAccepted,
         DeleteRefused, DeleteReturns, Settle, TypeOK
    <3> QED BY <2>1, <3>1
  <2>3. CASE JobStep(k)
    <3>1. JobRank(k)' < JobRank(k)
      BY <2>c, <2>3
    <3> QED BY <2>b, <3>1
  <2>4. CASE Cancel
    <3>1. /\ todo'[k] = todo[k]
          /\ pc'[k] = pc[k] \/ (pc[k] = "queued" /\ pc'[k] = "cancelled")
      BY <2>a, <2>4 DEF Cancel, TypeOK
    <3>2. pc[k] = "queued" /\ pc'[k] = "cancelled" => JobRank(k)' <= JobRank(k)
      BY DEF JobRank
    <3> QED BY <2>c, <2>1, <3>1, <3>2, Zenon
  <2>5. CASE LeavePool
    <3>1. /\ todo'[k] = todo[k]
          /\ pc'[k] = pc[k] \/ (pc[k] = "done" /\ pc'[k] = "delete")
      BY <2>a, <2>5 DEF LeavePool, CallerOK
    <3>2. pc[k] = "done" /\ pc'[k] = "delete" => JobRank(k)' <= JobRank(k)
      BY DEF JobRank
    <3> QED BY <2>c, <2>1, <3>1, <3>2, Zenon
  <2>6. CASE Enter \/ (\E j \in Jobs : Collect(j)) \/ RollbackEnd \/ AbortEnd
             \/ (\E j \in Jobs : TaskStep(j)) \/ ForeignStep \/ UNCHANGED vars
    <3>1. pc'[k] = pc[k] /\ todo'[k] = todo[k]
      BY <2>6 DEF Enter, Collect, RollbackEnd, AbortEnd, TaskStep, CloneEnds,
         StartEnds, DeleteEnds, TaskFails, ForeignStep, ForeignCreate, ForeignDelete, vars
    <3> QED BY <2>c, <2>1, <3>1, Zenon
  <2>7. CASE Interrupt
    <3>1. /\ todo'[k] = todo[k]
          /\ \/ pc'[k] = pc[k]
             \/ pc[k] = "queued" /\ pc'[k] = "unsubmitted"
             \/ pc[k] = "delete" /\ pc'[k] = "kept"
      BY <2>a, <2>7, InterruptEffect
    <3>2. \/ pc[k] = "queued" /\ pc'[k] = "unsubmitted"
          \/ pc[k] = "delete" /\ pc'[k] = "kept"
          => JobRank(k)' <= JobRank(k)
      BY DEF JobRank
    <3> QED BY <2>c, <2>1, <3>1, <3>2, Zenon
  <2> QED BY <1>1, <2>c, <2>2, <2>3, <2>4, <2>5, <2>6, <2>7 DEF Next, MainStep, Stay
<1>2. LaunchInv => \A j \in Jobs : JobRank(j) \in 0..17
  BY RankIsNat DEF LaunchInv
<1>3. LaunchInv /\ [Next]_vars => \A j \in Jobs : Descends(j)
  BY <1>1 DEF Descends
<1> QED BY <1>2, <1>3, Invariance, PTL DEF Spec, JobsDescend

\* What as_completed has still to yield.
LEMMA LeftToSee ==
    ASSUME TypeOK
    PROVE  /\ IsFiniteSet(Jobs \ seen)
           /\ Cardinality(Jobs \ seen) \in 0..NJobs
<1>1. IsFiniteSet(Jobs \ seen) /\ Cardinality(Jobs \ seen) <= NJobs
  BY JobsFinite, FS_Subset, Zenon
<1> QED BY <1>1, FS_CardinalityType

LEMMA MainRankIsNat == TypeOK => MainRank \in Nat
<1> SUFFICES ASSUME TypeOK PROVE MainRank \in Nat
  OBVIOUS
<1>1. PICK l \in 0..NJobs : l = Cardinality(Jobs \ seen)
  BY LeftToSee
<1>2. NJobs \in Nat /\ cursor \in 1..NJobs
  BY DEF TypeOK, Jobs
<1>3. CASE main = "collect"
  BY <1>1, <1>2, <1>3 DEF MainRank
<1>4. CASE main = "cancel"
  BY <1>1, <1>2, <1>4 DEF MainRank
<1>5. CASE main \notin {"collect", "cancel"}
  BY <1>2, <1>5 DEF MainRank
<1> QED BY <1>3, <1>4, <1>5

LEMMA MainStepDescends ==
    ASSUME TypeOK, CallerOK, MainStep \/ Interrupt
    PROVE  MainRank' < MainRank
<1>1. PICK l \in 0..NJobs : l = Cardinality(Jobs \ seen)
  BY LeftToSee
<1>2. NJobs \in Nat /\ cursor \in 1..NJobs
  BY DEF TypeOK, Jobs
<1>3. CASE Enter
  <2>1. main = "submit" /\ main' = "collect" /\ seen' = seen /\ firstError' = firstError
    BY <1>3 DEF Enter
  <2>2. MainRank = 2 * NJobs + 5
    BY <2>1 DEF MainRank
  <2>3. MainRank' \in {3 + l, 3 + l + (NJobs + 1)}
    BY <1>1, <2>1 DEF MainRank
  <2> QED BY <1>2, <2>2, <2>3
<1>4. ASSUME NEW j \in Jobs, Collect(j) PROVE MainRank' < MainRank
  <2>1. main = "collect" /\ j \in Jobs \ seen /\ Jobs \ seen' = (Jobs \ seen) \ {j}
    BY <1>4 DEF Collect, Uncollected
  <2>2. Cardinality(Jobs \ seen') = Cardinality((Jobs \ seen) \ {j})
    BY <2>1, Zenon
  <2>3. Cardinality((Jobs \ seen) \ {j}) = Cardinality(Jobs \ seen) - 1
    BY <2>1, LeftToSee, FS_RemoveElement
  <2>4. Cardinality(Jobs \ seen') = l - 1
    BY <1>1, <2>2, <2>3
  <2>5. CASE main' = main /\ firstError' = firstError
    <3>1. CASE firstError = NoJob
      <4>1. MainRank = 3 + l + (NJobs + 1)
        BY <1>1, <2>1, <3>1 DEF MainRank
      <4>2. MainRank' = 3 + (l - 1) + (NJobs + 1)
        BY <2>1, <2>4, <2>5, <3>1 DEF MainRank
      <4> QED BY <1>2, <4>1, <4>2
    <3>2. CASE firstError # NoJob
      <4>1. MainRank = 3 + l
        BY <1>1, <2>1, <3>2 DEF MainRank
      <4>2. MainRank' = 3 + (l - 1)
        BY <2>1, <2>4, <2>5, <3>2 DEF MainRank
      <4> QED BY <4>1, <4>2
    <3> QED BY <3>1, <3>2
  <2>6. CASE firstError = NoJob /\ main' = "cancel" /\ cursor' = 1
    <3>1. MainRank = 3 + l + (NJobs + 1)
      BY <1>1, <2>1, <2>6 DEF MainRank
    <3>2. MainRank' = 3 + (l - 1) + NJobs + 1 - 1
      BY <2>4, <2>6 DEF MainRank
    <3> QED BY <1>2, <3>1, <3>2
  <2> QED BY <1>4, <2>5, <2>6 DEF Collect
<1>5. CASE Cancel
  <2>1. main = "cancel" /\ seen' = seen /\ firstError' = firstError /\ firstError # NoJob
    BY <1>5 DEF Cancel, CallerOK
  <2>2. MainRank = 3 + l + NJobs + 1 - cursor
    BY <1>1, <2>1 DEF MainRank
  <2>3. CASE cursor' = cursor + 1 /\ main' = "cancel"
    <3>1. MainRank' = 3 + l + NJobs + 1 - (cursor + 1)
      BY <1>1, <2>1, <2>3 DEF MainRank
    <3> QED BY <1>2, <2>2, <3>1
  <2>4. CASE cursor = NJobs /\ main' = "collect"
    <3>1. MainRank' = 3 + l + 0
      BY <1>1, <2>1, <2>4 DEF MainRank
    <3> QED BY <1>2, <2>2, <2>4, <3>1
  <2> QED BY <1>5, <2>1, <2>3, <2>4 DEF Cancel
<1>6. CASE LeavePool \/ (Interrupt /\ main \in {"collect", "cancel"})
  <2>1. main \in {"collect", "cancel"} /\ main' \in {"returned", "rollback", "interrupted"}
    BY <1>6, InterruptEffect DEF LeavePool
  <2>2. MainRank' \in {0, 1, 2}
    BY <2>1 DEF MainRank
  <2>3. CASE main = "collect"
    <3>1. MainRank \in {3 + l, 3 + l + (NJobs + 1)}
      BY <1>1, <2>3 DEF MainRank
    <3> QED BY <1>2, <2>2, <3>1
  <2>4. CASE main = "cancel"
    <3>1. MainRank = 3 + l + NJobs + 1 - cursor
      BY <1>1, <2>4 DEF MainRank
    <3> QED BY <1>2, <2>2, <3>1
  <2> QED BY <2>1, <2>3, <2>4
<1>7. CASE RollbackEnd \/ AbortEnd
  <2>1. main \in {"rollback", "interrupted"} /\ main' \in {"raised", "aborted"}
    BY <1>7 DEF RollbackEnd, AbortEnd
  <2> QED BY <2>1 DEF MainRank
<1>8. CASE Interrupt /\ main \notin {"collect", "cancel"}
  <2>1. \/ main = "interrupted" /\ main' = "abandoned"
        \/ main \in {"submit", "rollback"} /\ main' = "interrupted"
    BY <1>8, InterruptEffect
  <2>2. CASE main = "submit" /\ main' = "interrupted"
    <3>1. MainRank = 2 * NJobs + 5 /\ MainRank' = 1
      BY <2>2 DEF MainRank
    <3> QED BY <1>2, <3>1
  <2>3. CASE main # "submit"
    BY <2>1, <2>3 DEF MainRank
  <2> QED BY <2>1, <2>2, <2>3
<1> QED BY <1>3, <1>4, <1>5, <1>6, <1>7, <1>8 DEF MainStep

\* The calling thread has at most 2 * NJobs + 5 steps to take: as_completed yields
\* every future once, one pass cancels what is queued, and an interrupt leads out
\* (client.py:246-265).
THEOREM BoundedCaller == Spec => [](MainRank \in Nat) /\ MainDescends
<1>1. TypeOK => MainRank \in Nat
  BY MainRankIsNat
<1>2. TypeOK' => (MainRank \in Nat)'
  BY <1>1, PTL
<1>3. ASSUME LaunchInv, [Next]_vars PROVE CallerDescends
  <2>a. TypeOK /\ CallerOK
    BY <1>3 DEF LaunchInv
  <2>b. MainRank \in Nat /\ MainRank' \in Nat
    BY <1>1, <1>2, <1>3, <2>a, TypeStep
  <2>c. MainStep \/ Interrupt => MainRank' < MainRank
    BY <2>a, MainStepDescends
  <2>1. ASSUME UNCHANGED caller PROVE MainRank' = MainRank
    BY <2>1 DEF caller, MainRank
  <2>2. CASE MainStep \/ Interrupt
    <3>1. MainRank' < MainRank
      BY <2>c, <2>2
    <3> QED BY <2>b, <3>1 DEF CallerDescends
  <2>3. CASE (\E j \in Jobs : JobStep(j) \/ TaskStep(j)) \/ ForeignStep \/ UNCHANGED vars
    <3>1. UNCHANGED caller
      BY <2>3 DEF JobStep, Pick, SkipCancelled, NextId, CheckDrive, CloneAccepted,
         CloneRefused, WaitOk, WaitFails, Apply, Start, Return, CallFails, DeleteAccepted,
         DeleteRefused, DeleteReturns, TaskStep, CloneEnds, StartEnds, DeleteEnds,
         TaskFails, ForeignStep, ForeignCreate, ForeignDelete, vars, caller
    <3>2. MainRank' = MainRank
      BY <2>1, <3>1
    <3> QED BY <2>b, <2>c, <3>2 DEF CallerDescends
  <2> QED BY <1>3, <2>2, <2>3 DEF Next, Stay
<1>4. LaunchInv => MainRank \in Nat
  BY <1>1 DEF LaunchInv
<1> QED BY <1>3, <1>4, Invariance, PTL DEF Spec, MainDescends

-----------------------------------------------------------------------------
(* What a failed launch_many leaves *)

\* A step that gives job k no VM and leaves its id, task and stage.
LEMMA CloneFrame ==
    ASSUME NEW k \in Jobs, CloneOK(k),
           vmid'[k] = vmid[k], task'[k] = task[k], pc'[k] = pc[k],
           \A id \in VmIds : vms'[id].owner = k => vms[id].owner = k
    PROVE  CloneOK(k)'
  BY DEF CloneOK

\* A step of job j that leaves the VMs to their owners: its task is not undone,
\* and it is not done deleting while it has a VM.
LEMMA CloneOwnStep ==
    ASSUME NEW j \in Jobs, CloneOK(j), vmid'[j] = vmid[j],
           \A id \in VmIds : vms'[id].owner = j => vms[id].owner = j,
           task[j] # "none" => task'[j] # "none",
           pc'[j] = "deleted" => pc[j] = "wait_delete" /\ task[j] = "ok",
           pc'[j] = "wait_delete" => task'[j] # "ok"
    PROVE  CloneOK(j)'
  BY DEF CloneOK

LEMMA CloneJobStep ==
    ASSUME LaunchInv, \A k \in Jobs : CloneOK(k), NEW j \in Jobs, JobStep(j)
    PROVE  \A k \in Jobs : CloneOK(k)'
<1> USE DEF TypeOK, cluster
<1>a. TypeOK /\ JobOK(j) /\ Owns(j)
  BY DEF LaunchInv
<1>1. ASSUME NEW k \in Jobs, k # j PROVE CloneOK(k)'
  <2>1. vmid'[k] = vmid[k] /\ task'[k] = task[k] /\ pc'[k] = pc[k]
    BY <1>a, <1>1 DEF JobStep, Pick, SkipCancelled, NextId, CheckDrive, CloneAccepted,
       CloneRefused, WaitOk, WaitFails, Apply, Start, Return, CallFails, DeleteAccepted,
       DeleteRefused, DeleteReturns, Settle
  <2>2. ASSUME NEW id \in VmIds, vms'[id].owner = k PROVE vms[id].owner = k
    BY <1>a, <1>1, <2>2 DEF JobStep, Pick, SkipCancelled, NextId, CheckDrive, CloneAccepted,
       CloneRefused, WaitOk, WaitFails, Apply, Start, Return, CallFails, DeleteAccepted,
       DeleteRefused, DeleteReturns, VmRecord
  <2> QED BY <1>1, <2>1, <2>2, CloneFrame
<1>2. CASE CloneAccepted(j)
  <2>1. /\ vmid' = vmid /\ task'[j] = "clone" /\ pc'[j] = "wait_clone"
        /\ \A id \in VmIds \ {vmid[j]} : vms'[id] = vms[id]
    BY <1>a, <1>2 DEF CloneAccepted
  <2>2. CloneOK(j)'
    BY <2>1 DEF CloneOK
  <2> QED BY <1>1, <2>2
<1>3. CASE \E id \in VmIds : NextId(j, id)
  <2>1. vms' = vms /\ task' = task /\ task[j] = "none"
    BY <1>a, <1>3 DEF NextId, JobOK
  <2>2. CloneOK(j)'
    BY <2>1 DEF CloneOK
  <2> QED BY <1>1, <2>2
<1>4. CASE \E s \in Settings : Apply(j, s)
  <2>1. vmid' = vmid /\ task' = task /\ pc' = pc /\ pc[j] = "build"
    BY <1>4 DEF Apply
  <2>2. \A id \in VmIds : vms'[id].owner = vms[id].owner
    BY <1>a, <1>4 DEF Apply, VmRecord
  <2>3. CloneOK(j)'
    BY <2>1, <2>2, CloneFrame
  <2> QED BY <1>1, <2>3
<1>5. CASE \/ Pick(j) \/ SkipCancelled(j) \/ CheckDrive(j) \/ CloneRefused(j) \/ WaitOk(j)
           \/ WaitFails(j) \/ Return(j) \/ CallFails(j)
  <2>1. /\ vms' = vms /\ vmid' = vmid /\ task' = task
        /\ pc'[j] \notin {"deleted", "wait_delete"}
    BY <1>a, <1>5 DEF Pick, SkipCancelled, CheckDrive, CloneRefused, WaitOk, WaitFails,
                     Return, CallFails, Settle
  <2>2. CloneOK(j)'
    BY <2>1, CloneOwnStep
  <2> QED BY <1>1, <2>2
<1>6. CASE Start(j) \/ DeleteAccepted(j) \/ DeleteRefused(j) \/ DeleteReturns(j)
  <2>1. /\ vms' = vms /\ vmid' = vmid
        /\ task[j] # "none" => task'[j] # "none"
        /\ pc'[j] = "deleted" => pc[j] = "wait_delete" /\ task[j] = "ok"
        /\ pc'[j] = "wait_delete" => task'[j] # "ok"
    BY <1>a, <1>6 DEF Start, DeleteAccepted, DeleteRefused, DeleteReturns
  <2>2. CloneOK(j)'
    BY <2>1, CloneOwnStep
  <2> QED BY <1>1, <2>2
<1> QED BY <1>2, <1>3, <1>4, <1>5, <1>6 DEF JobStep

LEMMA CloneTaskStep ==
    ASSUME LaunchInv, \A k \in Jobs : CloneOK(k), NEW j \in Jobs, TaskStep(j)
    PROVE  \A k \in Jobs : CloneOK(k)'
<1> USE DEF TypeOK
<1>a. TypeOK /\ JobOK(j) /\ Owns(j)
  BY DEF LaunchInv
<1>b. /\ vmid' = vmid /\ pc' = pc /\ task[j] \in {"clone", "start", "delete"}
      /\ task'[j] \in {"ok", "failed"} /\ \A k \in Jobs \ {j} : task'[k] = task[k]
  BY <1>a DEF TaskStep, CloneEnds, StartEnds, DeleteEnds, TaskFails
<1>c. vmid[j] \in VmIds
  BY <1>a, <1>b DEF Owns, Holds
<1>d. ASSUME NEW id \in VmIds, NEW k \in Jobs, vms'[id].owner = k PROVE vms[id].owner = k
  <2>1. k # Absent.owner
    BY DEF Absent, Foreign, Jobs
  <2>2. CASE id # vmid[j]
    <3>1. vms'[id] = vms[id]
      BY <1>a, <1>c, <2>2 DEF TaskStep, CloneEnds, StartEnds, DeleteEnds, TaskFails
    <3> QED BY <1>d, <3>1
  <2>3. CASE id = vmid[j]
    <3>1. vms'[id].owner = vms[id].owner \/ vms'[id] = Absent
      BY <1>a, <1>c, <2>3 DEF TaskStep, CloneEnds, StartEnds, DeleteEnds, TaskFails, VmRecord
    <3> QED BY <1>d, <2>1, <3>1
  <2> QED BY <2>2, <2>3
<1>1. ASSUME NEW k \in Jobs, k # j PROVE CloneOK(k)'
  BY <1>b, <1>d, <1>1, CloneFrame
<1>2. CASE DeleteEnds(j)
  <2>1. \A id \in VmIds : vms'[id].owner # j
    BY <1>c, <1>a, <1>2, j # Foreign DEF DeleteEnds, CloneOK, Absent, Foreign, Jobs
  <2>2. CloneOK(j)'
    BY <2>1 DEF CloneOK
  <2> QED BY <1>1, <2>2
<1>3. CASE CloneEnds(j) \/ StartEnds(j) \/ TaskFails(j)
  <2>1. pc'[j] = "wait_delete" => task'[j] # "ok"
    BY <1>a, <1>b, <1>3 DEF CloneEnds, StartEnds, TaskFails, JobOK
  <2>2. pc'[j] # "deleted"
    BY <1>a, <1>b DEF JobOK
  <2>3. CloneOK(j)'
    BY <1>b, <1>d, <2>1, <2>2, CloneOwnStep
  <2> QED BY <1>1, <2>3
<1> QED BY <1>2, <1>3 DEF TaskStep

\* The VMs that are left when launch_many raises belong to launches that failed
\* after their clone was accepted, that ended after the first error was seen, or
\* whose delete did not succeed (client.py:246-264).
THEOREM WhatIsLeft == Spec => []LeftAccounted
<1> DEFINE Inv == \A k \in Jobs : CloneOK(k)
<1>1. Init => Inv
  BY DEF Init, CloneOK, Absent, Foreign, Jobs
<1>2. LaunchInv /\ Inv /\ [Next]_vars => Inv'
  <2> SUFFICES ASSUME LaunchInv, Inv, [Next]_vars PROVE \A k \in Jobs : CloneOK(k)'
    OBVIOUS
  <2>a. TypeOK
    BY DEF LaunchInv
  <2>1. CASE \E j \in Jobs : JobStep(j) \/ TaskStep(j)
    BY <2>1, CloneJobStep, CloneTaskStep
  <2>2. CASE MainStep \/ Interrupt \/ UNCHANGED vars
    <3>1. UNCHANGED <<vms, task, vmid>>
      BY <2>2, <2>a, InterruptEffect DEF MainStep, Enter, Collect, Cancel, LeavePool,
         RollbackEnd, AbortEnd, vars, cluster
    <3>2. ASSUME NEW k \in Jobs
          PROVE  \/ pc'[k] = pc[k]
                 \/ pc'[k] \in {"cancelled", "delete", "unsubmitted", "kept"}
      BY <2>2, <2>a, InterruptEffect DEF MainStep, Enter, Collect, Cancel, LeavePool,
         RollbackEnd, AbortEnd, vars, TypeOK
    <3> QED BY <3>1, <3>2 DEF CloneOK
  <2>3. CASE ForeignStep
    <3>1. UNCHANGED <<pc, task, vmid>>
      BY <2>3 DEF ForeignStep, ForeignCreate, ForeignDelete
    <3>2. ASSUME NEW id \in VmIds, NEW k \in Jobs, vms'[id].owner = k PROVE vms[id].owner = k
      <4>1. k # Absent.owner /\ k # [Absent EXCEPT !.status = "stopped"].owner
        BY DEF Absent, Foreign, Jobs
      <4>2. \/ vms'[id] = vms[id] \/ vms'[id] = Absent
            \/ vms'[id] = [Absent EXCEPT !.status = "stopped"]
        BY <2>3, <2>a DEF ForeignStep, ForeignCreate, ForeignDelete, TypeOK
      <4> QED BY <3>2, <4>1, <4>2
    <3> QED BY <3>1, <3>2 DEF CloneOK
  <2> QED BY <2>1, <2>2, <2>3 DEF Next, Stay
<1>3. LaunchInv /\ Inv => LeftAccounted
  <2> SUFFICES ASSUME LaunchInv, Inv, main = "raised", NEW id \in VmIds, NEW j \in Jobs,
                      vms[id].owner = j
               PROVE  \/ pc[j] = "failed" /\ task[j] # "none"
                      \/ pc[j] = "done" /\ j \notin created
                      \/ pc[j] = "kept"
    BY DEF LeftAccounted
  <2>1. task[j] # "none" /\ pc[j] # "deleted"
    BY DEF CloneOK
  <2>2. TypeOK /\ JobOK(j) /\ CallerOK
    BY DEF LaunchInv
  <2>3. pc[j] \in Settled \cup Deleting \cup Finished
    BY <2>2 DEF CallerOK
  <2>4. j \in created => pc[j] \in Finished
    BY <2>2 DEF CallerOK
  <2>5. pc[j] \in Deleting \cup Finished => j \in created
    BY <2>2 DEF CallerOK
  <2>6. pc[j] # "notified" /\ pc[j] # "unsubmitted"
    BY <2>1, <2>2 DEF JobOK
  <2> QED BY <2>1, <2>3, <2>4, <2>5, <2>6 DEF Settled, Deleting, Finished
<1> HIDE DEF Inv
<1> QED BY <1>1, <1>2, <1>3, Invariance, PTL DEF Spec
=============================================================================
