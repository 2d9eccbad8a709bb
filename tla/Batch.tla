--------------------------------- MODULE Batch ---------------------------------
(***************************************************************************)
(* What the callers of launch_many can count on: every config is cloned at   *)
(* most once, a VM that is gone stays gone, and a call that returns has      *)
(* finished them all and leaves them alone from then on.  A call that raises *)
(* promises nothing of the VMs it made, and may still lose some of them, but *)
(* makes no more; one that is abandoned, interrupted while it waits for its  *)
(* threads, has left them at work.                                           *)
(***************************************************************************)
CONSTANT Jobs     \* the configs of the batch

VARIABLES
    vm,           \* vm[j]: what has become of the VM of config j
    outcome       \* how launch_many has ended

vars == <<vm, outcome>>

Init == vm = [j \in Jobs |-> "none"] /\ outcome = "pending"

Step(j, from, to) ==
    /\ vm[j] \in from
    /\ vm' = [vm EXCEPT ![j] = to]
    /\ UNCHANGED outcome

Make(j) == outcome \in {"pending", "abandoned"} /\ Step(j, {"none"}, "made")
\* Every part of the config has been applied; a late start may end after a raise.
Finish(j) == outcome # "returned" /\ Step(j, {"made"}, "ready")
\* Its clone has failed, or it has been rolled back.
Lose(j) == outcome # "returned" /\ Step(j, {"made", "ready"}, "gone")

Return ==
    /\ outcome = "pending" /\ \A j \in Jobs : vm[j] = "ready"
    /\ outcome' = "returned" /\ UNCHANGED vm

Raise == outcome = "pending" /\ outcome' = "raised" /\ UNCHANGED vm
Abandon == outcome = "pending" /\ outcome' = "abandoned" /\ UNCHANGED vm

Next == Return \/ Raise \/ Abandon \/ \E j \in Jobs : Make(j) \/ Finish(j) \/ Lose(j)

Spec == Init /\ [][Next]_vars
=============================================================================
