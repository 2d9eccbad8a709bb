------------------------------- MODULE E2E_proofs -------------------------------
(***************************************************************************)
(* Theorems about proxmox-vm-e2e for any number of VMs and any faults.       *)
(***************************************************************************)
EXTENDS E2E, TLAPS

USE E2EAssumption

\* Main leaves the verification: it begins the cleanup of a returned batch.
LEMMA ToCleanup ==
    ASSUME E2EInv, TypeOK', pc \in Verifying, UNCHANGED <<ssh_enabled, vm, outcome>>,
           exit_code' # 3, Cleanup(nat_mappings'),
           exit_code' = 0 => /\ \A i \in Vms : passed'[i] = Checks
                             /\ rules' \subseteq nat_mappings'
    PROVE  E2EInv'
<1>1. outcome = "returned" /\ (\A i \in Vms : vm[i] = "ready") /\ how = "running"
  BY DEF E2EInv, VerifyOK
<1>2. /\ pc' = IF nat_mappings' # {} THEN "unrule" ELSE "stop"
      /\ cur' = 1 /\ how' = how
  BY <1>1 DEF Cleanup
<1>3. CleanOK'
  <2>1. ~(\E i \in Vms : i < 1)
    BY DEF Vms
  <2> QED BY <1>1, <1>2, <2>1 DEF CleanOK, Cleaning, Checks
<1>4. VerifyOK' /\ SuccessMeansClean' /\ LeftOnlyIfReported'
  BY <1>2 DEF VerifyOK, Verifying, SuccessMeansClean, LeftOnlyIfReported
<1> QED BY <1>1, <1>2, <1>3, <1>4 DEF E2EInv, Verifying, Cleaning

\* Main goes on to the next VM or, after the last one, to the cleanup.
LEMMA ToNextVm ==
    ASSUME E2EInv, TypeOK', pc \in Verifying, UNCHANGED <<ssh_enabled, vm, outcome>>,
           exit_code' # 3, NextVm(nat_mappings'),
           exit_code' = 0 => /\ \A i \in Vms : i <= cur => passed'[i] = Checks
                             /\ \A i \in Vms : i > cur => passed'[i] = {}
                             /\ rules' \subseteq nat_mappings'
    PROVE  E2EInv'
<1>a. cur \in Vms
  BY DEF E2EInv, TypeOK
<1>1. CASE cur < NVms
  <2>1. cur' = cur + 1 /\ pc' = "agent" /\ how' = how /\ how = "running"
    BY <1>1 DEF NextVm, E2EInv
  <2>2. \A i \in Vms : (i < cur' => i <= cur) /\ (i >= cur' => i > cur)
    BY <1>a, <2>1 DEF Vms
  <2>3. cur' \in Vms /\ cur' >= cur' /\ \A i \in Vms : i > cur' => i >= cur'
    BY <1>a, <1>1, <2>1 DEF Vms
  <2>4. VerifyOK'
    BY <2>1, <2>2, <2>3 DEF E2EInv, VerifyOK, PassedBefore, Checks, Verifying
  <2>5. CleanOK' /\ SuccessMeansClean' /\ LeftOnlyIfReported'
    BY <2>1 DEF CleanOK, Cleaning, SuccessMeansClean, LeftOnlyIfReported
  <2> QED BY <2>1, <2>4, <2>5 DEF E2EInv, VerifyOK
<1>2. CASE ~(cur < NVms)
  <2>1. \A i \in Vms : i <= cur
    BY <1>a, <1>2 DEF Vms
  <2> QED BY <1>2, <2>1, ToCleanup DEF NextVm
<1> QED BY <1>1, <1>2

\* Main makes the next call of the verification of the same VM.
LEMMA ToNextCheck ==
    ASSUME E2EInv, TypeOK', pc \in Verifying, pc' \in Verifying,
           UNCHANGED <<ssh_enabled, cur, vm, outcome, nat_mappings, how>>,
           pc' \in {"nat", "ssh", "keep"} => ssh_enabled,
           exit_code' # 3,
           exit_code' = 0 =>
               /\ exit_code = 0
               /\ \A i \in Vms \ {cur} : passed'[i] = passed[i]
               /\ passed'[cur] = PassedBefore(pc')
               /\ rules' \subseteq nat_mappings \cup
                     (IF pc' \in {"ssh", "keep"} THEN {cur} ELSE {})
    PROVE  E2EInv'
<1>a. cur \in Vms /\ \A i \in Vms : i < cur \/ i > cur => i # cur
  BY DEF E2EInv, TypeOK, Vms
<1>1. VerifyOK'
  BY <1>a DEF E2EInv, VerifyOK, PassedBefore, Checks
<1>2. CleanOK' /\ SuccessMeansClean' /\ LeftOnlyIfReported'
  BY DEF CleanOK, Cleaning, Verifying, SuccessMeansClean, LeftOnlyIfReported
<1> QED BY <1>1, <1>2 DEF E2EInv, VerifyOK, Verifying

\* Main ends with a traceback, or without a VM of its own.
LEMMA ToReportedEnd ==
    ASSUME E2EInv, TypeOK', pc # "ended", pc' = "ended", exit_code' # 0,
           how' = "traceback" \/ outcome' # "returned",
           outcome' # "pending", how' # "setup"
    PROVE  E2EInv'
BY DEF E2EInv, VerifyOK, CleanOK, Verifying, Cleaning, SuccessMeansClean,
       LeftOnlyIfReported

LEMMA InitInv == Init => E2EInv
BY DEF Init, E2EInv, TypeOK, VerifyOK, CleanOK, Verifying, Cleaning, Checks, Vms,
       SuccessMeansClean, LeftOnlyIfReported, Batch!Init

LEMMA TypeStep == E2EInv /\ [Next]_vars => TypeOK'
<1> SUFFICES ASSUME E2EInv, TypeOK, [Next]_vars PROVE TypeOK'
  BY DEF E2EInv
<1> USE DEF TypeOK
<1>a. \A kept : Cleanup(kept) => /\ pc' \in {"unrule", "stop", "ended"}
                               /\ cur' \in Vms /\ how' \in {how, "exit"}
  BY DEF Cleanup, Vms
<1>b. \A kept : NextVm(kept) => /\ pc' \in {"agent", "unrule", "stop", "ended"}
                              /\ cur' \in Vms /\ how' \in {how, "exit"}
  BY <1>a DEF NextVm, Vms
<1>c. Traceback => pc' = "ended" /\ cur' = cur /\ how' = "traceback" /\ exit_code' = 1
  BY DEF Traceback
<1>d. \A c \in Checks : ssh_enabled' = ssh_enabled /\ Pass(c)
                          => passed' \in [Vms -> SUBSET Checks']
  BY DEF Pass, Checks
<1>e. {"agent", "ip", "exec", "info"} \subseteq Checks /\ (ssh_enabled => "ssh" \in Checks)
  BY DEF Checks
<1>1. CASE Main
  <2>1. ssh_enabled' = ssh_enabled /\ Checks' = Checks /\ unheard' \subseteq Vms
    BY <1>1 DEF Main, Checks, RemoveRules
  <2>0. CASE Setup
    BY <1>c, <2>1, <2>0 DEF Setup, Quit
  <2>2. CASE LaunchReturns
    BY <2>1, <2>2 DEF LaunchReturns, Batch!Return, Verifying
  <2>3. CASE LaunchRaises
    BY <1>a, <1>c, <2>1, <2>3 DEF LaunchRaises, Batch!Raise, Batch!Abandon,
       Cleaning
  <2>4. CASE Wait("agent", "ip") \/ Wait("ip", "exec")
    BY <1>b, <1>d, <1>e, <2>1, <2>4 DEF Wait, FailCheck, Verifying, Cleaning
  <2>5. CASE Exec \/ Info
    BY <1>b, <1>d, <1>e, <2>1, <2>5 DEF Exec, Info, Verifying, Cleaning
  <2>6. CASE VerifyRaises \/ RemoveRulesRaises
    BY <1>a, <1>c, <2>1, <2>6 DEF VerifyRaises, RemoveRulesRaises, Verifying, Cleaning
  <2>7. CASE AddRule
    BY <1>b, <2>1, <2>7 DEF AddRule, FailCheck, Verifying, Cleaning
  <2>8. CASE SshExec
    <3>1. pc = "ssh" /\ pc' = "keep"
      BY <2>8 DEF SshExec
    <3>2. passed' \in [Vms -> SUBSET Checks']
      <4>1. CASE passed' = passed
        BY <2>1, <4>1
      <4>2. CASE Pass("ssh")
        <5>1. ssh_enabled
          BY <3>1 DEF E2EInv, VerifyOK, Verifying
        <5> QED BY <1>d, <1>e, <2>1, <4>2, <5>1
      <4> QED BY <2>8, <4>1, <4>2 DEF SshExec
    <3> QED BY <2>1, <2>8, <3>1, <3>2 DEF SshExec, Verifying
  <2>9. CASE KeepMapping
    BY <1>b, <2>1, <2>9 DEF KeepMapping, Verifying, Cleaning
  <2>10. CASE RemoveRules \/ Stop \/ CleanupRaises
    BY <1>c, <2>1, <2>10 DEF RemoveRules, Stop, CleanupRaises, Cleaning
  <2>11. CASE Delete
    BY <2>1, <2>11 DEF Delete, Cleaning, Vms
  <2> QED BY <1>1, <2>0, <2>2, <2>3, <2>4, <2>5, <2>6, <2>7, <2>8, <2>9, <2>10, <2>11
          DEF Main
<1>2. CASE LaunchWorks
  BY <1>2 DEF LaunchWorks, Batch!Make, Batch!Finish, Batch!Lose, Batch!Step, Checks
<1>3. CASE Interrupt
  BY <1>3, <1>a DEF Interrupt, Checks, Cleaning
<1>4. CASE UncaughtInterrupt \/ Ended \/ UNCHANGED vars
  BY <1>4 DEF UncaughtInterrupt, Ended, vars, Checks
<1> QED BY <1>1, <1>2, <1>3, <1>4 DEF Next

LEMMA InvStep == E2EInv /\ [Next]_vars => E2EInv'
<1> SUFFICES ASSUME E2EInv, [Next]_vars PROVE E2EInv'
  OBVIOUS
<1>t. TypeOK /\ TypeOK'
  BY TypeStep DEF E2EInv
<1>1. CASE Main
  <2>a. ssh_enabled' = ssh_enabled /\ Checks' = Checks
    BY <1>1 DEF Main, Checks
  <2>b. Traceback /\ pc \in Verifying \cup Cleaning /\ outcome' = outcome => E2EInv'
    BY <1>t, ToReportedEnd DEF Traceback, E2EInv, VerifyOK, CleanOK, Verifying, Cleaning
  <2>0. CASE Setup
    <3>1. /\ pc = "setup" /\ UNCHANGED <<vm, outcome, rules, nat_mappings, passed>>
          /\ \/ pc' = "launch" /\ UNCHANGED <<cur, exit_code, how>>
             \/ pc' = "ended" /\ how' = "setup" /\ exit_code' \in {0, 1} /\ UNCHANGED cur
             \/ pc' = "ended" /\ how' = "traceback" /\ exit_code' = 1 /\ UNCHANGED cur
      BY <2>0 DEF Setup, Quit, Traceback
    <3>2. VerifyOK' /\ CleanOK'
      BY <3>1 DEF VerifyOK, CleanOK, Verifying, Cleaning
    <3> QED BY <1>t, <3>1, <3>2 DEF E2EInv, Verifying, Cleaning, SuccessMeansClean,
               LeftOnlyIfReported
  <2>1. CASE LaunchReturns
    <3>1. /\ outcome' = "returned" /\ vm' = vm /\ pc' = "agent" /\ cur' = cur
          /\ \A i \in Vms : vm[i] = "ready"
          /\ UNCHANGED <<rules, nat_mappings, passed, exit_code, how>>
      BY <2>1 DEF LaunchReturns, Batch!Return
    <3>2. cur = 1
      BY <2>1 DEF LaunchReturns, E2EInv
    <3>3. VerifyOK'
      BY <2>1, <2>a, <3>1, <3>2, <1>t
         DEF LaunchReturns, E2EInv, VerifyOK, PassedBefore, Vms
    <3> QED BY <1>t, <2>1, <3>1, <3>3 DEF LaunchReturns, E2EInv, CleanOK, Verifying,
               Cleaning, SuccessMeansClean, LeftOnlyIfReported
  <2>2. CASE LaunchRaises
    <3>1. outcome' \in {"raised", "abandoned"} /\ pc = "launch"
      BY <2>2 DEF LaunchRaises, Batch!Raise, Batch!Abandon
    <3>2. pc' = "ended" /\ exit_code' # 0 /\ how' # "setup"
      BY <2>2, <3>1 DEF LaunchRaises, Cleanup, Traceback, Batch!Raise, Batch!Abandon
    <3> QED BY <1>t, <3>1, <3>2, ToReportedEnd
  <2>3. ASSUME NEW c \in {"agent", "ip"}, NEW d \in {"ip", "exec"},
               c = "agent" <=> d = "ip", Wait(c, d)
        PROVE  E2EInv'
    <3>1. pc = c /\ UNCHANGED <<vm, outcome, rules, nat_mappings>>
      BY <2>3 DEF Wait
    <3>2. CASE Pass(c) /\ pc' = d /\ UNCHANGED <<cur, exit_code, how>>
      BY <1>t, <2>3, <2>a, <3>1, <3>2, ToNextCheck
         DEF Pass, TypeOK, PassedBefore, E2EInv, VerifyOK, Verifying
    <3>3. CASE FailCheck
      BY <1>t, <2>3, <2>a, <3>1, <3>3, ToNextVm DEF FailCheck, Verifying
    <3> QED BY <2>3, <3>2, <3>3 DEF Wait
  <2>4. CASE Exec
    BY <1>t, <2>4, <2>a, ToNextCheck
       DEF Exec, Pass, TypeOK, PassedBefore, E2EInv, VerifyOK, Verifying
  <2>5. CASE Info
    <3>1. /\ pc = "info" /\ Pass("info")
          /\ UNCHANGED <<vm, outcome, rules, nat_mappings, exit_code>>
      BY <2>5 DEF Info
    <3>2. CASE ssh_enabled
      BY <1>t, <2>5, <2>a, <3>1, <3>2, ToNextCheck
         DEF Info, Pass, TypeOK, PassedBefore, E2EInv, VerifyOK, Verifying
    <3>3. CASE ~ssh_enabled
      <4>1. NextVm(nat_mappings')
        BY <2>5, <3>1, <3>3 DEF Info
      <4>2. exit_code = 0 => passed'[cur] = Checks
        BY <1>t, <3>1, <3>3 DEF Pass, TypeOK, PassedBefore, E2EInv, VerifyOK,
           Verifying, Checks
      <4>3. \A i \in Vms \ {cur} : passed'[i] = passed[i]
        BY <1>t, <3>1 DEF Pass, TypeOK
      <4>4. exit_code' = 0 =>
                /\ \A i \in Vms : i <= cur => passed'[i] = Checks
                /\ \A i \in Vms : i > cur => passed'[i] = {}
                /\ rules' \subseteq nat_mappings'
        BY <1>t, <3>1, <4>2, <4>3 DEF E2EInv, VerifyOK, Verifying, Vms, TypeOK
      <4> QED BY <1>t, <2>a, <3>1, <4>1, <4>4, ToNextVm DEF Verifying, E2EInv
    <3> QED BY <3>2, <3>3
  <2>6. CASE VerifyRaises
    <3>1. /\ pc \in {"exec", "info"}
          /\ UNCHANGED <<vm, outcome, rules, nat_mappings, passed>>
      BY <2>6 DEF VerifyRaises
    <3>2. CASE exit_code' = 2 /\ Cleanup(nat_mappings)
      BY <1>t, <2>a, <3>1, <3>2, ToCleanup DEF Verifying
    <3> QED BY <2>6, <2>b, <3>1, <3>2 DEF VerifyRaises, Verifying
  <2>7. CASE AddRule
    <3>1. pc = "nat" /\ UNCHANGED <<vm, outcome, nat_mappings, passed>>
      BY <2>7 DEF AddRule
    <3>2. CASE /\ rules' \in {rules, rules \cup {cur}} /\ pc' = "ssh"
               /\ UNCHANGED <<cur, exit_code, how>>
      BY <1>t, <2>a, <3>1, <3>2, ToNextCheck
         DEF TypeOK, PassedBefore, E2EInv, VerifyOK, Verifying
    <3>3. CASE FailCheck
      BY <1>t, <2>a, <3>1, <3>3, ToNextVm DEF FailCheck, Verifying
    <3> QED BY <2>7, <3>2, <3>3 DEF AddRule
  <2>8. CASE SshExec
    <3>1. /\ pc = "ssh" /\ pc' = "keep"
          /\ UNCHANGED <<cur, vm, outcome, rules, nat_mappings, how>>
          /\ \/ Pass("ssh") /\ UNCHANGED exit_code
             \/ exit_code' = 1 /\ UNCHANGED passed
      BY <2>8 DEF SshExec
    <3>2. ssh_enabled
      BY <3>1 DEF E2EInv, VerifyOK, Verifying
    <3>3. exit_code' = 0 => /\ exit_code = 0
                            /\ \A i \in Vms \ {cur} : passed'[i] = passed[i]
                            /\ passed'[cur] = Checks
      BY <1>t, <3>1, <3>2 DEF Pass, TypeOK, PassedBefore, E2EInv, VerifyOK, Verifying,
         Checks
    <3>4. exit_code' # 3
      BY <3>1 DEF E2EInv
    <3>5. exit_code = 0 => rules \subseteq nat_mappings \cup {cur}
      BY <3>1 DEF E2EInv, VerifyOK, Verifying
    <3>6. PassedBefore(pc') = Checks
      BY <3>1 DEF PassedBefore
    <3> QED BY <1>t, <2>a, <3>1, <3>2, <3>3, <3>4, <3>5, <3>6, ToNextCheck DEF Verifying
  <2>9. CASE KeepMapping
    <3>1. /\ pc = "keep" /\ nat_mappings' = nat_mappings \cup {cur}
          /\ NextVm(nat_mappings')
          /\ UNCHANGED <<vm, outcome, rules, passed, exit_code>>
      BY <2>9 DEF KeepMapping
    <3>2. exit_code = 0 => /\ passed[cur] = Checks
                           /\ rules \subseteq nat_mappings'
      BY <3>1 DEF PassedBefore, E2EInv, VerifyOK, Verifying
    <3>3. exit_code' = 0 => /\ \A i \in Vms : i <= cur => passed'[i] = Checks
                            /\ \A i \in Vms : i > cur => passed'[i] = {}
                            /\ rules' \subseteq nat_mappings'
      BY <1>t, <3>1, <3>2 DEF E2EInv, VerifyOK, Verifying, Vms, TypeOK
    <3> QED BY <1>t, <2>a, <3>1, <3>3, ToNextVm DEF Verifying, E2EInv
  <2>10. CASE RemoveRules
    <3>1. cur = 1
      BY <2>10 DEF RemoveRules, E2EInv, CleanOK, Cleaning
    <3>2. CleanOK'
      BY <2>10, <2>a, <3>1, <1>t
         DEF RemoveRules, E2EInv, CleanOK, Cleaning, Vms, TypeOK
    <3> QED BY <1>t, <2>10, <3>2 DEF RemoveRules, E2EInv, VerifyOK, CleanOK, Verifying,
               Cleaning, SuccessMeansClean, LeftOnlyIfReported
  <2>11. CASE RemoveRulesRaises
    BY <2>11, <2>b DEF RemoveRulesRaises, Cleaning
  <2>12. CASE Stop
    <3>0. unheard' = unheard
      BY <1>1, <2>12 DEF Main, RemoveRules, Stop
    <3>1. CleanOK'
      BY <2>12, <2>a, <1>t, <3>0 DEF Stop, E2EInv, CleanOK, Cleaning, TypeOK, Vms
    <3> QED BY <1>t, <2>12, <3>1 DEF Stop, E2EInv, VerifyOK, CleanOK, Verifying,
               Cleaning, SuccessMeansClean, LeftOnlyIfReported
  <2>13. CASE Delete
    <3>1. /\ pc = "delete" /\ vm' = [vm EXCEPT ![cur] = "gone"]
          /\ UNCHANGED <<outcome, rules, nat_mappings, passed, exit_code>>
      BY <2>13 DEF Delete
    <3>2. /\ outcome = "returned" /\ exit_code # 3 /\ how = "running"
          /\ nat_mappings \cap rules \subseteq unheard /\ unheard' = unheard
          /\ \A i \in Vms : i < cur => vm[i] = "gone"
          /\ \A i \in Vms : i > cur => vm[i] = "ready"
          /\ exit_code = 0 => /\ \A i \in Vms : passed[i] = Checks
                              /\ rules \subseteq nat_mappings
      BY <1>1, <2>13, <3>1 DEF E2EInv, CleanOK, Cleaning, Main, RemoveRules
    <3>3. \A i \in Vms : i <= cur => vm'[i] = "gone"
      BY <1>t, <3>1, <3>2 DEF TypeOK, Vms
    <3>4. CASE cur < NVms
      <4>1. cur' = cur + 1 /\ pc' = "stop" /\ how' = how
        BY <2>13, <3>4 DEF Delete
      <4>2. /\ \A i \in Vms : i < cur' => i <= cur
            /\ \A i \in Vms : i > cur' => i > cur /\ vm'[i] = vm[i]
        BY <1>t, <3>1, <4>1 DEF TypeOK, Vms
      <4>3. CleanOK'
        BY <2>a, <3>1, <3>2, <3>3, <4>1, <4>2 DEF CleanOK
      <4> QED BY <1>t, <3>1, <3>2, <4>1, <4>3 DEF E2EInv, VerifyOK, Verifying,
                 Cleaning, SuccessMeansClean, LeftOnlyIfReported
    <3>5. CASE ~(cur < NVms)
      <4>1. \A i \in Vms : vm'[i] = "gone"
        BY <1>t, <3>3, <3>5 DEF TypeOK, Vms
      <4>2. pc' = "ended" /\ how' = "exit"
        BY <2>13, <3>5 DEF Delete
      <4>3. SuccessMeansClean' /\ LeftOnlyIfReported'
        BY <2>a, <3>1, <3>2, <4>1, <4>2 DEF SuccessMeansClean, LeftOnlyIfReported
      <4> QED BY <1>t, <3>1, <3>2, <4>2, <4>3
              DEF E2EInv, VerifyOK, CleanOK, Verifying, Cleaning
    <3> QED BY <3>4, <3>5
  <2>14. CASE CleanupRaises
    <3>1. /\ pc \in {"stop", "delete"} /\ pc' = "ended"
          /\ UNCHANGED <<outcome, rules, nat_mappings, unheard>>
          /\ (exit_code' = 3 /\ how' = "exit") \/ Traceback
      BY <1>1, <2>14 DEF CleanupRaises, Traceback, Main, RemoveRules
    <3>2. CASE exit_code' = 3 /\ how' = "exit"
      <4>1. \A i \in Vms : i # cur => vm'[i] = vm[i]
        BY <1>t, <2>14 DEF CleanupRaises, TypeOK
      <4>2. /\ outcome = "returned" /\ nat_mappings \cap rules \subseteq unheard
            /\ \A i \in Vms : (i < cur => vm[i] = "gone") /\ (i > cur => vm[i] = "ready")
        BY <3>1 DEF E2EInv, CleanOK, Cleaning
      <4>3. cur \in Vms /\ \A i \in Vms : i < cur \/ i > cur => i # cur
        BY <1>t DEF TypeOK, Vms
      <4>4. LeftOnlyIfReported'
        BY <3>1, <3>2, <4>1, <4>2, <4>3 DEF LeftOnlyIfReported
      <4> QED BY <1>t, <3>1, <3>2, <4>2, <4>4
              DEF E2EInv, VerifyOK, CleanOK, Verifying, Cleaning, SuccessMeansClean
    <3> QED BY <2>b, <3>1, <3>2 DEF Cleaning
  <2> QED BY <1>1, <2>0, <2>1, <2>2, <2>3, <2>4, <2>5, <2>6, <2>7, <2>8, <2>9, <2>10,
             <2>11, <2>12, <2>13, <2>14 DEF Main
<1>2. CASE LaunchWorks
  <2>1. /\ outcome # "returned" /\ outcome' = outcome
        /\ UNCHANGED <<ssh_enabled, pc, cur, rules, nat_mappings, unheard, passed,
                       exit_code, how>>
    BY <1>2 DEF LaunchWorks, Batch!Make, Batch!Finish, Batch!Lose, Batch!Step
  <2>2. pc = "launch" \/ (pc = "ended" /\ exit_code # 0 /\ outcome \in {"raised", "abandoned"})
    BY <1>2 DEF LaunchWorks, E2EInv
  <2> QED BY <1>t, <2>1, <2>2 DEF E2EInv, VerifyOK, CleanOK, Verifying, Cleaning,
             SuccessMeansClean, LeftOnlyIfReported
<1>3. CASE Interrupt
  BY <1>t, <1>3, ToCleanup DEF Interrupt
<1>4. CASE UncaughtInterrupt
  <2>1. /\ pc \in Cleaning \cup {"setup"}
        /\ pc' = "ended" /\ how' = "traceback" /\ exit_code' = 130
        /\ UNCHANGED <<ssh_enabled, cur, vm, outcome, rules, nat_mappings, unheard, passed>>
    BY <1>4 DEF UncaughtInterrupt
  <2>2. CASE pc = "setup"
    <3>1. VerifyOK' /\ CleanOK'
      BY <2>1 DEF VerifyOK, CleanOK, Verifying, Cleaning
    <3> QED BY <1>t, <2>1, <2>2, <3>1 DEF E2EInv, Verifying, Cleaning,
               SuccessMeansClean, LeftOnlyIfReported
  <2>3. CASE pc \in Cleaning
    <3>1. outcome = "returned" /\ pc # "ended"
      BY <2>3 DEF E2EInv, CleanOK, Cleaning
    <3> QED BY <1>t, <2>1, <3>1, ToReportedEnd
  <2> QED BY <2>1, <2>2, <2>3
<1>5. CASE Ended \/ UNCHANGED vars
  <2> USE <1>5 DEF Ended, vars
  <2>1. Checks' = Checks
    BY DEF Checks
  <2>2. VerifyOK' = VerifyOK
    <3>1. PassedBefore(pc)' = PassedBefore(pc)
      BY <2>1 DEF PassedBefore
    <3>2. pc' = pc /\ vm' = vm /\ cur' = cur /\ passed' = passed /\ rules' = rules
      OBVIOUS
    <3>3. UNCHANGED <<ssh_enabled, outcome, nat_mappings, exit_code>>
      OBVIOUS
    <3> QED BY ONLY <2>1, <3>1, <3>2, <3>3 DEF VerifyOK
  <2>3. CleanOK' = CleanOK
    BY <2>1 DEF CleanOK
  <2>4. SuccessMeansClean' = SuccessMeansClean
    BY <2>1 DEF SuccessMeansClean
  <2>5. LeftOnlyIfReported' = LeftOnlyIfReported
    BY DEF LeftOnlyIfReported
  <2> QED BY <1>t, <2>2, <2>3, <2>4, <2>5 DEF E2EInv
<1> QED BY <1>1, <1>2, <1>3, <1>4, <1>5 DEF Next

-----------------------------------------------------------------------------
(* The theorems *)

\* How far main has come determines what has passed and what is left.
THEOREM Invariance == Spec => []E2EInv
BY InitInv, InvStep, PTL DEF Spec

\* Exit status 0 means that every VM passed every check and nothing is left but
\* rules whose removal failed without a word (e2e.py:398-404, _backend.py:203).
THEOREM SuccessIsClean == Spec => []SuccessMeansClean
<1>1. E2EInv => SuccessMeansClean
  BY DEF E2EInv
<1> QED BY <1>1, Invariance, PTL

\* What launch_many returned is deleted, whatever happens while it is verified;
\* where the status says that the cleanup failed, all but the VM it failed at and
\* those after it; only a traceback leaves more (e2e.py:371-396).
THEOREM LeftoversAreReported == Spec => []LeftOnlyIfReported
<1>1. E2EInv => LeftOnlyIfReported
  BY DEF E2EInv
<1> QED BY <1>1, Invariance, PTL

\* The forwarding rules go, as far as main is told, before the VMs they point to
\* (e2e.py:384-391).
THEOREM RulesBeforeVms == Spec => RulesGoFirst
<1> DEFINE Safe == \A i \in Vms : vm[i] = "ready" /\ vm'[i] = "stopped"
                     => i \notin (nat_mappings \cap rules) \ unheard
<1>1. E2EInv /\ [Next]_vars => [Safe]_vars
  <2> SUFFICES ASSUME E2EInv, [Next]_vars, NEW i \in Vms,
                      vm[i] = "ready", vm'[i] = "stopped"
               PROVE  i \notin (nat_mappings \cap rules) \ unheard
    OBVIOUS
  <2>1. CASE pc = "stop"
    BY <2>1 DEF E2EInv, CleanOK, Cleaning
  <2>2. CASE pc # "stop"
    <3>1. ~Stop
      BY <2>2 DEF Stop
    <3>2. CASE Delete
      BY <3>2 DEF Delete, E2EInv, TypeOK
    <3>3. CASE LaunchWorks
      BY <3>3 DEF LaunchWorks, Batch!Make, Batch!Finish, Batch!Lose, Batch!Step,
         E2EInv, TypeOK
    <3>4. CASE CleanupRaises
      BY <2>2, <3>4 DEF CleanupRaises, E2EInv, TypeOK
    <3> QED BY <3>1, <3>2, <3>3, <3>4 DEF Next, Main, LaunchReturns, LaunchRaises,
        Batch!Return, Batch!Raise, Batch!Abandon, Setup, Wait, Exec, Info, VerifyRaises,
        AddRule, SshExec, KeepMapping, RemoveRules, RemoveRulesRaises, Interrupt,
        UncaughtInterrupt, Ended, vars
  <2> QED BY <2>1, <2>2
<1> QED BY <1>1, Invariance, PTL DEF Spec, RulesGoFirst
=============================================================================
