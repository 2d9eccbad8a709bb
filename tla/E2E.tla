---------------------------------- MODULE E2E ----------------------------------
(***************************************************************************)
(* proxmox-vm-e2e (e2e.py): main reads its arguments, launches a batch of   *)
(* VMs, verifies each one through the guest agent and, when an SSH key is    *)
(* available, through a NAT rule, then removes the rules and deletes the     *)
(* VMs.  launch_many runs as the Batch it implements; every later step is    *)
(* one call of the SDK with the outcomes Waits and Routing allow it; the     *)
(* user may interrupt the program between any two.                           *)
(***************************************************************************)
EXTENDS Integers

CONSTANTS
    NVms,        \* the number of configs, n
    Faults       \* which kinds of failure happen in this instance

Vms == 1..NVms
FaultKinds == {"launch",    \* launch_many raises
               "check",     \* a check fails or times out
               "proxmox",   \* a call of verification raises a ProxmoxError
               "cleanup",   \* a call of the cleanup raises a ProxmoxError
               "other",     \* a call raises another exception
               "nat",       \* add_rules raises
               "silent",    \* a rule call returns, the mv of its write has failed
               "interrupt"} \* KeyboardInterrupt

ASSUME E2EAssumption ==
    /\ NVms \in Nat \ {0}
    /\ Faults \subseteq FaultKinds

VARIABLES
    ssh_enabled,   \* whether the key files were found
    pc,            \* the call main makes next
    cur,           \* the VM main is at
    vm,            \* vm[i]: the i-th VM of the batch, "stopped" by the cleanup
    outcome,       \* how launch_many has ended: vms is empty unless "returned"
    rules,         \* the VMs that have a rule in the interfaces file
    nat_mappings,  \* the VMs whose mapping main has kept
    unheard,       \* the kept mappings whose removal has failed without a word
    passed,        \* the checks each VM has passed
    exit_code,
    how            \* whether main ended by SystemExit, before or after launching, or
                   \* by a traceback

vars == <<ssh_enabled, pc, cur, vm, outcome, rules, nat_mappings, unheard,
          passed, exit_code, how>>

Batch == INSTANCE Batch WITH Jobs <- Vms

Checks == {"agent", "ip", "exec", "info"} \cup (IF ssh_enabled THEN {"ssh"} ELSE {})
Verifying == {"agent", "ip", "exec", "info", "nat", "ssh", "keep"}
Cleaning == {"unrule", "stop", "delete"}

Init ==
    /\ ssh_enabled \in BOOLEAN
    /\ pc = "setup" /\ cur = 1
    /\ Batch!Init
    /\ rules = {} /\ nat_mappings = {} /\ unheard = {}
    /\ passed = [i \in Vms |-> {}]
    /\ exit_code = 0 /\ how = "running"

Pass(check) == passed' = [passed EXCEPT ![cur] = @ \cup {check}]

\* Mutant of Cleanup: only a clean verification is cleaned up
CleanupOnSuccess(kept) ==
    IF outcome = "returned" /\ exit_code = 0
    THEN pc' = (IF kept # {} THEN "unrule" ELSE "stop") /\ cur' = 1 /\ how' = how
    ELSE pc' = "ended" /\ how' = "exit" /\ UNCHANGED cur

\* Past the except clauses: "if vms" and "if nat_mappings".
Cleanup(kept) ==
    IF outcome = "returned"
    THEN pc' = (IF kept # {} THEN "unrule" ELSE "stop") /\ cur' = 1 /\ how' = how
    ELSE pc' = "ended" /\ how' = "exit" /\ UNCHANGED cur

NextVm(kept) ==
    IF cur < NVms THEN cur' = cur + 1 /\ pc' = "agent" /\ UNCHANGED how
                  ELSE Cleanup(kept)

\* A check has failed: main goes on with the next VM and exits with 1.
FailCheck == exit_code' = 1 /\ NextVm(nat_mappings)

\* An exception main does not catch: Python exits with a traceback.
Traceback ==
    /\ pc' = "ended" /\ how' = "traceback" /\ exit_code' = 1
    /\ UNCHANGED cur

-----------------------------------------------------------------------------
(* Arguments and environment *)

\* The command line and the environment; misfit: JSON whose items are not the
\* fields of a VmConfig.  Other counts than NVms are other instances.
Arguments == [configs : {"none", "valid", "misfit", "invalid"}, count : {0, 1, NVms},
              template : BOOLEAN, list : BOOLEAN, env : BOOLEAN]

Usable(a) == a.count >= 1 /\ (a.configs # "none" => a.count = 1) /\ a.env

Quit(code) == pc' = "ended" /\ how' = "setup" /\ exit_code' = code /\ UNCHANGED cur

\* What is wrong with the arguments ends main before it launches anything, and so
\* does --list-templates, with status 0.  No exception is caught yet.
Setup ==
    /\ pc = "setup"
    /\ \E a \in Arguments :
         \/ ~Usable(a) /\ Quit(1)
         \/ Usable(a) /\ {"proxmox", "other"} \cap Faults # {} /\ Traceback
         \/ Usable(a) /\ a.list /\ Quit(0)
         \/ /\ Usable(a) /\ ~a.list
            /\ \/ a.configs = "invalid" /\ Quit(1)
               \/ a.configs = "misfit" /\ Traceback
               \/ a.configs = "none" /\ ~a.template /\ Quit(1)
               \/ /\ a.configs = "valid" \/ (a.configs = "none" /\ a.template /\ a.count = NVms)
                  /\ pc' = "launch" /\ UNCHANGED <<cur, exit_code, how>>
    /\ UNCHANGED <<vm, outcome, rules, nat_mappings, passed>>

-----------------------------------------------------------------------------
(* [1/3] launch *)

LaunchReturns ==
    /\ pc = "launch" /\ Batch!Return
    /\ pc' = "agent"
    /\ UNCHANGED <<cur, rules, nat_mappings, passed, exit_code, how>>

\* launch_many raises, and leaves VMs of its own behind; interrupted while it waits
\* for its threads, it leaves these at work as well, and they go on after main.
LaunchRaises ==
    /\ pc = "launch"
    /\ \/ /\ "launch" \in Faults /\ Batch!Raise
          /\ (exit_code' = 2 /\ Cleanup({})) \/ ("other" \in Faults /\ Traceback)
       \/ /\ "interrupt" \in Faults /\ (Batch!Raise \/ Batch!Abandon)
          /\ exit_code' = 130 /\ Cleanup({})
    /\ UNCHANGED <<rules, nat_mappings, passed>>

\* What the threads of launch_many do, and its late tasks after it has raised.
LaunchWorks ==
    /\ pc = "launch" \/ outcome \in {"raised", "abandoned"}
    /\ \E i \in Vms : Batch!Make(i) \/ Batch!Finish(i) \/ Batch!Lose(i)
    /\ UNCHANGED <<ssh_enabled, pc, cur, rules, nat_mappings, unheard, passed,
                   exit_code, how>>

-----------------------------------------------------------------------------
(* [2/3] _verify_vm and _verify_ssh *)

\* wait_for_agent and wait_for_ip raise nothing but their timeout.
Wait(check, next) ==
    /\ pc = check
    /\ \/ Pass(check) /\ pc' = next /\ UNCHANGED <<cur, exit_code, how>>
       \/ "check" \in Faults /\ FailCheck /\ UNCHANGED passed
    /\ UNCHANGED <<vm, outcome, rules, nat_mappings>>

\* A command that fails makes _verify_vm return 1 in the end; nothing that comes
\* before can tell that from setting exit_code here.
Exec ==
    /\ pc = "exec"
    /\ \/ Pass("exec") /\ UNCHANGED exit_code
       \/ "check" \in Faults /\ exit_code' = 1 /\ UNCHANGED passed
    /\ pc' = "info"
    /\ UNCHANGED <<cur, vm, outcome, rules, nat_mappings, how>>

Info ==
    /\ pc = "info" /\ Pass("info")
    /\ IF ssh_enabled THEN pc' = "nat" /\ UNCHANGED <<cur, how>>
                      ELSE NextVm(nat_mappings)
    /\ UNCHANGED <<vm, outcome, rules, nat_mappings, exit_code>>

\* exec or info raises: a ProxmoxError ends the verification of all VMs.
VerifyRaises ==
    /\ pc \in {"exec", "info"}
    /\ \/ "proxmox" \in Faults /\ exit_code' = 2 /\ Cleanup(nat_mappings)
       \/ "other" \in Faults /\ Traceback
    /\ UNCHANGED <<vm, outcome, rules, nat_mappings, passed>>

\* Mutant of AddRule: a NAT failure is only printed
AddRuleUnreported ==
    /\ pc = "nat"
    /\ \/ /\ rules' = rules \cup {cur} /\ pc' = "ssh"
          /\ UNCHANGED <<cur, exit_code, how>>
       \/ /\ "nat" \in Faults
          /\ rules' \in {rules, rules \cup {cur}}
          /\ NextVm(nat_mappings) /\ UNCHANGED exit_code
    /\ UNCHANGED <<vm, outcome, nat_mappings, passed>>

\* add_rules may raise before or after it has written the rule, and may return
\* without having written it: write_file does not look at mv's exit code.
AddRule ==
    /\ pc = "nat"
    /\ \/ /\ \/ rules' = rules \cup {cur}
             \/ "silent" \in Faults /\ UNCHANGED rules
          /\ pc' = "ssh"
          /\ UNCHANGED <<cur, exit_code, how>>
       \/ /\ "nat" \in Faults
          /\ rules' \in {rules, rules \cup {cur}}
          /\ FailCheck
    /\ UNCHANGED <<vm, outcome, nat_mappings, passed>>

SshExec ==
    /\ pc = "ssh"
    /\ \/ Pass("ssh") /\ UNCHANGED exit_code
       \/ "check" \in Faults /\ exit_code' = 1 /\ UNCHANGED passed
    /\ pc' = "keep"
    /\ UNCHANGED <<cur, vm, outcome, rules, nat_mappings, how>>

KeepMapping ==
    /\ pc = "keep"
    /\ nat_mappings' = nat_mappings \cup {cur}
    /\ NextVm(nat_mappings')
    /\ UNCHANGED <<vm, outcome, rules, passed, exit_code>>

\* Mutant of Interrupt: an interrupt is only printed
InterruptUnreported ==
    /\ "interrupt" \in Faults /\ pc \in Verifying
    /\ Cleanup(nat_mappings)
    /\ UNCHANGED <<ssh_enabled, vm, outcome, rules, nat_mappings, unheard, passed,
                   exit_code>>

Interrupt ==
    /\ "interrupt" \in Faults /\ pc \in Verifying
    /\ exit_code' = 130
    /\ Cleanup(nat_mappings)
    /\ UNCHANGED <<ssh_enabled, vm, outcome, rules, nat_mappings, unheard, passed>>

-----------------------------------------------------------------------------
(* [3/3] cleanup *)

\* Mutant of RemoveRules: only one mapping is passed on
RemoveOneRule ==
    /\ pc = "unrule"
    /\ rules' = rules \ {cur}
    /\ pc' = "stop"
    /\ UNCHANGED <<cur, vm, outcome, nat_mappings, unheard, passed, exit_code, how>>

\* remove_rules writes the file once.  If the mv of that write fails, it returns
\* all the same, and every kept rule is still there (_backend.py:203).
RemoveRules ==
    /\ pc = "unrule"
    /\ \/ rules' = rules \ nat_mappings /\ UNCHANGED unheard
       \/ /\ "silent" \in Faults
          /\ unheard' = nat_mappings \cap rules /\ UNCHANGED rules
    /\ pc' = "stop"
    /\ UNCHANGED <<cur, vm, outcome, nat_mappings, passed, exit_code, how>>

\* SSH errors are not ProxmoxErrors: they leave main, before or after the file
\* has been written.
RemoveRulesRaises ==
    /\ pc = "unrule" /\ "other" \in Faults
    /\ rules' \in {rules, rules \ nat_mappings}
    /\ Traceback
    /\ UNCHANGED <<vm, outcome, nat_mappings, passed>>

Stop ==
    /\ pc = "stop"
    /\ vm' = [vm EXCEPT ![cur] = "stopped"]
    /\ pc' = "delete"
    /\ UNCHANGED <<cur, outcome, rules, nat_mappings, passed, exit_code, how>>

Delete ==
    /\ pc = "delete"
    /\ vm' = [vm EXCEPT ![cur] = "gone"]
    /\ IF cur < NVms THEN cur' = cur + 1 /\ pc' = "stop" /\ UNCHANGED how
                     ELSE pc' = "ended" /\ how' = "exit" /\ UNCHANGED cur
    /\ UNCHANGED <<outcome, rules, nat_mappings, passed, exit_code>>

\* The first call that raises ends the cleanup; its task may have been done, or be
\* given up by the wait only.
CleanupRaises ==
    /\ pc \in {"stop", "delete"}
    /\ \/ UNCHANGED vm
       \/ vm' = [vm EXCEPT ![cur] = IF pc = "stop" THEN "stopped" ELSE "gone"]
    /\ \/ /\ "cleanup" \in Faults
          /\ exit_code' = 3 /\ pc' = "ended" /\ how' = "exit" /\ UNCHANGED cur
       \/ "other" \in Faults /\ Traceback
    /\ UNCHANGED <<outcome, rules, nat_mappings, passed>>

\* Outside the try statement Python ends with SIGINT's status, 130.
UncaughtInterrupt ==
    /\ "interrupt" \in Faults /\ pc \in Cleaning \cup {"setup"}
    /\ pc' = "ended" /\ how' = "traceback" /\ exit_code' = 130
    /\ UNCHANGED <<ssh_enabled, cur, vm, outcome, rules, nat_mappings, unheard, passed>>

Main ==
    /\ \/ RemoveRules
       \/ /\ \/ Setup \/ LaunchReturns \/ LaunchRaises
             \/ Wait("agent", "ip") \/ Wait("ip", "exec") \/ Exec \/ Info \/ VerifyRaises
             \/ AddRule \/ SshExec \/ KeepMapping
             \/ RemoveRulesRaises
             \/ Stop \/ Delete \/ CleanupRaises
          /\ UNCHANGED unheard
    /\ UNCHANGED ssh_enabled

Ended == pc = "ended" /\ UNCHANGED vars

Next == Main \/ LaunchWorks \/ Interrupt \/ UncaughtInterrupt \/ Ended
Spec == Init /\ [][Next]_vars

-----------------------------------------------------------------------------
(* Properties *)

TypeOK ==
    /\ ssh_enabled \in BOOLEAN
    /\ pc \in {"setup", "launch", "ended"} \cup Verifying \cup Cleaning
    /\ cur \in Vms
    /\ vm \in [Vms -> {"none", "made", "ready", "gone", "stopped"}]
    /\ rules \subseteq Vms
    /\ outcome \in {"pending", "returned", "raised", "abandoned"}
    /\ nat_mappings \subseteq Vms
    /\ unheard \subseteq Vms
    /\ passed \in [Vms -> SUBSET Checks]
    /\ exit_code \in {0, 1, 2, 3, 130}
    /\ how \in {"running", "exit", "setup", "traceback"}

\* "SUCCESS - n VM(s) completed full lifecycle" (e2e.py:400, 182): status 0 means
\* that every VM passed every check and that no VM is left, nor a rule but one
\* whose removal main asked for and was not told had failed (_backend.py:203),
\* whatever failed or was interrupted on the way; or, after a listing, that
\* nothing was made.
SuccessMeansClean ==
    pc = "ended" /\ exit_code = 0 =>
        /\ \A i \in Vms : IF how = "setup" THEN vm[i] = "none"
                           ELSE vm[i] = "gone" /\ passed[i] = Checks
        /\ rules \subseteq unheard

\* A verification that fails, raises a ProxmoxError or is interrupted does not
\* keep main from deleting what launch_many returned (e2e.py:371-392), unless
\* there is a traceback.  Every mapping main has kept loses its rule, or its
\* removal failed without a word; and every VM goes, or the status says that the
\* cleanup failed and what is left is the VM it failed at and all those after it,
\* untouched.
LeftOnlyIfReported ==
    pc = "ended" /\ outcome = "returned" /\ how = "exit" =>
        /\ nat_mappings \cap rules \subseteq unheard
        /\ IF exit_code = 3
           THEN \E k \in Vms : \A i \in Vms : /\ i < k => vm[i] = "gone"
                                              /\ i > k => vm[i] = "ready"
           ELSE \A i \in Vms : vm[i] = "gone"

\* No VM is stopped while a mapping that main keeps still forwards a port to it,
\* unless main has asked for its removal and was not told that it failed
\* (e2e.py:384-391).
RulesGoFirst ==
    [][\A i \in Vms : vm[i] = "ready" /\ vm'[i] = "stopped"
         => i \notin (nat_mappings \cap rules) \ unheard]_vars

-----------------------------------------------------------------------------
(* The inductive invariant that E2E_proofs rests on *)

\* The checks VM cur has passed when main makes call c with exit_code still 0.
PassedBefore(c) ==
    CASE c = "agent" -> {}
      [] c = "ip" -> {"agent"}
      [] c = "exec" -> {"agent", "ip"}
      [] c = "info" -> {"agent", "ip", "exec"}
      [] c \in {"nat", "ssh"} -> {"agent", "ip", "exec", "info"}
      [] c = "keep" -> Checks

\* While main verifies: exit_code is still 0 only if nothing has failed so far,
\* and only the rule of the VM at hand is missing from nat_mappings.
VerifyOK ==
    pc \in Verifying =>
        /\ outcome = "returned"
        /\ \A i \in Vms : vm[i] = "ready"
        /\ pc \in {"nat", "ssh", "keep"} => ssh_enabled
        /\ exit_code = 0 =>
              /\ \A i \in Vms : i < cur => passed[i] = Checks
              /\ passed[cur] = PassedBefore(pc)
              /\ \A i \in Vms : i > cur => passed[i] = {}
              /\ rules \subseteq nat_mappings \cup
                    (IF pc \in {"ssh", "keep"} THEN {cur} ELSE {})

\* While main cleans up: the kept rules go first, then the VMs in their order.
CleanOK ==
    pc \in Cleaning =>
        /\ outcome = "returned"
        /\ pc = "unrule" => \A i \in Vms : vm[i] = "ready"
        /\ pc # "unrule" => /\ nat_mappings \cap rules \subseteq unheard
                            /\ \A i \in Vms : /\ i < cur => vm[i] = "gone"
                                              /\ i > cur => vm[i] = "ready"
        /\ exit_code = 0 => /\ \A i \in Vms : passed[i] = Checks
                            /\ rules \subseteq nat_mappings

\* Nothing is made before main launches; it is past launch_many exactly when that
\* has ended.
E2EInv ==
    /\ TypeOK
    /\ pc \in {"setup", "launch", "unrule"} => cur = 1
    /\ pc \in {"setup", "launch"} =>
          /\ outcome = "pending" /\ exit_code = 0
          /\ passed = [i \in Vms |-> {}] /\ rules = {} /\ nat_mappings = {}
    /\ outcome = "pending" => pc \in {"setup", "launch", "ended"}
    /\ outcome = "pending" /\ pc # "launch" => /\ \A i \in Vms : vm[i] = "none"
                                              /\ rules = {} /\ how # "exit"
    /\ outcome \in {"raised", "abandoned"} => pc = "ended" /\ exit_code # 0
    /\ how = "setup" => outcome = "pending"
    /\ pc \in Verifying \cup Cleaning \cup {"setup", "launch"} => how = "running"
    /\ exit_code = 3 => pc = "ended"
    /\ VerifyOK /\ CleanOK
    /\ SuccessMeansClean /\ LeftOnlyIfReported
=============================================================================
