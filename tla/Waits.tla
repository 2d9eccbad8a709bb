--------------------------------- MODULE Waits ---------------------------------
(***************************************************************************)
(* The polling loops of the SDK: ProxmoxerBackend.wait_for_task             *)
(* (_backend.py) and ProxmoxVM.exec, wait_for_agent, wait_for_ip and         *)
(* wait_ready (vm.py).  One call of one of them runs against a task, a       *)
(* command and a guest that change at any time; calls and sleeps take time, *)
(* counted in sixteenths of a second, in which every interval of exec is a   *)
(* whole number.                                                            *)
(***************************************************************************)
EXTENDS Integers, FiniteSetsExt

CONSTANTS
    Ops,        \* which of the five loops the instance runs
    Timeout,    \* the timeout argument
    Interval,   \* the interval argument of the guest loops
    Latencies,  \* how long one HTTP call may take
    Slowest,    \* the longest of them
    Horizon,    \* bound: the clock stops there (TypeOK: it never gets there)
    Faults      \* which kinds of failure happen in this instance

Second == 16
OpNames == {"task", "exec", "agent", "ip", "ready"}
FaultKinds == {"call",     \* an HTTP call raises
               "garbled",  \* a task status that is no record, or lacks its exitstatus
               "reboot"}   \* the guest goes down again

ASSUME WaitAssumption ==
    /\ Ops \subseteq OpNames
    /\ Timeout \in Nat /\ Interval \in Nat \ {0} /\ Horizon \in Nat
    /\ Latencies # {} /\ Latencies \subseteq 0..Slowest /\ Slowest \in Nat
    /\ Horizon > Timeout + Slowest + 2 * (Slowest + Interval + 2 * Second) + Second
    /\ Faults \subseteq FaultKinds

VARIABLES
    op,        \* the call that runs
    pc,        \* its next step
    now,       \* time.monotonic()
    deadline,  \* deadline of the call
    nested,    \* deadline of the wait_for_agent that wait_ready is in, or NoTime
    pause,     \* how long the next sleep takes
    reply,     \* what the last poll answered
    result,    \* how the call ended
    task, cmd, guest,  \* the task, the command, the guest
    polled,    \* when the last poll was made
    since      \* when, at the earliest, what the call waits for became true
               \* and no failed poll stood in the way, or NoTime

waited == <<task, cmd, guest, since>>
vars == <<op, pc, now, deadline, nested, pause, reply, result,
          task, cmd, guest, polled, since>>

NoTime == -1
Exited == {"zero", "nonzero", "killed"}   \* killed: no exit code is reported
Answering == {"agent", "addressed"}       \* the agent runs, and knows an address
GuestStates == {"off", "booting"} \cup Answering
Later(d) == Min({now + d, Horizon})

Init ==
    /\ op \in Ops
    /\ pc = IF op = "exec" THEN "post" ELSE "poll"
    /\ now = 0
    /\ deadline = Timeout
    /\ nested = NoTime
    /\ pause = CASE op = "task" -> Second
                 [] op = "exec" -> Second \div 2
                 [] OTHER -> Interval
    /\ reply = "none"
    /\ result = "none"
    /\ task = "running"
    /\ cmd = "none"
    /\ guest = "off"
    /\ polled = 0
    /\ since = NoTime

End(how) == result' = how /\ pc' = "ended"

-----------------------------------------------------------------------------
(* One round of a loop *)

\* exec starts its clock once the guest has accepted the command.
Post ==
    /\ pc = "post"
    /\ \E d \in Latencies : now' = Later(d)
    /\ \/ /\ cmd' = "running"
          /\ deadline' = now' + Timeout
          /\ pc' = "poll" /\ UNCHANGED result
       \/ "call" \in Faults /\ End("raised") /\ UNCHANGED <<cmd, deadline>>
    /\ UNCHANGED <<op, nested, pause, reply, task, guest, polled, since>>

Limit == IF nested = NoTime THEN deadline ELSE nested

Asked == CASE op = "task" -> task [] op = "exec" -> cmd [] OTHER -> guest

\* An answer that a failed poll did not get could not be had before the next poll.
Poll ==
    /\ pc = "poll" /\ now < Limit
    /\ \/ reply' = Asked /\ UNCHANGED since
       \/ /\ \/ "call" \in Faults /\ reply' = "error"
             \/ "garbled" \in Faults /\ op = "task" /\ reply' = "garbled"
             \/ "garbled" \in Faults /\ op = "task" /\ task # "running" /\ reply' = "noexit"
          /\ since' = IF since = NoTime THEN NoTime ELSE now
    /\ \E d \in Latencies : now' = Later(d)
    /\ polled' = now
    /\ pc' = "got"
    /\ UNCHANGED <<op, deadline, nested, pause, result, task, cmd, guest>>

\* Mutant of Expire: a timeout of the nested wait begins wait_ready anew
ExpireRestarting ==
    /\ pc = "poll" /\ now >= Limit
    /\ \/ /\ nested = NoTime /\ End("timeout") /\ UNCHANGED <<nested, deadline>>
       \/ /\ nested # NoTime /\ nested' = NoTime /\ pc' = "sleep"
          /\ deadline' = now + Timeout /\ UNCHANGED result
    /\ UNCHANGED <<op, now, pause, reply, polled, waited>>

\* The timeout of the nested wait_for_agent is suppressed like any exception.
Expire ==
    /\ pc = "poll" /\ now >= Limit
    /\ \/ nested = NoTime /\ End("timeout") /\ UNCHANGED nested
       \/ nested # NoTime /\ nested' = NoTime /\ pc' = "sleep" /\ UNCHANGED result
    /\ UNCHANGED <<op, now, deadline, pause, reply, polled, waited>>

Enough ==
    CASE op = "task" -> reply = "ok"
      [] op = "exec" -> reply \in Exited
      [] op = "ip" -> reply = "addressed"
      [] OTHER -> reply \in Answering

\* Mutant of Verdict: a missing exit code counts as 0
VerdictZero == IF op # "exec" THEN "returned"
               ELSE IF reply # "nonzero" THEN "zero" ELSE "nonzero"

\* CommandResult: a missing exit code is 1.
Verdict == IF op # "exec" THEN "returned"
           ELSE IF reply = "zero" THEN "zero" ELSE "nonzero"

Return ==
    /\ pc = "got" /\ Enough
    /\ op = "ready" => nested # NoTime
    /\ End(Verdict)
    /\ UNCHANGED <<op, now, deadline, nested, pause, reply, polled, waited>>

\* Mutant of Nest: the nested wait has the whole timeout again
NestAnew ==
    /\ pc = "got" /\ op = "ready" /\ nested = NoTime
    /\ reply \in GuestStates \ {"off"}
    /\ nested' = now + Timeout
    /\ pc' = "poll"
    /\ UNCHANGED <<op, now, deadline, pause, reply, result, polled, waited>>

\* wait_ready has seen the VM running: it waits for the agent, for a second at
\* least.
Nest ==
    /\ pc = "got" /\ op = "ready" /\ nested = NoTime
    /\ reply \in GuestStates \ {"off"}
    /\ nested' = now + Max({Second, deadline - now})
    /\ pc' = "poll"
    /\ UNCHANGED <<op, now, deadline, pause, reply, result, polled, waited>>

\* A failed task, a guest that does not know the command, or a call that raises
\* where the loop does not suppress it.  A task that has stopped without an
\* exitstatus counts as failed, whatever became of it.
Fail ==
    /\ pc = "got"
    /\ \/ op \in {"task", "exec"} /\ reply \in {"failed", "noexit"} /\ End("failed")
       \/ op \in {"task", "exec"} /\ reply = "error" /\ End("raised")
    /\ UNCHANGED <<op, now, deadline, nested, pause, reply, polled, waited>>

\* The answers after which the loop sleeps and polls again.
Again ==
    CASE op = "task" -> reply \in {"running", "garbled"}
      [] op = "exec" -> reply = "running"
      [] op = "ready" /\ nested = NoTime -> reply \in {"off", "error"}
      [] OTHER -> ~Enough

Retry ==
    /\ pc = "got" /\ Again
    /\ pc' = "sleep"
    /\ UNCHANGED <<op, now, deadline, nested, pause, reply, result, polled, waited>>

\* Mutant of Sleep: the interval of exec grows without limit
SleepUnlimited ==
    /\ pc = "sleep"
    /\ now' = Later(pause)
    /\ pause' = IF op = "exec" THEN (pause * 3) \div 2 ELSE pause
    /\ pc' = "poll"
    /\ UNCHANGED <<op, deadline, nested, reply, result, polled, waited>>

Sleep ==
    /\ pc = "sleep"
    /\ now' = Later(pause)
    /\ pause' = IF op = "exec" THEN Min({(pause * 3) \div 2, 2 * Second}) ELSE pause
    /\ pc' = "poll"
    /\ UNCHANGED <<op, deadline, nested, reply, result, polled, waited>>

Caller == Post \/ Poll \/ Expire \/ Return \/ Nest \/ Fail \/ Retry \/ Sleep

-----------------------------------------------------------------------------
(* What is waited for *)

\* The call's goal is reached when its target, asked now, would end it well.
Goal == CASE op = "task" -> task' = "ok"
          [] op = "exec" -> cmd' \in Exited
          [] op = "ip" -> guest' = "addressed"
          [] OTHER -> guest' \in Answering

World ==
    /\ pc # "ended"
    /\ \/ task = "running" /\ task' \in {"ok", "failed"} /\ UNCHANGED <<cmd, guest>>
       \/ cmd = "running" /\ cmd' \in Exited \cup {"failed"} /\ UNCHANGED <<task, guest>>
       \/ /\ \/ guest = "off" /\ guest' = "booting"
             \/ guest = "booting" /\ guest' = "agent"
             \/ guest = "agent" /\ guest' = "addressed"
             \/ "reboot" \in Faults /\ guest # "off" /\ guest' \in {"off", "booting"}
          /\ UNCHANGED <<task, cmd>>
    /\ since' = IF ~Goal THEN NoTime ELSE IF since = NoTime THEN polled ELSE since
    /\ UNCHANGED <<op, pc, now, deadline, nested, pause, reply, result, polled>>

Stay == pc = "ended" /\ UNCHANGED vars

Next == Caller \/ World \/ Stay

\* The caller's thread runs; nothing is assumed of the cluster or the guest.
Spec == Init /\ [][Next]_vars /\ WF_vars(Caller)

-----------------------------------------------------------------------------
(* Properties *)

TypeOK ==
    /\ op \in Ops
    /\ pc \in {"post", "poll", "got", "sleep", "ended"}
    /\ now \in 0..(Horizon - 1)
    /\ deadline \in Nat
    /\ nested \in Nat \cup {NoTime}
    /\ pause \in {Interval, 8, 12, 18, 27, Second, 2 * Second}
    /\ reply \in {"none", "running", "ok", "failed", "garbled", "noexit", "error"}
                 \cup Exited \cup GuestStates
    /\ result \in {"none", "returned", "zero", "nonzero", "failed", "raised", "timeout"}
    /\ task \in {"running", "ok", "failed"}
    /\ cmd \in {"none", "running", "failed"} \cup Exited
    /\ guest \in GuestStates
    /\ polled \in 0..Horizon
    /\ since \in 0..Horizon \cup {NoTime}

\* What a loop reports of a task or of a command is how it ended, for good:
\* success only of a task with exit status OK (_backend.py:96), exit code 0 only
\* of a command that exited with 0 and was not killed (vm.py:202).  A task that is
\* reported as failed has failed, or has ended, well perhaps, and its status came
\* without an exitstatus (_backend.py:95); one that still runs is never given up.
Truthful ==
    /\ op = "task" /\ result = "returned" => task = "ok"
    /\ op = "task" /\ result = "failed" =>
         task = "failed" \/ (reply = "noexit" /\ task # "running")
    /\ result = "zero" => cmd = "zero"
    /\ result = "nonzero" => cmd \in {"nonzero", "killed"}

LongestPause == CASE op = "task" -> Second
                  [] op = "exec" -> 2 * Second
                  [] OTHER -> Interval
Slack == Slowest + LongestPause

\* The timeout is not a bound on the duration: the last round starts before the
\* deadline and still takes a call and a sleep.  wait_ready can add another call
\* and sleep and the second it grants the nested wait (vm.py:294), no more.
Punctual ==
    pc = "ended" =>
        now < deadline + IF op = "ready" THEN 2 * Slack + Second ELSE Slack

\* A timeout is raised only if what the call waits for could first be seen, if at
\* all, in its last round: the loop does not sleep through an answer it could have
\* had, and makes up for a poll that failed.
NotMissed ==
    result = "timeout" /\ since # NoTime
        => since >= deadline - Slack

\* Every call ends, though the task may run, the command hang or the guest
\* reboot for ever: nothing it waits for is assumed to happen.
Termination == <>(pc = "ended")
-----------------------------------------------------------------------------
(* The inductive invariant that Waits_proofs rests on *)

\* What the last poll has answered for good.
Heard ==
    /\ op = "task" /\ reply \in {"ok", "failed"} => task = reply
    /\ reply = "noexit" => op = "task" /\ task # "running"
    /\ op = "exec" /\ reply \in Exited \cup {"failed"} => cmd = reply
    /\ result # "none" => pc = "ended"

\* How late a round can be.
Late == now < deadline + Slowest + Second + Slack
Clock ==
    /\ polled <= now
    /\ deadline <= Timeout + Slowest
    /\ pc = "post" => op = "exec" /\ cmd = "none" /\ now = 0 /\ deadline = Timeout
    /\ op = "exec" => pause \in {8, 12, 18, 27, 2 * Second}
    /\ op # "exec" => pause = LongestPause
    /\ nested # NoTime => /\ op = "ready" /\ deadline <= nested
                          /\ nested <= deadline + Slowest + Second
    /\ pc = "got" => now < Limit + Slowest
    /\ pc = "sleep" => now < Limit + Slowest \/ (op = "ready" /\ nested = NoTime /\ Late)
    /\ pc = "poll" => now < Limit + Slack
                      \/ (op = "ready" /\ nested = NoTime /\ now < deadline + 2 * Slack + Second)

\* When the last poll was made: in this round, or in the last before the deadline.
PolledWithin(d) == now <= polled + d \/ (deadline <= now /\ deadline - Slack <= polled)
Reached == CASE op = "task" -> task = "ok"
             [] op = "exec" -> cmd \in Exited
             [] op = "ip" -> guest = "addressed"
             [] OTHER -> guest \in Answering
Sight ==
    /\ pc = "got" => now <= polled + Slowest
    /\ pc = "sleep" => PolledWithin(Slowest)
    /\ pc = "poll" => PolledWithin(Slack)
    /\ since # NoTime =>
         /\ pc # "ended" => Reached
         /\ pc = "got" => since >= polled \/ Enough
         /\ pc = "sleep" => since >= polled
         /\ pc = "poll" => since >= polled \/ (nested # NoTime /\ now < nested)

WaitInv == TypeOK /\ Heard /\ Clock /\ Sight /\ Truthful /\ Punctual /\ NotMissed

-----------------------------------------------------------------------------
(* Why every call ends: it always has a step, and only so many of them *)

\* What the target of a loop can answer; a command is asked for once it runs.
Answers == CASE op = "task" -> {"running", "ok", "failed", "garbled", "noexit", "error"}
             [] op = "exec" -> {"running", "failed", "error"} \cup Exited
             [] OTHER -> {"error"} \cup GuestStates
Answered ==
    /\ op = "exec" /\ pc \notin {"post", "ended"} => cmd # "none"
    /\ pc = "got" => reply \in Answers

\* No answer leaves a loop without a branch to take: it returns, goes on to the
\* nested wait, fails or polls again (_backend.py:92-101, vm.py:195-213, 284-298).
Handled ==
    pc = "got" =>
        \/ Enough /\ (op = "ready" => nested # NoTime)
        \/ op = "ready" /\ nested = NoTime /\ reply \in GuestStates \ {"off"}
        \/ op \in {"task", "exec"} /\ reply \in {"failed", "noexit", "error"}
        \/ Again

\* When the latest call ends, and how many steps a round has left.
Latest == Timeout + Slowest + 2 * Slack + Second
StepsLeft == CASE pc = "post" -> 6
               [] pc = "poll" -> IF nested = NoTime THEN 5 ELSE 3
               [] pc = "got" -> IF nested = NoTime THEN 4 ELSE 2
               [] pc = "sleep" -> 1
               [] OTHER -> 0
Variant == 7 * (Latest - now) + StepsLeft

\* Every step of the caller brings the end nearer, and what happens to the
\* target never puts it off (the sleep of every round, _backend.py:101, vm.py:212).
Descends == [][Variant' <= Variant /\ (Caller => Variant' < Variant)]_vars
=============================================================================
