------------------------------ MODULE Waits_proofs ------------------------------
(***************************************************************************)
(* The polling loops tell the truth, end in time if they end at all, and    *)
(* time out only when there was nothing to see earlier: for every timeout,   *)
(* interval, latency and mix of loops.  WaitInv follows the clock through a  *)
(* round: how far past the limit in force each stage can be, and how long    *)
(* ago the last poll was.                                                    *)
(***************************************************************************)
EXTENDS Waits, TLAPS

LEMMA MinOfTwo ==
    ASSUME NEW a \in Int, NEW b \in Int
    PROVE  Min({a, b}) = IF a <= b THEN a ELSE b
  <1> DEFINE m == IF a <= b THEN a ELSE b
  <1>1. m \in {a, b} /\ \A y \in {a, b} : m <= y
    OBVIOUS
  <1>2. \A x \in {a, b} : (\A y \in {a, b} : x <= y) => x = m
    OBVIOUS
  <1> QED BY <1>1, <1>2 DEF Min

LEMMA MaxOfTwo ==
    ASSUME NEW a \in Int, NEW b \in Int
    PROVE  Max({a, b}) = IF a >= b THEN a ELSE b
  <1> DEFINE m == IF a >= b THEN a ELSE b
  <1>1. m \in {a, b} /\ \A y \in {a, b} : m >= y
    OBVIOUS
  <1>2. \A x \in {a, b} : (\A y \in {a, b} : x >= y) => x = m
    OBVIOUS
  <1> QED BY <1>1, <1>2 DEF Max

\* The clock is not stopped by its bound.
LEMMA LaterIsSum ==
    ASSUME NEW d \in Nat, now \in Nat, now + d < Horizon
    PROVE  Later(d) = now + d
  BY MinOfTwo, WaitAssumption DEF Later

LEMMA Constant ==
    /\ Timeout \in Nat /\ Interval \in Nat \ {0} /\ Horizon \in Nat /\ Slowest \in Nat
    /\ Horizon > Timeout + Slowest + 2 * (Slowest + Interval + 32) + 16
    /\ \A d \in Latencies : d \in Nat /\ d <= Slowest
    /\ Second = 16
  BY WaitAssumption DEF Second

\* The pause before the next poll, and how long a round takes.
LEMMA Pauses ==
    ASSUME TypeOK, Clock
    PROVE  /\ pause \in Nat /\ LongestPause \in Nat /\ Slack \in Nat
           /\ pause <= LongestPause /\ Slack = Slowest + LongestPause
           /\ LongestPause <= Interval + 32 /\ LongestPause > 0
           /\ op = "ready" => LongestPause = Interval
  BY Constant DEF TypeOK, Clock, LongestPause, Slack

-----------------------------------------------------------------------------
LEMMA InitInv == Init => WaitInv
  <1> SUFFICES ASSUME Init PROVE WaitInv
    OBVIOUS
  <1>0. op \in OpNames
    BY WaitAssumption DEF Init
  <1>1. TypeOK
    BY Constant, WaitAssumption DEF Init, TypeOK, NoTime, Exited, GuestStates
  <1>2. Clock
    BY Constant, <1>0 DEF Init, Clock, LongestPause, Limit, Slack, OpNames, NoTime
  <1>3. Heard /\ Truthful /\ Punctual /\ NotMissed
    BY DEF Init, Heard, Truthful, Punctual, NotMissed, Exited
  <1>4. Sight
    BY Constant, <1>1, <1>2, Pauses DEF Init, Sight, PolledWithin, NoTime
  <1> QED BY <1>1, <1>2, <1>3, <1>4 DEF WaitInv

-----------------------------------------------------------------------------
(* One lemma per action *)

LEMMA PostKeeps ==
    ASSUME WaitInv, Post PROVE WaitInv'
  <1> USE DEF WaitInv
  <1>1. /\ op = "exec" /\ now = 0 /\ deadline = Timeout /\ nested = NoTime
        /\ polled = 0 /\ since = NoTime /\ result = "none"
    BY Constant DEF Post, Clock, TypeOK, Sight, Reached, Heard, Exited, NoTime
  <1>2. PICK d \in Latencies : now' = Later(d)
    BY DEF Post
  <1>3. now' = d /\ d \in Nat /\ d <= Slowest
    BY <1>1, <1>2, Constant, LaterIsSum
  <1>4. CASE cmd' = "running" /\ deadline' = now' + Timeout /\ pc' = "poll" /\ result' = result
    <2>1. TypeOK'
      BY <1>1, <1>3, <1>4, Constant DEF Post, TypeOK
    <2>2. Clock'
      BY <1>1, <1>3, <1>4, Constant, Pauses DEF Post, Clock, TypeOK, Limit, NoTime,
                                                 Slack, LongestPause
    <2>3. Heard' /\ Truthful' /\ Punctual' /\ NotMissed'
      <3>1. reply \notin Exited \cup {"failed"}
        BY <1>1 DEF Heard, Clock, Post, Exited
      <3> QED BY <1>1, <1>4, <3>1 DEF Post, Heard, Truthful, Punctual, NotMissed
    <2>4. Sight'
      BY <1>1, <1>3, <1>4, Constant, Pauses DEF Post, Sight, PolledWithin, NoTime,
                                                 Slack, LongestPause
    <2> QED BY <2>1, <2>2, <2>3, <2>4
  <1>5. CASE End("raised") /\ cmd' = cmd /\ deadline' = deadline
    <2>1. TypeOK'
      BY <1>1, <1>3, <1>5, Constant DEF Post, TypeOK, End
    <2>2. Clock'
      BY <1>1, <1>3, <1>5, Constant DEF Post, Clock, TypeOK, NoTime, End
    <2>3. Heard' /\ Truthful' /\ NotMissed' /\ Sight'
      BY <1>1, <1>5 DEF Post, Heard, Truthful, NotMissed, Sight, End
    <2>4. Punctual'
      BY <1>1, <1>3, <1>5, Constant, Pauses DEF Post, Punctual, End, Slack, LongestPause
    <2> QED BY <2>1, <2>2, <2>3, <2>4
  <1> QED BY <1>4, <1>5 DEF Post

LEMMA PollKeeps ==
    ASSUME WaitInv, Poll PROVE WaitInv'
  <1> USE DEF WaitInv
  <1>0. result = "none"
    BY DEF Heard, Poll
  <1>1. PICK d \in Latencies : now' = Later(d)
    BY DEF Poll
  <1>2. /\ now < Limit /\ Limit \in Nat /\ Limit <= Timeout + 2 * Slowest + 16
        /\ d \in Nat /\ d <= Slowest
    BY Constant DEF Poll, Limit, Clock, TypeOK, NoTime
  <1>3. now' = now + d
    BY <1>1, <1>2, Constant, LaterIsSum DEF TypeOK
  <1>4. reply' \in {"running", "ok", "failed", "garbled", "noexit", "error", "none"}
                   \cup Exited \cup GuestStates
    BY DEF Poll, Asked, TypeOK
  <1>5. since' \in {since, now} /\ (since' = NoTime <=> since = NoTime)
    BY DEF Poll, TypeOK, NoTime
  <1>6. TypeOK'
    BY <1>2, <1>3, <1>4, <1>5, Constant DEF Poll, TypeOK
  <1>7. Clock'
    BY <1>2, <1>3, Constant DEF Poll, Clock, TypeOK, Limit, LongestPause
  <1>8. Heard'
    BY <1>0 DEF Poll, Heard, Asked, TypeOK, Exited, GuestStates, Answering
  <1>9. Truthful' /\ Punctual' /\ NotMissed'
    BY <1>0 DEF Poll, Truthful, Punctual, NotMissed
  <1>10. Sight'
    <2>1. since # NoTime => Reached
      BY DEF Sight, Poll
    <2>2. since' # NoTime => Reached'
      BY <1>5, <2>1 DEF Reached, Poll
    <2>3. since' # NoTime => since' >= polled' \/ Enough'
      <3>1. CASE reply' = Asked /\ since' = since
        BY <2>1, <3>1 DEF Poll, Reached, Enough, Asked
      <3>2. CASE since' = IF since = NoTime THEN NoTime ELSE now
        BY <3>2 DEF Poll, TypeOK
      <3> QED BY <3>1, <3>2 DEF Poll
    <2> QED BY Constant, <1>2, <1>3, <2>2, <2>3 DEF Sight, Poll, TypeOK
  <1> QED BY <1>6, <1>7, <1>8, <1>9, <1>10

LEMMA ExpireKeeps ==
    ASSUME WaitInv, Expire PROVE WaitInv'
  <1> USE DEF WaitInv
  <1>0. result = "none"
    BY DEF Heard, Expire
  <1>1. CASE nested = NoTime /\ End("timeout") /\ nested' = nested
    <2>1. TypeOK' /\ Clock' /\ Heard' /\ Truthful'
      BY <1>1 DEF Expire, TypeOK, Clock, Heard, Truthful, End, waited, LongestPause
    <2>2. Punctual'
      BY <1>1, Constant, Pauses DEF Expire, Punctual, Clock, Limit, End, TypeOK, Slack, LongestPause
    <2>3. NotMissed'
      BY <1>1, Constant, Pauses DEF Expire, NotMissed, Sight, PolledWithin, Limit, TypeOK,
                                    waited, Slack, LongestPause
    <2>4. Sight'
      BY <1>1 DEF Expire, Sight, End
    <2> QED BY <2>1, <2>2, <2>3, <2>4
  <1>2. CASE nested # NoTime /\ nested' = NoTime /\ pc' = "sleep" /\ result' = result
    <2>1. TypeOK' /\ Heard' /\ Truthful' /\ Punctual' /\ NotMissed'
      BY <1>0, <1>2 DEF Expire, TypeOK, Heard, Truthful, Punctual, NotMissed, waited
    <2>2. op = "ready" /\ nested \in Nat /\ deadline <= nested /\ nested <= now
          /\ nested <= deadline + Slowest + Second /\ now < nested + Slack
      BY <1>2 DEF Expire, Clock, TypeOK, Limit
    <2>3. Clock'
      BY <1>2, <2>2, Constant, Pauses DEF Expire, Clock, TypeOK, Limit, Late, Slack, LongestPause
    <2>4. Sight'
      BY <1>2, <2>2, Constant, Pauses DEF Expire, Sight, PolledWithin, Reached, TypeOK, waited,
                                          Slack, LongestPause
    <2> QED BY <2>1, <2>3, <2>4
  <1> QED BY <1>1, <1>2 DEF Expire

\* A stage of a round at which the call may end.
LEMMA EndInTime ==
    ASSUME WaitInv, pc = "got"
    PROVE  now < deadline + IF op = "ready" THEN 2 * Slack + Second ELSE Slack
  BY Constant, Pauses DEF WaitInv, Clock, TypeOK, Limit

LEMMA ReturnKeeps ==
    ASSUME WaitInv, Return PROVE WaitInv'
  <1> USE DEF WaitInv
  <1>1. TypeOK' /\ Clock' /\ Heard' /\ Sight' /\ NotMissed'
    BY DEF Return, End, Verdict, TypeOK, Clock, Heard, Sight, NotMissed, waited, LongestPause
  <1>2. Truthful'
    BY DEF Return, End, Verdict, Enough, Heard, Truthful, waited, Exited
  <1>3. Punctual'
    BY EndInTime DEF Return, End, Punctual, Slack, LongestPause
  <1> QED BY <1>1, <1>2, <1>3

LEMMA FailKeeps ==
    ASSUME WaitInv, Fail PROVE WaitInv'
  <1> USE DEF WaitInv
  <1>1. TypeOK' /\ Clock' /\ Heard' /\ Sight' /\ NotMissed'
    BY DEF Fail, End, TypeOK, Clock, Heard, Sight, NotMissed, waited, LongestPause
  <1>2. Truthful'
    BY DEF Fail, End, Heard, Truthful, waited
  <1>3. Punctual'
    BY EndInTime DEF Fail, End, Punctual, Slack, LongestPause
  <1> QED BY <1>1, <1>2, <1>3

LEMMA NestKeeps ==
    ASSUME WaitInv, Nest PROVE WaitInv'
  <1> USE DEF WaitInv
  <1>0. result = "none"
    BY DEF Heard, Nest
  <1>1. /\ now \in Nat /\ deadline \in Nat /\ now < deadline + Slowest
    BY DEF Nest, Clock, TypeOK, Limit
  <1>2. Max({Second, deadline - now}) = IF 16 >= deadline - now THEN 16 ELSE deadline - now
    BY <1>1, MaxOfTwo DEF Second
  <1>3. /\ nested' \in Nat /\ deadline <= nested' /\ now < nested'
        /\ nested' <= deadline + Slowest + Second
    BY <1>1, <1>2, Constant DEF Nest
  <1>4. TypeOK' /\ Heard' /\ Truthful' /\ Punctual' /\ NotMissed'
    BY <1>0, <1>3 DEF Nest, TypeOK, Heard, Truthful, Punctual, NotMissed, waited
  <1>5. Clock'
    BY <1>1, <1>3, Constant, Pauses DEF Nest, Clock, TypeOK, Limit, NoTime, Slack, LongestPause
  <1>6. Sight'
    BY <1>1, <1>3, Constant, Pauses DEF Nest, Sight, PolledWithin, Reached, TypeOK, NoTime, waited,
                                        Slack, LongestPause
  <1> QED BY <1>4, <1>5, <1>6

LEMMA RetryKeeps ==
    ASSUME WaitInv, Retry PROVE WaitInv'
  <1> USE DEF WaitInv
  <1>0. result = "none" /\ op \in OpNames
    BY WaitAssumption DEF Heard, Retry, TypeOK
  <1>1. TypeOK' /\ Heard' /\ Truthful' /\ Punctual' /\ NotMissed'
    BY <1>0 DEF Retry, TypeOK, Heard, Truthful, Punctual, NotMissed, waited
  <1>2. Clock'
    BY DEF Retry, Clock, Limit, LongestPause
  <1>3. ~Enough
    BY <1>0 DEF Retry, Again, Enough, Exited, Answering, OpNames
  <1>4. Sight'
    BY <1>3 DEF Retry, Sight, PolledWithin, Reached, waited
  <1> QED BY <1>1, <1>2, <1>4

LEMMA SleepKeeps ==
    ASSUME WaitInv, Sleep PROVE WaitInv'
  <1> USE DEF WaitInv
  <1>0. result = "none"
    BY DEF Heard, Sleep
  <1>1. /\ pause \in Nat /\ pause <= LongestPause /\ Slack = Slowest + LongestPause
        /\ LongestPause \in Nat /\ LongestPause <= Interval + 32
        /\ now \in Nat /\ deadline \in Nat /\ Limit \in Nat
        /\ Limit <= Timeout + 2 * Slowest + 16 /\ deadline <= Timeout + Slowest
    BY Constant, Pauses DEF TypeOK, Clock, Limit, NoTime
  <1>2. now + pause < Horizon
    <2>1. CASE now < Limit + Slowest
      BY <1>1, <2>1, Constant
    <2>2. CASE op = "ready" /\ nested = NoTime /\ Late
      BY <1>1, <2>2, Constant, Pauses DEF Late
    <2> QED BY <2>1, <2>2 DEF Sleep, Clock
  <1>3. now' = now + pause
    BY <1>1, <1>2, LaterIsSum DEF Sleep
  <1>4. /\ op = "exec" => pause' \in {8, 12, 18, 27, 2 * Second}
        /\ op # "exec" => pause' = pause
    <2>1. CASE op = "exec"
      <3>1. pause \in {8, 12, 18, 27, 32}
        BY <2>1 DEF Clock, Second
      <3>2. (pause * 3) \div 2 \in {12, 18, 27, 40, 48}
        BY <3>1
      <3>3. Min({(pause * 3) \div 2, 32}) \in {12, 18, 27, 32}
        BY <3>2, MinOfTwo
      <3>4. pause' = Min({(pause * 3) \div 2, 32})
        BY <2>1 DEF Sleep, Second
      <3> QED BY <2>1, <3>3, <3>4 DEF Second
    <2>2. CASE op # "exec"
      BY <2>2 DEF Sleep
    <2> QED BY <2>1, <2>2
  <1>5. TypeOK'
    BY <1>1, <1>2, <1>3, <1>4, Constant DEF Sleep, TypeOK, waited
  <1>6. Heard' /\ Truthful' /\ Punctual' /\ NotMissed'
    BY <1>0 DEF Sleep, Heard, Truthful, Punctual, NotMissed, waited
  <1>7. Clock'
    <2>1. \/ now' < Limit + Slack
          \/ op = "ready" /\ nested = NoTime /\ now' < deadline + 2 * Slack + Second
      <3>1. CASE now < Limit + Slowest
        BY <1>1, <1>3, <3>1, Constant
      <3>2. CASE op = "ready" /\ nested = NoTime /\ Late
        BY <1>1, <1>3, <3>2, Constant DEF Late
      <3> QED BY <3>1, <3>2 DEF Sleep, Clock
    <2> QED
      BY <1>1, <1>3, <1>4, <2>1 DEF Sleep, Clock, TypeOK, Limit, Slack, LongestPause
  <1>8. Sight'
    BY <1>1, <1>3, Constant, Pauses DEF Sleep, Sight, PolledWithin, Reached, TypeOK, waited,
                                        Slack, LongestPause
  <1> QED BY <1>5, <1>6, <1>7, <1>8

\* Nothing of this depends on the loop: the target moves, the call does not.
LEMMA WorldKeeps ==
    ASSUME WaitInv, World PROVE WaitInv'
  <1> USE DEF WaitInv
  <1>0. result = "none" /\ pc # "ended"
    BY DEF Heard, World
  <1>1. TypeOK'
    <2>1. task' \in {"running", "ok", "failed"}
      BY DEF World, TypeOK
    <2>2. cmd' \in {"none", "running", "failed"} \cup Exited
      BY DEF World, TypeOK
    <2>3. guest' \in GuestStates
      BY DEF World, TypeOK, GuestStates, Answering
    <2>4. since' \in {NoTime, polled, since}
      BY DEF World
    <2> QED BY <2>1, <2>2, <2>3, <2>4, Constant DEF World, TypeOK
  <1>2. Heard'
    BY DEF World, Heard, Exited
  <1>3. Clock'
    BY DEF World, Clock, Limit, Late, Slack, LongestPause
  <1>4. Truthful' /\ Punctual' /\ NotMissed'
    BY <1>0 DEF World, Truthful, Punctual, NotMissed
  <1>5. Sight'
    <2>1. since' # NoTime => Reached'
      BY DEF World, Goal, Reached
    <2>2. since' # NoTime => since' = polled \/ (since # NoTime /\ since' = since)
      BY DEF World
    <2> QED BY <1>0, <2>1, <2>2 DEF World, Sight, PolledWithin, Enough, TypeOK, Slack, LongestPause
  <1> QED BY <1>1, <1>2, <1>3, <1>4, <1>5

LEMMA StepInv == WaitInv /\ [Next]_vars => WaitInv'
  <1>1. ASSUME WaitInv, UNCHANGED vars PROVE WaitInv'
    BY <1>1 DEF WaitInv, TypeOK, Heard, Clock, Sight, Truthful, Punctual, NotMissed, vars, Limit,
                Late, LongestPause, Slack, PolledWithin, Reached, Enough
  <1> QED
    BY <1>1, PostKeeps, PollKeeps, ExpireKeeps, ReturnKeeps, NestKeeps, FailKeeps, RetryKeeps,
       SleepKeeps, WorldKeeps DEF Next, Caller, Stay

-----------------------------------------------------------------------------
\* The bounds on the clock, on the age of the last poll and on what was heard
\* hold in every state of every loop (the while loops of _backend.py:91 and of
\* vm.py:195, 250, 268 and 283).
THEOREM Invariance == Spec => []WaitInv
  BY InitInv, StepInv, PTL DEF Spec

\* A loop that reports how a task or a command ended reports how it ended
\* (_backend.py:96, vm.py:202).
THEOREM Truthfulness == Spec => []Truthful
  <1>1. WaitInv => Truthful
    BY DEF WaitInv
  <1> QED BY <1>1, Invariance, PTL

\* A loop that ends does so at most one round after its deadline; wait_ready at
\* most two and a second (vm.py:294).
THEOREM Punctuality == Spec => []Punctual
  <1>1. WaitInv => Punctual
    BY DEF WaitInv
  <1> QED BY <1>1, Invariance, PTL

\* A loop that times out had nothing to see before its last round
\* (_backend.py:91-101).
THEOREM NothingMissed == Spec => []NotMissed
  <1>1. WaitInv => NotMissed
    BY DEF WaitInv
  <1> QED BY <1>1, Invariance, PTL

-----------------------------------------------------------------------------
(* The call always has a step to take, and not for ever *)

LEMMA AnsweredKept == WaitInv /\ Answered /\ [Next]_vars => Answered'
  <1> SUFFICES ASSUME WaitInv, Answered, [Next]_vars PROVE Answered'
    OBVIOUS
  <1> USE DEF WaitInv, Answered
  <1>1. CASE Post \/ Sleep \/ Expire \/ Nest \/ Retry \/ Return \/ Fail
    BY <1>1 DEF Post, Sleep, Expire, Nest, Retry, Return, Fail, End, waited
  <1>2. CASE Poll
    <2>1. Asked \in Answers
      BY <1>2 DEF Poll, Asked, Answers, TypeOK, Exited
    <2>2. reply' \in Answers
      BY <1>2, <2>1 DEF Poll, Answers
    <2> QED BY <1>2, <2>2 DEF Poll, Answers
  <1>3. CASE World
    BY <1>3 DEF World, Answers, Exited
  <1>4. CASE UNCHANGED vars
    BY <1>4 DEF vars, Answers
  <1> QED BY <1>1, <1>2, <1>3, <1>4 DEF Next, Caller, Stay

\* Whatever a poll answers, the loop has a branch for it: it ends, goes on to the
\* nested wait or polls again (_backend.py:92-101, vm.py:195-213, 284-298).
THEOREM EveryAnswerHandled == Spec => []Handled
  <1>1. Init => Answered
    BY DEF Init, Answered
  <1>2. WaitInv /\ Answered => Handled
    <2> SUFFICES ASSUME WaitInv, Answered, pc = "got" PROVE Handled
      BY DEF Handled
    <2>1. op \in OpNames
      BY WaitAssumption DEF WaitInv, TypeOK
    <2>2. CASE op \in {"task", "exec"}
      BY <2>2 DEF Answered, Answers, Handled, Again, Enough, Exited
    <2>3. CASE op \in {"agent", "ip"}
      BY <2>3 DEF Handled, Again, Enough
    <2>4. CASE op = "ready"
      BY <2>4 DEF Answered, Answers, Handled, Again, Enough, GuestStates, Answering
    <2> QED BY <2>1, <2>2, <2>3, <2>4 DEF OpNames
  <1> QED BY <1>1, <1>2, AnsweredKept, Invariance, PTL DEF Spec

\* Time weighs more than the steps of a round.
LEMMA Weighted ==
    ASSUME NEW l \in Int, NEW m \in Int, NEW n \in Int, NEW i \in Int, NEW j \in Int,
           \/ n >= m /\ j < i
           \/ n > m /\ j <= 6 /\ i >= 1
    PROVE  7 * (l - n) + j < 7 * (l - m) + i
  OBVIOUS

LEMMA VariantIsNat == WaitInv => Variant \in Nat
  <1> SUFFICES ASSUME WaitInv PROVE Variant \in Nat
    OBVIOUS
  <1>1. /\ now \in Nat /\ deadline \in Nat /\ deadline <= Timeout + Slowest
        /\ Slack \in Nat /\ Slowest <= Slack
    BY Constant, Pauses DEF WaitInv, TypeOK, Clock
  <1>2. now <= deadline + 2 * Slack + Second
    BY <1>1, Constant, Pauses DEF WaitInv, TypeOK, Clock, Punctual, Limit, Late
  <1>3. StepsLeft \in Nat
    BY DEF StepsLeft
  <1>4. Latest - now \in Nat
    BY <1>1, <1>2, Constant DEF Latest
  <1> QED BY <1>3, <1>4 DEF Variant

LEMMA SleepTakesTime == WaitInv /\ Sleep => now' > now
  <1> SUFFICES ASSUME WaitInv, Sleep PROVE now' > now
    OBVIOUS
  <1> USE DEF WaitInv
  <1>1. /\ pause \in Nat /\ pause <= LongestPause /\ Slack = Slowest + LongestPause
        /\ LongestPause \in Nat /\ LongestPause <= Interval + 32
        /\ now \in Nat /\ deadline \in Nat /\ Limit \in Nat
        /\ Limit <= Timeout + 2 * Slowest + 16 /\ deadline <= Timeout + Slowest
    BY Constant, Pauses DEF TypeOK, Clock, Limit, NoTime
  <1>2. now + pause < Horizon
    <2>1. CASE now < Limit + Slowest
      BY <1>1, <2>1, Constant
    <2>2. CASE op = "ready" /\ nested = NoTime /\ Late
      BY <1>1, <2>2, Constant, Pauses DEF Late
    <2> QED BY <2>1, <2>2 DEF Sleep, Clock
  <1>3. pause > 0
    BY Constant DEF TypeOK
  <1> QED BY <1>1, <1>2, <1>3, LaterIsSum DEF Sleep

LEMMA TimePasses == WaitInv /\ (Post \/ Poll) => now' >= now
  <1> SUFFICES ASSUME WaitInv, Post \/ Poll PROVE now' >= now
    OBVIOUS
  <1>1. PICK d \in Latencies : now' = Later(d)
    BY DEF Post, Poll
  <1>2. now + d < Horizon /\ now \in Nat /\ d \in Nat
    BY Constant DEF WaitInv, Post, Poll, TypeOK, Clock, Limit, NoTime
  <1> QED BY <1>1, <1>2, LaterIsSum

\* A call takes a bounded number of steps, whatever its target does: the distance
\* to its latest end never grows, and every step of the caller shortens it
\* (_backend.py:91-102, vm.py:195-213, 252-262, 270-281, 285-299).
THEOREM EndIsNearer == Spec => [](Variant \in Nat) /\ Descends
  <1>0. WaitInv' => (Variant \in Nat)'
    BY VariantIsNat, PTL
  <1>1. ASSUME WaitInv, WaitInv', [Next]_vars
        PROVE  Variant' <= Variant /\ (Caller => Variant' < Variant)
    <2>0. /\ Variant \in Nat /\ Variant' \in Nat /\ now \in Nat /\ now' \in Nat
          /\ StepsLeft \in Nat /\ StepsLeft' \in Nat /\ Latest \in Int
          /\ op' = op => Latest' = Latest
      <3>1. Slack \in Nat
        BY <1>1, Pauses DEF WaitInv
      <3> QED BY <1>0, <1>1, <3>1, VariantIsNat, Constant
              DEF WaitInv, TypeOK, StepsLeft, Latest, Slack, LongestPause
    <2>1. ASSUME op' = op, now' >= now, StepsLeft' < StepsLeft
          PROVE  Variant' < Variant
      <3>1. Variant = 7 * (Latest - now) + StepsLeft
        BY DEF Variant
      <3>2. Variant' = 7 * (Latest - now') + StepsLeft'
        BY <2>0, <2>1 DEF Variant
      <3>3. /\ Latest \in Int /\ now \in Int /\ now' \in Int
            /\ StepsLeft \in Int /\ StepsLeft' \in Int
        BY <2>0
      <3>4. 7 * (Latest - now') + StepsLeft' < 7 * (Latest - now) + StepsLeft
        BY <2>1, <3>3, Weighted, Zenon
      <3> QED BY <3>1, <3>2, <3>4
    <2>2. CASE Post \/ Poll
      BY <1>1, <2>0, <2>1, <2>2, TimePasses DEF Post, Poll, StepsLeft, End
    <2>3. CASE Expire \/ Return \/ Fail \/ Retry
      BY <2>0, <2>1, <2>3 DEF Expire, Return, Fail, Retry, StepsLeft, End, NoTime
    <2>4. CASE Nest
      <3>1. deadline \in Nat
        BY <1>1 DEF WaitInv, TypeOK
      <3>2. nested' \in Nat
        BY <2>0, <2>4, <3>1, MaxOfTwo DEF Nest, Second
      <3> QED BY <2>0, <2>1, <2>4, <3>2 DEF Nest, StepsLeft, NoTime
    <2>5. CASE Sleep
      <3>1. StepsLeft = 1 /\ StepsLeft' \in 0..6 /\ op' = op
        BY <2>5 DEF Sleep, StepsLeft
      <3>2. now' > now /\ StepsLeft' \in Int /\ StepsLeft' <= 6 /\ Latest' = Latest
        BY <1>1, <2>0, <2>5, <3>1, SleepTakesTime
      <3>3. /\ Latest \in Int /\ now \in Int /\ now' \in Int /\ 1 \in Int
            /\ StepsLeft' \in Int /\ 1 >= 1
        BY <2>0
      <3>4. 7 * (Latest - now') + StepsLeft' < 7 * (Latest - now) + 1
        BY <3>2, <3>3, Weighted, Zenon
      <3>5. Variant = 7 * (Latest - now) + 1
        BY <3>1 DEF Variant
      <3>6. Variant' = 7 * (Latest - now') + StepsLeft'
        BY <3>2 DEF Variant
      <3>7. Variant' < Variant
        BY <3>4, <3>5, <3>6, Zenon
      <3>8. \A i, j \in Nat : i < j => i <= j
        OBVIOUS
      <3> QED BY <2>0, <3>7, <3>8, Zenon
    <2>6. CASE World
      <3>1. Variant' = Variant
        BY <2>6 DEF World, Variant, StepsLeft, Latest, Slack, LongestPause
      <3>2. ~Caller
        BY <2>6 DEF World, Caller, Post, Poll, Expire, Return, Nest, Fail, Retry, Sleep, End
      <3> QED BY <2>0, <3>1, <3>2
    <2>7. CASE UNCHANGED vars
      <3>1. Variant' = Variant
        BY <2>7 DEF vars, Variant, StepsLeft, Latest, Slack, LongestPause
      <3>2. ~Caller
        BY <2>7 DEF vars, Caller, Post, Poll, Expire, Return, Nest, Fail, Retry, Sleep, End
      <3> QED BY <2>0, <3>1, <3>2
    <2> QED BY <1>1, <2>0, <2>2, <2>3, <2>4, <2>5, <2>6, <2>7 DEF Next, Caller, Stay
  <1>2. WaitInv => Variant \in Nat
    BY VariantIsNat
  <1> QED BY <1>1, <1>2, Invariance, StepInv, PTL DEF Spec, Descends
=============================================================================
