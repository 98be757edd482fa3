--------------------------- MODULE TaskWaitProofs ---------------------------
(***************************************************************************)
(* What TaskWait promises, for every deadline, latency and set of faults.  *)
(***************************************************************************)
EXTENDS TaskWait, TLAPS

\* The wait is as long as it may be whatever its phase.
LEMMA Bounded == WaitInv => WaitIsBounded
<1> SUFFICES ASSUME WaitInv, phase # "done", start # Never
             PROVE  now < start + MaxWait + 1 + MaxLatency
  BY DEF WaitIsBounded
<1>1. now \in Nat /\ since \in Nat /\ start \in Nat /\ MaxWait \in Nat /\ MaxLatency \in Nat
  BY WaitAssumption DEF WaitInv, TypeOK
<1>2. phase \in {"get", "answer", "sleep"}
  BY DEF WaitInv, TypeOK, SeenInv
<1>3. CASE phase = "sleep"
  <2>1. now <= since + 1 /\ since < start + MaxWait
    BY <1>3 DEF WaitInv, ClockInv
  <2> QED BY <1>1, <2>1
<1>4. CASE phase \in {"get", "answer"}
  <2>1. now <= since + MaxLatency /\ since <= start + MaxWait
    BY <1>4 DEF WaitInv, ClockInv
  <2> QED BY <1>1, <2>1
<1> QED BY <1>2, <1>3, <1>4

\* What is stopped within an exchange of the end stopped an exchange before
\* the deadline at the earliest.
LEMMA Late ==
  ASSUME NEW stopped \in Int, NEW asked \in Int, NEW from \in Int, NEW t \in Int,
         NEW wait \in Int, NEW latency \in Int,
         stopped >= asked, t <= asked + latency, t >= from + wait
  PROVE  stopped >= from + wait - latency
OBVIOUS

LEMMA InvStep == WaitInv /\ [Next]_vars => WaitInv'
<1> SUFFICES ASSUME WaitInv, [Next]_vars PROVE WaitInv'
  OBVIOUS
<1>a. TypeOK /\ SeenInv /\ ClockInv /\ TimeoutIsHonest
  BY DEF WaitInv
<1>b. /\ MaxWait \in Nat /\ MaxLatency \in Nat
      /\ now \in Nat /\ since \in Nat
      /\ start # Never => start \in Nat
      /\ stoppedAt # Never => stoppedAt \in Nat
      /\ Never \notin Nat
  BY <1>a, WaitAssumption DEF TypeOK, Never
<1>1. CASE Posted
  <2>1. TypeOK'
    BY <1>a, <1>1 DEF TypeOK, Posted, Exits, Errors
  <2>2. SeenInv'
    BY <1>a, <1>b, <1>1 DEF SeenInv, Posted, Exits
  <2>3. ClockInv' /\ TimeoutIsHonest'
    BY <1>a, <1>b, <1>1 DEF ClockInv, TimeoutIsHonest, SeenInv, Posted
  <2> QED BY <2>1, <2>2, <2>3 DEF WaitInv
<1>2. CASE PostFails
  <2>1. TypeOK'
    BY <1>a, <1>2 DEF TypeOK, PostFails, End, Exits, Errors
  <2>2. SeenInv'
    BY <1>a, <1>b, <1>2 DEF SeenInv, PostFails, End, Exits
  <2>3. ClockInv' /\ TimeoutIsHonest'
    BY <1>a, <1>b, <1>2 DEF ClockInv, TimeoutIsHonest, PostFails, End
  <2> QED BY <2>1, <2>2, <2>3 DEF WaitInv
<1>3. CASE Answer
  <2>a. /\ FirstAnswer \in Nat
        /\ start # Never => FirstAnswer = start
    BY <1>b DEF FirstAnswer
  <2>b. /\ phase = "answer" /\ start' = FirstAnswer
        /\ task' = task /\ stoppedAt' = stoppedAt /\ sample' = sample /\ now' = now
    BY <1>3 DEF Answer
  <2>c. start' \in Nat /\ start' # Never
    BY <1>b, <2>a, <2>b
  <2>1. CASE sample \in Exits /\ End(Verdict(sample)) /\ since' = since
    <3>1. phase' = "done" /\ outcome' \in {"ok", "bad_exit"}
      BY <2>1 DEF End, Verdict
    <3>2. TypeOK'
      BY <1>a, <2>b, <2>c, <2>1, <3>1 DEF TypeOK, Errors
    <3>3. SeenInv'
      BY <1>a, <2>b, <3>1 DEF SeenInv
    <3>4. ClockInv' /\ TimeoutIsHonest'
      BY <1>a, <2>b, <2>1, <3>1 DEF ClockInv, TimeoutIsHonest
    <3> QED BY <3>2, <3>3, <3>4 DEF WaitInv
  <2>2. CASE sample = "running" /\ ~TimeLeft(FirstAnswer) /\ End("still_running") /\ since' = since
    <3>1. phase' = "done" /\ outcome' = "still_running"
      BY <2>2 DEF End
    <3>2. TypeOK'
      BY <1>a, <2>b, <2>c, <2>2, <3>1 DEF TypeOK, Errors
    <3>3. SeenInv'
      BY <1>a, <2>b, <3>1 DEF SeenInv
    <3>4. now >= start' + MaxWait
      BY <1>b, <2>a, <2>b, <2>2 DEF TimeLeft
    <3>5. stoppedAt = Never \/ stoppedAt >= since
      BY <1>a, <2>b, <2>2 DEF SeenInv
    <3>6. now <= since + MaxLatency /\ since <= now
      BY <1>a, <2>b DEF ClockInv
    <3>7. ClockInv'
      BY <2>b, <2>c, <2>2, <3>1, <3>4, <3>6 DEF ClockInv
    <3>8. stoppedAt = Never \/ stoppedAt >= start' + MaxWait - MaxLatency
      <4>1. CASE stoppedAt # Never
        <5>1. /\ stoppedAt \in Int /\ start' \in Int /\ since \in Int /\ now \in Int
              /\ MaxWait \in Int /\ MaxLatency \in Int
          BY <1>b, <2>c, <4>1
        <5>2. stoppedAt >= since
          BY <3>5, <4>1
        <5>3. stoppedAt >= start' + MaxWait - MaxLatency
          BY <3>4, <3>6, <5>1, <5>2, Late
        <5> QED BY <5>3
      <4> QED BY <4>1
    <3>9. TimeoutIsHonest'
      BY <2>b, <3>8 DEF TimeoutIsHonest
    <3> QED BY <3>2, <3>3, <3>7, <3>9 DEF WaitInv
  <2>3. CASE sample = "running" /\ TimeLeft(FirstAnswer) /\ phase' = "sleep" /\ since' = now /\ outcome' = outcome
    <3>1. now < start' + MaxWait
      BY <1>b, <2>a, <2>b, <2>3 DEF TimeLeft
    <3>2. outcome = "pending"
      BY <1>a, <2>b DEF SeenInv
    <3>3. TypeOK'
      BY <1>a, <1>b, <2>b, <2>c, <2>3 DEF TypeOK
    <3>4. SeenInv'
      BY <1>a, <2>b, <2>3, <3>2 DEF SeenInv
    <3>5. ClockInv' /\ TimeoutIsHonest'
      BY <1>b, <2>b, <2>c, <2>3, <3>1, <3>2 DEF ClockInv, TimeoutIsHonest
    <3> QED BY <3>3, <3>4, <3>5 DEF WaitInv
  <2> QED BY <1>3, <2>1, <2>2, <2>3 DEF Answer
<1>4. CASE PollFails
  <2>1. TypeOK'
    BY <1>a, <1>4 DEF TypeOK, PollFails, End, Exits, Errors
  <2>2. SeenInv'
    BY <1>a, <1>b, <1>4 DEF SeenInv, PollFails, End, Exits
  <2>3. ClockInv' /\ TimeoutIsHonest'
    BY <1>a, <1>b, <1>4 DEF ClockInv, TimeoutIsHonest, PollFails, End
  <2> QED BY <2>1, <2>2, <2>3 DEF WaitInv
<1>5. CASE Poll
  <2>1. TypeOK'
    BY <1>a, <1>5 DEF TypeOK, Poll, Exits, Errors
  <2>2. SeenInv'
    BY <1>a, <1>b, <1>5 DEF SeenInv, Poll, Exits
  <2>3. ClockInv' /\ TimeoutIsHonest'
    BY <1>a, <1>b, <1>5 DEF ClockInv, TimeoutIsHonest, Poll
  <2> QED BY <2>1, <2>2, <2>3 DEF WaitInv
<1>6. CASE Accept
  <2>1. TypeOK'
    BY <1>a, <1>6 DEF TypeOK, Accept, Exits, Errors
  <2>2. SeenInv'
    BY <1>a, <1>b, <1>6 DEF SeenInv, Accept, Exits
  <2>3. ClockInv' /\ TimeoutIsHonest'
    BY <1>a, <1>b, <1>6 DEF ClockInv, TimeoutIsHonest, Accept
  <2> QED BY <2>1, <2>2, <2>3 DEF WaitInv
<1>7. CASE ReadStatus
  <2>1. TypeOK'
    BY <1>a, <1>7 DEF TypeOK, ReadStatus, Exits, Errors
  <2>2. SeenInv'
    BY <1>a, <1>b, <1>7 DEF SeenInv, ReadStatus, Exits
  <2>3. ClockInv' /\ TimeoutIsHonest'
    BY <1>a, <1>b, <1>7 DEF ClockInv, TimeoutIsHonest, ReadStatus
  <2> QED BY <2>1, <2>2, <2>3 DEF WaitInv
<1>8. CASE Stop
  <2>1. stoppedAt = Never /\ stoppedAt' = now /\ task' \in Exits /\ task = "running"
    BY <1>a, <1>8 DEF Stop, SeenInv, Exits
  <2>2. TypeOK'
    BY <1>a, <1>8 DEF TypeOK, Stop
  <2>3. SeenInv'
    BY <1>a, <1>b, <1>8, <2>1 DEF SeenInv, ClockInv, Stop, Exits
  <2>4. ClockInv'
    BY <1>a, <1>8 DEF ClockInv, Stop
  <2>5. TimeoutIsHonest'
    BY <1>a, <1>b, <1>8, <2>1 DEF TimeoutIsHonest, ClockInv, Stop
  <2> QED BY <2>2, <2>3, <2>4, <2>5 DEF WaitInv
<1>9. CASE Tick
  <2>1. TypeOK'
    BY <1>a, <1>9 DEF TypeOK, Tick, Exits, Errors
  <2>2. SeenInv'
    BY <1>a, <1>b, <1>9 DEF SeenInv, Tick, Exits
  <2>3. ClockInv' /\ TimeoutIsHonest'
    BY <1>a, <1>b, <1>9 DEF ClockInv, TimeoutIsHonest, Tick
  <2> QED BY <2>1, <2>2, <2>3 DEF WaitInv
<1>10. CASE UNCHANGED vars
  <2>1. TypeOK'
    BY <1>a, <1>10 DEF TypeOK, vars
  <2>2. SeenInv'
    BY <1>a, <1>b, <1>10 DEF SeenInv, vars
  <2>3. ClockInv' /\ TimeoutIsHonest'
    BY <1>a, <1>b, <1>10 DEF ClockInv, TimeoutIsHonest, vars
  <2> QED BY <2>1, <2>2, <2>3 DEF WaitInv
<1> QED BY <1>1, <1>2, <1>3, <1>4, <1>5, <1>6, <1>7, <1>8, <1>9, <1>10 DEF Next, Client, Host

\* What the client has seen and how far the clock is, at every step.
THEOREM Inductive == Spec => []WaitInv
<1>1. Init => WaitInv
  BY WaitAssumption
     DEF Init, WaitInv, TypeOK, SeenInv, ClockInv, TimeoutIsHonest, Exits, Errors, Never
<1> QED BY <1>1, InvStep, PTL DEF Spec

\* The type invariant.
THEOREM TypeCorrect == Spec => []TypeOK
<1>1. WaitInv => TypeOK
  BY DEF WaitInv
<1> QED BY <1>1, Inductive, PTL

\* "still_running" is told only of a task that ran for all but the last
\* exchange of the wait (wait_for_task's deadline).
THEOREM Honest == Spec => []TimeoutIsHonest
<1>1. WaitInv => TimeoutIsHonest
  BY DEF WaitInv
<1> QED BY <1>1, Inductive, PTL

\* The wait is over a sleep and an exchange after the deadline at the latest
\* (wait_for_task tests it before every sleep).
THEOREM OnTime == Spec => []WaitIsBounded
BY Bounded, Inductive, PTL

\* _await_task keeps the promise its callers rest on.
THEOREM Refinement == Spec => ImplementsPromise
<1>1. Init => Promise!Init
  BY DEF Init, Promise!Init
<1>2. WaitInv /\ [Next]_vars => [Promise!Next]_(Promise!vars)
  <2> SUFFICES ASSUME WaitInv, [Next]_vars PROVE [Promise!Next]_(Promise!vars)
    OBVIOUS
  <2> USE DEF Promise!Next, Promise!Begin, Promise!Stop, Promise!Report, Promise!vars
  <2>1. CASE PostFails
    BY <2>1 DEF PostFails, End, WaitInv, SeenInv
  <2>2. CASE Answer
    <3>1. outcome = "pending" /\ (sample \in Exits => sample = task) /\ task' = task
      BY <2>2 DEF Answer, WaitInv, SeenInv
    <3>2. CASE sample \in Exits /\ End(Verdict(sample))
      BY <3>1, <3>2 DEF End, Verdict, Exits
    <3>3. CASE End("still_running")
      BY <3>1, <3>3 DEF End
    <3>4. CASE UNCHANGED outcome
      BY <3>1, <3>4
    <3> QED BY <2>2, <3>2, <3>3, <3>4 DEF Answer
  <2>3. CASE PollFails
    BY <2>3 DEF PollFails, End, WaitInv, SeenInv
  <2>4. CASE Stop
    BY <2>4 DEF Stop, Exits
  <2>5. CASE Accept
    BY <2>5 DEF Accept
  <2>6. CASE Posted \/ Poll \/ ReadStatus \/ Tick \/ UNCHANGED vars
    BY <2>6 DEF Posted, Poll, ReadStatus, Tick, vars
  <2> QED BY <2>1, <2>2, <2>3, <2>4, <2>5, <2>6 DEF Next, Client, Host
<1> QED BY <1>1, <1>2, Inductive, PTL DEF Spec, ImplementsPromise, Promise!Spec
=============================================================================
