------------------------------ MODULE TaskWait ------------------------------
(***************************************************************************)
(* One Proxmox task requested and waited for: Provisioner._await_task over *)
(* ProxmoxApi._do_http, handle_api_response, get_task and wait_for_task.   *)
(* Time is a clock in seconds; an HTTP exchange is in flight for up to     *)
(* MaxLatency of them (the session limits only the connect), and a poll's  *)
(* answer carries the status the host read somewhere in that time.         *)
(***************************************************************************)
EXTENDS Integers

CONSTANTS
  MaxWait,      \* max_wait_s
  MaxLatency,   \* the longest an HTTP exchange takes
  Horizon,      \* bound: the clock and the task stop there
  Faults        \* what may go wrong with an exchange, a subset of FaultKinds

FaultKinds == {"refused", "lost", "unreadable", "broken"}

ASSUME WaitAssumption ==
  /\ MaxWait \in Nat
  /\ MaxLatency \in Nat
  /\ Horizon \in Nat /\ Horizon > MaxWait + 3 * MaxLatency + 1
  /\ Faults \subseteq FaultKinds

VARIABLES
  task,       \* the host's task: "none", "running", or its exit "OK", "error"
  stoppedAt,  \* when it stopped
  phase,      \* the client: "post", "get", "answer", "sleep" or "done"
  sample,     \* the status the poll in flight has read
  since,      \* when the exchange in flight, or the sleep, began
  start,      \* monotonic() at the first answer
  outcome,    \* the TaskOutcome: "pending", "ok", or the kind of its error
  now

vars == <<task, stoppedAt, phase, sample, since, start, outcome, now>>

Never == -1
Exits == {"OK", "error"}
Errors == {"request_failed", "status_unreadable", "still_running", "bad_exit", "raised"}

TypeOK ==
  /\ task \in {"none", "running"} \cup Exits
  /\ stoppedAt \in Nat \cup {Never}
  /\ phase \in {"post", "get", "answer", "sleep", "done"}
  /\ sample \in {"none", "running"} \cup Exits
  /\ since \in Nat
  /\ start \in Nat \cup {Never}
  /\ outcome \in {"pending", "ok"} \cup Errors
  /\ now \in Nat

Init ==
  /\ task = "none"
  /\ stoppedAt = Never
  /\ phase = "post"
  /\ sample = "none"
  /\ since = 0
  /\ start = Never
  /\ outcome = "pending"
  /\ now = 0

-----------------------------------------------------------------------------
(* The client *)

End(result) ==
  /\ phase' = "done"
  /\ outcome' = result

\* The request is answered with the task's UPID, or it fails: to the client a
\* connection lost after the host took the request is no different from one
\* that never reached it.
Posted ==
  /\ phase = "post"
  /\ task # "none"
  /\ phase' = "get"
  /\ since' = now
  /\ UNCHANGED <<task, stoppedAt, sample, start, outcome, now>>

PostFails ==
  /\ phase = "post"
  /\ (IF task = "none" THEN "refused" ELSE "lost") \in Faults
  /\ End("request_failed")
  /\ UNCHANGED <<task, stoppedAt, sample, since, start, now>>

\* Mutants: the clock restarts with every answer; one second too many, one
\* too few, of the wait; any exit passes for OK.
EachAnswer == now
OneMoreSecond(from) == now - from <= MaxWait
OneSecondLess(from) == now - from + 1 < MaxWait
AnyExit(status) == "ok"

FirstAnswer == IF start = Never THEN now ELSE start
TimeLeft(from) == now - from < MaxWait
Verdict(status) == IF status = "OK" THEN "ok" ELSE "bad_exit"

\* The answer of a poll.  A stopped task ends the wait with its exit status;
\* a running one does once MaxWait has passed since the first answer.
Answer ==
  /\ phase = "answer"
  /\ start' = FirstAnswer
  /\ \/ /\ sample \in Exits
        /\ End(Verdict(sample))
        /\ UNCHANGED since
     \/ /\ sample = "running"
        /\ ~TimeLeft(FirstAnswer)
        /\ End("still_running")
        /\ UNCHANGED since
     \/ /\ sample = "running"
        /\ TimeLeft(FirstAnswer)
        /\ phase' = "sleep"
        /\ since' = now
        /\ UNCHANGED outcome
  /\ UNCHANGED <<task, stoppedAt, sample, now>>

\* An HTTP error, an unexpected body or a failed connection ends the wait; a
\* body that breaks off while it is read raises out of handle_api_response.
PollFails ==
  /\ phase = "answer"
  /\ \/ "unreadable" \in Faults /\ End("status_unreadable")
     \/ "broken" \in Faults /\ End("raised")
  /\ UNCHANGED <<task, stoppedAt, sample, since, start, now>>

\* asyncio.sleep(1), then the next poll.
Poll ==
  /\ phase = "sleep"
  /\ now > since
  /\ phase' = "get"
  /\ since' = now
  /\ sample' = "none"
  /\ UNCHANGED <<task, stoppedAt, start, outcome, now>>

-----------------------------------------------------------------------------
(* The host and the clock *)

Accept ==
  /\ phase = "post"
  /\ task = "none"
  /\ task' = "running"
  /\ UNCHANGED <<stoppedAt, phase, sample, since, start, outcome, now>>

ReadStatus ==
  /\ phase = "get"
  /\ sample' = task
  /\ phase' = "answer"
  /\ UNCHANGED <<task, stoppedAt, since, start, outcome, now>>

Stop ==
  /\ task = "running"
  /\ task' \in Exits
  /\ stoppedAt' = now
  /\ UNCHANGED <<phase, sample, since, start, outcome, now>>

\* Time passes while a task runs or an exchange is in flight, and by one
\* second over a sleep.
Tick ==
  /\ now < Horizon
  /\ phase \in {"post", "get", "answer"} => now - since < MaxLatency
  /\ phase = "sleep" => now = since
  /\ now' = now + 1
  /\ UNCHANGED <<task, stoppedAt, phase, sample, since, start, outcome>>

Client == Posted \/ PostFails \/ Answer \/ PollFails \/ Poll

Host == Accept \/ ReadStatus

Next == Client \/ Host \/ Stop \/ Tick

Spec == Init /\ [][Next]_vars

\* The client's event loop runs, the host answers and the clock advances; a
\* task need never stop.
FairSpec == Spec /\ WF_vars(Client) /\ WF_vars(Host) /\ WF_vars(Tick)

-----------------------------------------------------------------------------
(* "still_running" is reported only of a task that was running when all but
   one exchange of the wait had passed: a task that stops well within
   max_wait_s is never timed out. *)
TimeoutIsHonest ==
  outcome = "still_running" =>
    \/ stoppedAt = Never
    \/ stoppedAt >= start + MaxWait - MaxLatency

(* The wait is over within one sleep and one exchange after max_wait_s,
   whatever the task does: the deadline is tested before every sleep. *)
WaitIsBounded ==
  phase # "done" /\ start # Never => now < start + MaxWait + 1 + MaxLatency

(* Every wait ends, also the wait on a task that never stops. *)
WaitEnds == <>(phase = "done")

(* The wait implements what its callers rest on: "ok" is reported only of a
   task that stopped with OK, and only once. *)
Promise == INSTANCE AwaitedTask WITH
  outcome <- IF outcome \in {"pending", "ok"} THEN outcome ELSE "failed"

ImplementsPromise == Promise!Spec

-----------------------------------------------------------------------------
(* The inductive invariant behind the theorems (TaskWaitProofs) *)

\* What the client has seen of the task, and when.
SeenInv ==
  /\ outcome = "pending" <=> phase # "done"
  /\ phase = "post" => start = Never
  /\ phase \in {"get", "answer", "sleep"} => task # "none"
  /\ phase = "answer" => sample # "none" /\ (sample \in Exits => sample = task)
  /\ stoppedAt = Never <=> task \notin Exits
  /\ phase = "answer" /\ sample = "running" /\ stoppedAt # Never => stoppedAt >= since

\* How the clock, the exchange in flight and the deadline are apart.
ClockInv ==
  /\ since <= now
  /\ phase \in {"post", "get", "answer"} => now <= since + MaxLatency
  /\ phase = "sleep" => now <= since + 1 /\ start # Never /\ since < start + MaxWait
  /\ phase \in {"get", "answer"} /\ start # Never => since <= start + MaxWait
  /\ outcome = "still_running" => start # Never /\ now >= start + MaxWait

WaitInv == TypeOK /\ SeenInv /\ ClockInv /\ TimeoutIsHonest

=============================================================================
