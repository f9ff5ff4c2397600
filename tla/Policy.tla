------------------------------- MODULE Policy -------------------------------
(***************************************************************************)
(* internal/scheduling: the pure decision every launch, suspension and     *)
(* give-up goes through.  Nothing here keeps state: the scheduler gathers  *)
(* the world, asks, and acts on the answer.                                *)
(***************************************************************************)
EXTENDS Integers, Sequences, FiniteSets

CONSTANTS Workers,            \* config parallel_n: scheduled runs at a time
          MaxAttempts,        \* config max_attempts: tries before a task fails
          SessionThreshold,   \* 5h utilization at which the session is spent
          WeeklyThreshold,    \* 7-day utilization at which the week is spent
          MaxSnapshotAge      \* oldest usable reading; 0 disables the check

ASSUME PolicyAssumption ==
    /\ Workers \in Nat
    /\ MaxAttempts \in Nat \ {0}
    /\ SessionThreshold \in Nat
    /\ WeeklyThreshold \in Nat
    /\ MaxSnapshotAge \in Nat

-----------------------------------------------------------------------------
(* A usage reading as the gate sees it: is there one, how old is it, the   *)
(* two utilizations, and the time left of a recorded weekly backoff.       *)

Readings(Ages, Utils, Backoffs) ==
    [known : BOOLEAN, age : Ages, session : Utils, weekly : Utils,
     backoffLeft : Backoffs]

Trips(u) ==
    [no_usage_data     |-> ~u.known,
     stale_usage_data  |-> MaxSnapshotAge > 0 /\ u.age > MaxSnapshotAge,
     session_exhausted |-> u.session >= SessionThreshold,
     weekly_exhausted  |-> u.weekly >= WeeklyThreshold,
     weekly_backoff    |-> u.backoffLeft > 0]

\* The order in which the gates are tried: the first one that trips is told.
GateOrder == <<"no_usage_data", "stale_usage_data", "session_exhausted",
               "weekly_exhausted", "weekly_backoff">>

GateCodes == {"ready", "no_usage_data", "stale_usage_data",
              "session_exhausted", "weekly_exhausted", "weekly_backoff"}

GlobalGate(u) ==
    LET tripped == {i \in 1 .. Len(GateOrder) : Trips(u)[GateOrder[i]]}
    IN  IF tripped = {} THEN "ready"
        ELSE GateOrder[CHOOSE i \in tripped : \A j \in tripped : i <= j]

Blocking(code) == code \notin {"ready", "running", "queue_empty"}

-----------------------------------------------------------------------------
(* A candidate is [task, resume, attempt]: resume names the run whose      *)
(* session it continues (0: none), attempt how often the task was tried.   *)

\* Mistake: the cap is compared with the tries before this one.
CappedLate(c) == c.resume # 0 /\ c.attempt > MaxAttempts

Capped(c) == c.resume # 0 /\ c.attempt >= MaxAttempts

\* Mistake: a task launched by hand takes a scheduled worker as well.
ContendsByHand(c, running, force, gate) ==
    c.task \notin running /\ ~Capped(c) /\ ~Blocking(gate)

\* A candidate that takes a free worker if one is left.
Contends(c, running, force, gate) ==
    /\ c.task \notin running
    /\ ~Capped(c)
    /\ c.task \notin force
    /\ ~Blocking(gate)

Free(running) == Workers - Cardinality(running)

\* Mistake: a launch does not use up its worker.
AheadForgotten(cands, running, force, gate, i) == {}

\* Mistake: candidates of lower priority take their workers first.
AheadReversed(cands, running, force, gate, i) ==
    {j \in i + 1 .. Len(cands) : Contends(cands[j], running, force, gate)}

\* Candidates before position i that took, or would have taken, a worker.
Ahead(cands, running, force, gate, i) ==
    {j \in 1 .. i - 1 : Contends(cands[j], running, force, gate)}

\* Mistake: one worker too many.
ScheduledOneMore(cands, running, force, gate) ==
    {i \in 1 .. Len(cands) :
        /\ Contends(cands[i], running, force, gate)
        /\ Cardinality(Ahead(cands, running, force, gate, i)) <= Free(running)}

\* Positions that launch against the worker budget, in priority order.
Scheduled(cands, running, force, gate) ==
    {i \in 1 .. Len(cands) :
        /\ Contends(cands[i], running, force, gate)
        /\ Cardinality(Ahead(cands, running, force, gate, i)) < Free(running)}

\* Positions launched by hand, outside the worker budget and past the gates.
ByHand(cands, running, force) ==
    {i \in 1 .. Len(cands) : /\ cands[i].task \in force \ running
                             /\ ~Capped(cands[i])}

Launches(cands, running, force, gate) ==
    Scheduled(cands, running, force, gate) \cup ByHand(cands, running, force)

Failures(cands, running) ==
    {i \in 1 .. Len(cands) : Capped(cands[i]) /\ cands[i].task \notin running}

\* A spent session suspends every run in progress; no other gate does.
Suspends(running, gate) == IF gate = "session_exhausted" THEN running ELSE {}

\* Why each candidate is where it is: the Reason of its Decision.
Reason(cands, running, force, gate, i) ==
    LET launches == Launches(cands, running, force, gate)
    IN  CASE cands[i].task \in running          -> "running"
          [] i \in Failures(cands, running)     -> "attempt_cap"
          [] i \in launches                     -> "ready"
          [] i \notin launches /\ Contends(cands[i], running, force, gate)
                                                -> "workers_busy"
          [] OTHER                              -> gate

\* Candidates that wait for a reason which explains the queue.
Held(cands, running, force, gate) ==
    {i \in 1 .. Len(cands) :
        Reason(cands, running, force, gate, i)
            \notin {"running", "attempt_cap", "ready"}}

\* Mistake: an open gate and no launch is taken for an empty queue.
GlobalGuess(cands, running, force, gate) ==
    IF Blocking(gate) \/ Launches(cands, running, force, gate) # {}
    THEN gate ELSE "queue_empty"

\* The one-line answer to "why is nothing happening?".
Global(cands, running, force, gate) ==
    LET held == Held(cands, running, force, gate)
    IN  CASE Blocking(gate) \/ Launches(cands, running, force, gate) # {}
                 -> gate
          [] ~Blocking(gate) /\ cands = <<>>
                 -> "queue_empty"
          [] OTHER
                 -> IF held = {} THEN gate
                    ELSE Reason(cands, running, force, gate,
                                CHOOSE i \in held : \A j \in held : i <= j)

\* Mistake: a task is made resumable without a session to resume.
AlwaysResumable(hasSession) == "resumable"

\* The status a task takes when a run stops before finishing.
TaskStatusAfterInterruption(hasSession) ==
    IF hasSession THEN "resumable" ELSE "failed"
=============================================================================
