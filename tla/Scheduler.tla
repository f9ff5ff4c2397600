----------------------------- MODULE Scheduler -----------------------------
(***************************************************************************)
(* internal/scheduler: the daemon's loop.  A tick reconciles the runs a    *)
(* previous daemon left behind, asks the policy for a plan and acts on it, *)
(* one side effect at a time, while workers and HTTP handlers go on.  The  *)
(* mutex s.mu guards the in-flight registry; it is held over a whole       *)
(* reconcile, except while an orphaned claude is being killed.             *)
(***************************************************************************)
EXTENDS Runner

CONSTANT Gates     \* the answers GlobalGate may give

ASSUME SchedulerAssumption == Gates \subseteq GateCodes

VARIABLES
    sched,   \* the loop: where it is, and the plan it is acting on
    mode     \* the process: "up", "stopping" (SIGTERM), "down"

schedulerVars == <<sched, mode>>

\* Where the loop stands.  In "burying" and "settling" it holds s.mu.
Stages == {"idle", "listed", "burying", "killing", "settling", "fetch",
           "fetchqueued", "decide", "act", "waiting", "stopped"}

Candidate == [task : Tasks, resume : Nat, attempt : Nat]

\* A run row as RunsByStatus returned it.
ActiveRun == [id : Nat, task : Tasks, session : BOOLEAN, pid : BOOLEAN]

Sched == [pc : Stages, list : Seq(ActiveRun), cands : Seq(Candidate),
          suspend : SUBSET Tasks, fail : SUBSET Nat, launch : SUBSET Nat]

Resting == [pc |-> "idle", list |-> <<>>, cands |-> <<>>, suspend |-> {},
            fail |-> {}, launch |-> {}]

SchedulerTypeOK ==
    /\ sched \in Sched
    /\ mode \in {"up", "stopping", "down"}

SchedulerInit ==
    /\ sched = Resting
    /\ mode = "down"

\* Mistake: the shutdown waits for the workers without giving up the mutex.
LockHeldToTheEnd == sched.pc \in {"burying", "settling", "waiting"}

LockHeld == sched.pc \in {"burying", "settling"}

Step(pc) == sched' = [sched EXCEPT !.pc = pc]

-----------------------------------------------------------------------------
(* The in-flight registry.  Each operation takes the mutex once.           *)

NewWorker(c, manual) ==
    [NoWorker EXCEPT
        !.pc = "start",
        !.resume = c.resume,
        !.attempt = IF c.resume # 0 THEN c.attempt + 1 ELSE 1,
        !.manual = manual,
        !.cause = IF ~manual /\ mode = "stopping" THEN "shutdown" ELSE "none"]

\* Mistake: the registry is not asked again before a launch.
LaunchUnchecked(c, manual) ==
    worker' = IF RoomForRun
              THEN [worker EXCEPT ![c.task] = NewWorker(c, manual)]
              ELSE worker

\* launch: a task already in flight is left alone.  A scheduled run's context
\* is a child of the daemon's; one launched by hand is rooted at Background.
Launch(c, manual) ==
    worker' = IF c.task \notin Inflight /\ RoomForRun
              THEN [worker EXCEPT ![c.task] = NewWorker(c, manual)]
              ELSE worker

\* A context keeps the first cause it was cancelled with.
Cancelled(w, cause) ==
    IF w.pc # "idle" /\ w.cause = "none" THEN [w EXCEPT !.cause = cause] ELSE w

Cancel(t, cause) == worker' = [worker EXCEPT ![t] = Cancelled(@, cause)]

CancelEvery(S, cause) ==
    worker' = [t \in Tasks |-> IF t \in S THEN Cancelled(worker[t], cause)
                               ELSE worker[t]]

\* The deferred end of launch's goroutine.
Release(t) ==
    /\ At(t, "done")
    /\ ~LockHeld
    /\ worker' = [worker EXCEPT ![t] = NoWorker]
    /\ UNCHANGED <<storeVars, alive, heard, schedulerVars>>

-----------------------------------------------------------------------------
(* reconcile.                                                              *)

ActiveRuns == {r \in 1 .. Len(runs) : runs[r].status \in ActiveStatus}

Snapshot(r) == [id |-> r, task |-> runs[r].task, session |-> runs[r].session,
                pid |-> runs[r].pid]

\* Mistake: runs that were resuming a session are not looked for.
ListMostRuns ==
    /\ sched.pc = "idle"
    /\ mode # "down"
    /\ \E o \in Orderings({r \in ActiveRuns : runs[r].status # "resuming"}) :
          /\ \A i, j \in DOMAIN o : i < j => o[i] > o[j]
          /\ sched' = [sched EXCEPT !.pc = "listed",
                                   !.list = [i \in DOMAIN o |-> Snapshot(o[i])]]
    /\ UNCHANGED <<storeVars, runnerVars, mode>>

\* RunsByStatus is queried before the lock is taken, newest run first.
ListActiveRuns ==
    /\ sched.pc = "idle"
    /\ mode # "down"
    /\ \E o \in Orderings(ActiveRuns) :
          /\ \A i, j \in DOMAIN o : i < j => o[i] > o[j]
          /\ sched' = [sched EXCEPT !.pc = "listed",
                                   !.list = [i \in DOMAIN o |-> Snapshot(o[i])]]
    /\ UNCHANGED <<storeVars, runnerVars, mode>>

LockForReconcile ==
    /\ sched.pc = "listed"
    /\ Step("burying")
    /\ UNCHANGED <<storeVars, runnerVars, mode>>

Found == Head(sched.list)   \* the run reconcile is looking at

SkipTracked ==
    /\ sched.pc = "burying" /\ sched.list # <<>>
    /\ Found.task \in Inflight
    /\ sched' = [sched EXCEPT !.list = Tail(@)]
    /\ UNCHANGED <<storeVars, runnerVars, mode>>

UnlockToKill ==
    /\ sched.pc = "burying" /\ sched.list # <<>>
    /\ Found.task \notin Inflight
    /\ Found.pid /\ Found.id \in alive
    /\ Step("killing")
    /\ UNCHANGED <<storeVars, runnerVars, mode>>

\* The orphan is gone, the lock is taken again and the row is closed without
\* another look at the registry.
KillOrphan ==
    /\ sched.pc = "killing"
    /\ alive' = alive \ {Found.id}
    /\ FinishRun(Found.id, "errored")
    /\ Step("settling")
    /\ UNCHANGED <<status, resetAt, comments, requests, worker, heard, mode>>

\* No process, a recycled pid, or no pid on record: all closed the same way.
BuryRun ==
    /\ sched.pc = "burying" /\ sched.list # <<>>
    /\ Found.task \notin Inflight
    /\ ~(Found.pid /\ Found.id \in alive)
    /\ FinishRun(Found.id, "errored")
    /\ Step("settling")
    /\ UNCHANGED <<status, resetAt, comments, requests, runnerVars, mode>>

\* Mistake: the task of a dead run starts over.
RequeueBuried ==
    /\ sched.pc = "settling"
    /\ SetTaskStatus(Found.task, "queued")
    /\ sched' = [sched EXCEPT !.pc = "burying", !.list = Tail(@)]
    /\ UNCHANGED <<resetAt, runs, comments, requests, runnerVars, mode>>

SettleBuried ==
    /\ sched.pc = "settling"
    /\ SetTaskStatus(Found.task, TaskStatusAfterInterruption(Found.session))
    /\ sched' = [sched EXCEPT !.pc = "burying", !.list = Tail(@)]
    /\ UNCHANGED <<resetAt, runs, comments, requests, runnerVars, mode>>

UnlockReconciled ==
    /\ sched.pc = "burying" /\ sched.list = <<>>
    /\ Step("fetch")
    /\ UNCHANGED <<storeVars, runnerVars, mode>>

-----------------------------------------------------------------------------
(* plan: two queries, then the decision over the registry as it is now.    *)

FetchResumable ==
    /\ sched.pc = "fetch"
    /\ \E o \in Orderings(ResumableRuns) :
          sched' = [sched EXCEPT !.pc = "fetchqueued", !.cands = o]
    /\ UNCHANGED <<storeVars, runnerVars, mode>>

FetchQueued ==
    /\ sched.pc = "fetchqueued"
    /\ \E o \in Orderings(QueuedTasks) :
          sched' = [sched EXCEPT !.pc = "decide", !.cands = @ \o o]
    /\ UNCHANGED <<storeVars, runnerVars, mode>>

Decide ==
    /\ sched.pc = "decide"
    /\ \E gate \in Gates :
          sched' = [sched EXCEPT
                      !.pc = "act",
                      !.suspend = Suspends(Inflight, gate),
                      !.fail = Failures(sched.cands, Inflight),
                      !.launch = Launches(sched.cands, Inflight, {}, gate)]
    /\ UNCHANGED <<storeVars, runnerVars, mode>>

-----------------------------------------------------------------------------
(* evaluate: suspends, then failures, then launches, each on its own.      *)

Suspend ==
    /\ sched.pc = "act"
    /\ \E t \in sched.suspend :
          /\ Cancel(t, "suspended")
          /\ sched' = [sched EXCEPT !.suspend = @ \ {t}]
    /\ UNCHANGED <<storeVars, alive, heard, mode>>

Fail ==
    /\ sched.pc = "act"
    /\ sched.suspend = {}
    /\ \E i \in sched.fail :
          /\ SetTaskStatus(sched.cands[i].task, "failed")
          /\ sched' = [sched EXCEPT !.fail = @ \ {i}]
    /\ UNCHANGED <<resetAt, runs, comments, requests, runnerVars, mode>>

\* The store row kept for a task is the one fetched last (byID).
RowFor(t) ==
    sched.cands[Max({i \in 1 .. Len(sched.cands) : sched.cands[i].task = t})]

LaunchPlanned ==
    /\ sched.pc = "act"
    /\ sched.suspend = {} /\ sched.fail = {}
    /\ \E i \in sched.launch :
          /\ \A j \in sched.launch : i <= j
          /\ Launch(RowFor(sched.cands[i].task), FALSE)
          /\ sched' = [sched EXCEPT !.launch = @ \ {i}]
    /\ UNCHANGED <<storeVars, alive, heard, mode>>

EndTick ==
    /\ sched.pc = "act"
    /\ sched.suspend = {} /\ sched.fail = {} /\ sched.launch = {}
    /\ sched' = Resting
    /\ UNCHANGED <<storeVars, runnerVars, mode>>

-----------------------------------------------------------------------------
(* Shutdown: SIGTERM cancels the daemon's context and with it every        *)
(* scheduled run; the loop sees it between ticks, cancels whatever is in   *)
(* flight and waits for the goroutines.                                    *)

Terminate ==
    /\ mode = "up"
    /\ mode' = "stopping"
    /\ CancelEvery({t \in Inflight : ~worker[t].manual}, "shutdown")
    /\ UNCHANGED <<storeVars, alive, heard, sched>>

CancelAll ==
    /\ sched.pc = "idle"
    /\ mode = "stopping"
    /\ CancelEvery(Inflight, "shutdown")
    /\ Step("waiting")
    /\ UNCHANGED <<storeVars, alive, heard, mode>>

\* launch enters a run in the registry, gives the mutex up and only then adds
\* its goroutine to the wait group: a handler's launch may stand in between.
Uncounted(t) == At(t, "start") /\ worker[t].manual

\* Mistake: nobody waits for the goroutines.
NotDrained == sched.pc = "waiting"

Drained ==
    /\ sched.pc = "waiting"
    /\ \A t \in Inflight : Uncounted(t)

\* The wait returns, once: the loop is over, and handlers may still launch.
LoopEnds ==
    /\ Drained
    /\ Step("stopped")
    /\ UNCHANGED <<storeVars, runnerVars, mode>>

-----------------------------------------------------------------------------
TickStep ==
    \/ ListActiveRuns \/ LockForReconcile \/ SkipTracked \/ UnlockToKill
    \/ KillOrphan \/ BuryRun \/ SettleBuried \/ UnlockReconciled
    \/ FetchResumable \/ FetchQueued \/ Decide \/ Suspend \/ Fail
    \/ LaunchPlanned \/ EndTick

WorkerStep(t) == RunnerStep(t) /\ UNCHANGED schedulerVars
=============================================================================
