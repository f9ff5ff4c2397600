------------------------------- MODULE Runner -------------------------------
(***************************************************************************)
(* internal/runner: the goroutine that carries one task through one run,   *)
(* from the launch to the row it leaves behind.  There is at most one      *)
(* worker per task; its program counter stands between two statements      *)
(* another component can see.  Claude itself is `alive`, the set of runs   *)
(* whose claude process exists: it may outlive the worker that started it. *)
(***************************************************************************)
EXTENDS Store, Policy

CONSTANTS AgentTasks,    \* tasks with no repo_path: agent mode
          MaxContinue,   \* config max_auto_continue
          Faults         \* what may go wrong outside claude, see FaultKinds

FaultKinds == {"workspace",  \* git or mkdir fails before there is a run
               "token",      \* the account's token does not resolve
               "spawn",      \* the claude binary does not start
               "session"}    \* --resume finds no transcript

ASSUME RunnerAssumption ==
    /\ AgentTasks \subseteq Tasks
    /\ MaxContinue \in Nat
    /\ Faults \subseteq FaultKinds

VARIABLES
    worker,   \* [Tasks -> Worker], the in-flight registry and its goroutines
    alive,    \* runs whose claude process exists
    heard     \* ghost: comments that reached an agent

runnerVars == <<worker, alive, heard>>

\* What a claude process may end with, and how classify names the outcome.
Exits == {"ok", "waiting", "rate_limited", "timed_out", "denied", "error"}
Outcomes == {"success", "parked", "answered", "suspended", "cancelled",
             "rate_limited", "timed_out", "denied", "error"}
Causes == {"none", "suspended", "cancelled", "shutdown"}
Places == {"idle", "start", "workspace", "carry", "mark", "token",
           "tokensettle", "invoke", "spawned", "working", "exited", "finish",
           "consume", "settle", "reset", "preflight", "prefinish",
           "presettle", "done"}

Worker == [pc : Places, run : Nat, resume : Nat, attempt : Nat,
           manual : BOOLEAN, cause : Causes, exit : Exits \cup Outcomes,
           read : SUBSET Nat, continues : Nat]

NoWorker == [pc |-> "idle", run |-> 0, resume |-> 0, attempt |-> 0,
             manual |-> FALSE, cause |-> "none", exit |-> "ok", read |-> {},
             continues |-> 0]

RunnerTypeOK ==
    /\ worker \in [Tasks -> Worker]
    /\ alive \subseteq 1 .. Len(runs)
    /\ heard \subseteq Nat

RunnerInit ==
    /\ worker = [t \in Tasks |-> NoWorker]
    /\ alive = {}
    /\ heard = {}

At(t, pc) == worker[t].pc = pc
Goto(t, pc) == worker' = [worker EXCEPT ![t].pc = pc]
RunOf(t) == worker[t].run

\* The scheduler's s.inflight: tasks that hold a worker.
Inflight == {t \in Tasks : ~At(t, "idle")}

\* A worker that may still insert a run row.
Unrecorded == {t \in Tasks : worker[t].pc \in {"start", "workspace", "preflight"}}

\* Bound on launches: every worker finds room for the row it inserts.
RoomForRun == Len(runs) + Cardinality(Unrecorded) < MaxRuns

-----------------------------------------------------------------------------
(* Before there is a run.                                                  *)

\* The comments this run's prompt will carry are read first, once.
ReadComments(t) ==
    /\ At(t, "start")
    /\ worker' = [worker EXCEPT ![t].pc = "workspace",
                                ![t].read = UnconsumedComments(t)]
    /\ UNCHANGED <<storeVars, alive, heard>>

\* A managed task prepares its worktree with git under the launch context, so
\* a cancelled launch fails there too; an agent task only makes a directory.
WorkspaceFails(t) ==
    /\ At(t, "workspace")
    /\ \/ "workspace" \in Faults
       \/ t \notin AgentTasks /\ worker[t].cause # "none"
    /\ Goto(t, "preflight")
    /\ UNCHANGED <<storeVars, alive, heard>>

StartRun(t) ==
    /\ At(t, "workspace")
    /\ Exists(t)
    /\ CreateRun(t, worker[t].attempt)
    /\ worker' = [worker EXCEPT
                    ![t].run = Len(runs) + 1,
                    ![t].pc = IF worker[t].resume # 0 THEN "carry" ELSE "mark"]
    /\ UNCHANGED <<status, resetAt, comments, requests, alive, heard>>

\* The task row is gone: the foreign key refuses the run, the launch is over.
NoTaskToRun(t) ==
    /\ worker[t].pc \in {"workspace", "preflight"}
    /\ ~Exists(t)
    /\ Goto(t, "done")
    /\ UNCHANGED <<storeVars, alive, heard>>

\* preflightError: an errored run row that never had a session, and the task
\* back in the queue until these rows themselves exhaust its attempts.
PreflightRun(t) ==
    /\ At(t, "preflight")
    /\ Exists(t)
    /\ LET n == EffectiveAttempt(resetAt[t], LatestRunForTask(t)) + 1
       IN  /\ CreateRun(t, n)
           /\ worker' = [worker EXCEPT ![t].pc = "prefinish",
                                       ![t].run = Len(runs) + 1,
                                       ![t].attempt = n]
    /\ UNCHANGED <<status, resetAt, comments, requests, alive, heard>>

PreflightFinish(t) ==
    /\ At(t, "prefinish")
    /\ FinishRun(RunOf(t), "errored")
    /\ Goto(t, "presettle")
    /\ UNCHANGED <<status, resetAt, comments, requests, alive, heard>>

PreflightSettle(t) ==
    /\ At(t, "presettle")
    /\ SetTaskStatus(t, IF worker[t].attempt >= MaxAttempts
                        THEN "failed" ELSE "queued")
    /\ Goto(t, "done")
    /\ UNCHANGED <<resetAt, runs, comments, requests, alive, heard>>

-----------------------------------------------------------------------------
(* The run exists; claude is not started yet.                              *)

CarrySession(t) ==
    /\ At(t, "carry")
    /\ runs' = [runs EXCEPT ![RunOf(t)].session = TRUE,
                            ![RunOf(t)].status = "resuming"]
    /\ Goto(t, "mark")
    /\ UNCHANGED <<status, resetAt, comments, requests, alive, heard>>

MarkRunning(t) ==
    /\ At(t, "mark")
    /\ SetTaskStatus(t, "running")
    /\ Goto(t, "token")
    /\ UNCHANGED <<resetAt, runs, comments, requests, alive, heard>>

TokenFails(t) ==
    /\ At(t, "token")
    /\ "token" \in Faults
    /\ FinishRun(RunOf(t), "errored")
    /\ Goto(t, "tokensettle")
    /\ UNCHANGED <<status, resetAt, comments, requests, alive, heard>>

TokenSettle(t) ==
    /\ At(t, "tokensettle")
    /\ SetTaskStatus(t, IF worker[t].resume # 0 THEN "resumable" ELSE "queued")
    /\ Goto(t, "done")
    /\ UNCHANGED <<resetAt, runs, comments, requests, alive, heard>>

Begin(t) ==
    /\ At(t, "token")
    /\ runs' = [runs EXCEPT ![RunOf(t)].status = "running"]
    /\ Goto(t, "invoke")
    /\ UNCHANGED <<status, resetAt, comments, requests, alive, heard>>

-----------------------------------------------------------------------------
(* Claude runs.  Its process is started even under a cancelled context and *)
(* killed right after; only then is its pid recorded.                      *)

Spawn(t) ==
    /\ At(t, "invoke")
    /\ alive' = alive \cup {RunOf(t)}
    /\ heard' = heard \cup worker[t].read
    /\ Goto(t, "spawned")
    /\ UNCHANGED storeVars

SpawnFails(t) ==
    /\ At(t, "invoke")
    /\ "spawn" \in Faults
    /\ worker' = [worker EXCEPT ![t].pc = "exited", ![t].exit = "error"]
    /\ UNCHANGED <<storeVars, alive, heard>>

RecordPid(t) ==
    /\ At(t, "spawned")
    /\ runs' = [runs EXCEPT ![RunOf(t)].pid = TRUE]
    /\ Goto(t, "working")
    /\ UNCHANGED <<status, resetAt, comments, requests, alive, heard>>

\* The first system/init event names the session, persisted at once.
SessionInit(t) ==
    /\ At(t, "working")
    /\ ~runs[RunOf(t)].session
    /\ runs' = [runs EXCEPT ![RunOf(t)].session = TRUE]
    /\ UNCHANGED <<status, resetAt, comments, requests, worker, alive, heard>>

\* A denied tool call ended claude: the same session is nudged to go on.  The
\* pid column keeps naming the process that is gone.
AutoContinue(t) ==
    /\ At(t, "working")
    /\ worker[t].cause = "none"
    /\ runs[RunOf(t)].session
    /\ worker[t].continues < MaxContinue
    /\ alive' = alive \ {RunOf(t)}
    /\ runs' = [runs EXCEPT ![RunOf(t)].status = "resuming",
                            ![RunOf(t)].pid = FALSE]
    /\ worker' = [worker EXCEPT ![t].pc = "invoke", ![t].continues = @ + 1]
    /\ UNCHANGED <<status, resetAt, comments, requests, heard>>

\* No transcript for the session to resume: start over in a fresh one.
SessionMissing(t) ==
    /\ At(t, "working")
    /\ "session" \in Faults
    /\ worker[t].resume # 0
    /\ worker[t].cause = "none"
    /\ alive' = alive \ {RunOf(t)}
    /\ runs' = [runs EXCEPT ![RunOf(t)].session = FALSE,
                            ![RunOf(t)].status = "running",
                            ![RunOf(t)].pid = FALSE]
    /\ worker' = [worker EXCEPT ![t].pc = "invoke", ![t].resume = 0,
                                ![t].continues = 0]
    /\ UNCHANGED <<status, resetAt, comments, requests, heard>>

\* A cancelled context wins over everything but a rate limit and a timeout.
PossibleExits(t) ==
    IF worker[t].cause # "none" THEN {"rate_limited", "timed_out", "error"}
    ELSE IF t \in AgentTasks THEN Exits ELSE Exits \ {"waiting"}

\* Mistake: the worker goes on before the process it started is gone.
ClaudeExitsUnwaited(t) ==
    /\ At(t, "working")
    /\ \E e \in PossibleExits(t) :
          worker' = [worker EXCEPT ![t].pc = "exited", ![t].exit = e]
    /\ UNCHANGED <<storeVars, alive, heard>>

ClaudeExits(t) ==
    /\ At(t, "working")
    /\ \E e \in PossibleExits(t) :
          worker' = [worker EXCEPT ![t].pc = "exited", ![t].exit = e]
    /\ alive' = alive \ {RunOf(t)}
    /\ UNCHANGED <<storeVars, heard>>

-----------------------------------------------------------------------------
(* classify: the outcome is fixed by claude's exit, the cause the context  *)
(* carries at that moment and, for a parked agent, its requests; the rows  *)
(* are written one statement after another.                                *)

AnsweredInParkWindow(r) ==
    /\ RequestsOfRun(r) # {}
    /\ \A q \in RequestsOfRun(r) : requests[q].status # "pending"

Outcome(t) ==
    CASE worker[t].exit = "ok"           -> "success"
      [] worker[t].exit = "waiting"      -> IF AnsweredInParkWindow(RunOf(t))
                                            THEN "answered" ELSE "parked"
      [] worker[t].exit \notin {"ok", "waiting"} ->
            IF worker[t].cause \in {"suspended", "cancelled"}
            THEN worker[t].cause ELSE worker[t].exit

Classify(t) ==
    /\ At(t, "exited")
    /\ runs' = [runs EXCEPT ![RunOf(t)].pid = FALSE]
    /\ worker' = [worker EXCEPT ![t].pc = "finish", ![t].exit = Outcome(t)]
    /\ UNCHANGED <<status, resetAt, comments, requests, alive, heard>>

\* Mistake: the status of the task is written to the row of the run.
TaskStatusInRun ==
    [success |-> "pr_created", parked |-> "awaiting_human", answered |-> "succeeded",
     suspended |-> "rate_limited", rate_limited |-> "rate_limited",
     timed_out |-> "timed_out", cancelled |-> "errored", denied |-> "errored",
     error |-> "errored"]

RunStatusFor ==
    [success |-> "succeeded", parked |-> "succeeded", answered |-> "succeeded",
     suspended |-> "rate_limited", rate_limited |-> "rate_limited",
     timed_out |-> "timed_out", cancelled |-> "errored", denied |-> "errored",
     error |-> "errored"]

\* Mistake: the branch of a denied tool returns before it settles the task.
FinishOnly(t) ==
    /\ At(t, "finish")
    /\ FinishRun(RunOf(t), RunStatusFor[worker[t].exit])
    /\ Goto(t, CASE worker[t].exit \in {"success", "parked"} -> "consume"
                 [] worker[t].exit = "denied" -> "done"
                 [] worker[t].exit \notin {"success", "parked", "denied"} -> "settle")
    /\ UNCHANGED <<status, resetAt, comments, requests, alive, heard>>

Finish(t) ==
    /\ At(t, "finish")
    /\ FinishRun(RunOf(t), RunStatusFor[worker[t].exit])
    /\ Goto(t, IF worker[t].exit \in {"success", "parked"}
               THEN "consume" ELSE "settle")
    /\ UNCHANGED <<status, resetAt, comments, requests, alive, heard>>

Consume(t) ==
    /\ At(t, "consume")
    /\ MarkCommentsConsumed(t)
    /\ Goto(t, "settle")
    /\ UNCHANGED <<status, resetAt, runs, requests, alive, heard>>

TaskStatusFor(t) ==
    LET session == runs[RunOf(t)].session
        x == worker[t].exit
    IN  CASE x = "success"   -> "pr_created"
          [] x = "parked"    -> "awaiting_human"
          [] x = "answered"  -> IF session THEN "resumable" ELSE "queued"
          [] x = "cancelled" -> "paused"
          [] x \notin {"success", "parked", "answered", "cancelled"}
                             -> TaskStatusAfterInterruption(session)

Settle(t) ==
    /\ At(t, "settle")
    /\ SetTaskStatus(t, TaskStatusFor(t))
    /\ Goto(t, IF worker[t].exit = "answered" THEN "reset" ELSE "done")
    /\ UNCHANGED <<resetAt, runs, comments, requests, alive, heard>>

ResetAfterAnswer(t) ==
    /\ At(t, "reset")
    /\ ResetTaskAttempts(t)
    /\ Goto(t, "done")
    /\ UNCHANGED <<status, runs, comments, requests, alive, heard>>

-----------------------------------------------------------------------------
(* Steps the goroutine takes by itself, and those that report claude.      *)

RunnerStep(t) ==
    \/ ReadComments(t) \/ WorkspaceFails(t) \/ StartRun(t) \/ NoTaskToRun(t)
    \/ PreflightRun(t) \/ PreflightFinish(t) \/ PreflightSettle(t)
    \/ CarrySession(t) \/ MarkRunning(t) \/ TokenFails(t) \/ TokenSettle(t)
    \/ Begin(t) \/ Spawn(t) \/ SpawnFails(t) \/ RecordPid(t)
    \/ AutoContinue(t) \/ SessionMissing(t) \/ ClaudeExits(t)
    \/ Classify(t) \/ Finish(t) \/ Consume(t) \/ Settle(t)
    \/ ResetAfterAnswer(t)

RunnerNext == \E t \in Tasks : RunnerStep(t) \/ SessionInit(t)
=============================================================================
