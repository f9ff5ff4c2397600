--------------------------- MODULE OwnershipProofs ---------------------------
(***************************************************************************)
(* Who owns what is running.  A run row that is active, a claude that is   *)
(* alive and a task that reads "running" belong to a worker of this        *)
(* daemon: at all times while no daemon has crashed and none has ended     *)
(* beside a run its users were still launching, and after such an end from *)
(* the end of the next first reconcile on, unless users intervene before.  *)
(* The first half is NothingStranded, OneClaude and                        *)
(* ExitLosesNoScheduledRun, the second PlansOnCleanSlate.                  *)
(***************************************************************************)
EXTENDS LeaseProofs

\* Where a worker stands that has ended its run, is at work on it, or has
\* written "running" and not yet anything after it.
Closed == {"tokensettle", "presettle", "consume", "settle", "reset", "done"}
Open == {"invoke", "spawned", "working"}
Running == {"token", "tokensettle", "invoke", "spawned", "working", "exited",
            "finish", "consume", "settle"}

ClosedAt(t) == worker[t].pc \in Closed /\ worker[t].run # 0 => worker[t].run \notin ActiveRuns
OpenAt(t) == worker[t].pc \in Open => worker[t].run \in ActiveRuns
RunningAt(t) == status[t] = "running" => worker[t].pc \in Running

\* What a step of the worker of t may do to the rows of others: nothing.
OthersKept(t) ==
    /\ \A u \in Tasks \ {t} : worker'[u] = worker[u] /\ status'[u] = status[u]
    /\ worker[t].run \in {0, worker'[t].run}
    /\ \A r \in 1 .. Len(runs') : r # worker'[t].run =>
          r \in 1 .. Len(runs) /\ runs'[r] = runs[r]
    /\ Len(runs) \in Nat /\ Len(runs') \in Nat /\ Len(runs') >= Len(runs)
    /\ alive' \subseteq alive \cup {worker'[t].run}

\* One row is assigned: the others stay.
LEMMA RowAssigned ==
    ASSUME runs \in Seq(RunRow), NEW r, NEW row, runs' = [runs EXCEPT ![r] = row]
    PROVE  /\ Len(runs') = Len(runs) /\ Len(runs) \in Nat
           /\ \A q \in 1 .. Len(runs) : q # r => runs'[q] = runs[q]
           /\ r \in 1 .. Len(runs) => runs'[r] = row
           /\ row.status \in ActiveStatus /\ r \in 1 .. Len(runs) => r \in ActiveRuns'
           /\ row.status \notin ActiveStatus => r \notin ActiveRuns'
<1>1. /\ Len(runs') = Len(runs) /\ Len(runs) \in Nat
      /\ \A q \in 1 .. Len(runs) : q # r => runs'[q] = runs[q]
      /\ r \in 1 .. Len(runs) => runs'[r] = row
  <2>1. Len(runs) \in Nat /\ DOMAIN runs = 1 .. Len(runs) /\ DOMAIN runs' = 1 .. Len(runs)
    OBVIOUS
  <2>2. runs \in [1 .. Len(runs) -> RunRow]
    OBVIOUS
  <2>3. Len(runs') = Len(runs)
    BY <2>1
  <2> QED
    BY <2>1, <2>2, <2>3
<1> QED
  BY <1>1 DEF ActiveRuns

-----------------------------------------------------------------------------
(* The runner.                                                             *)

\* What a worker does about its task and its run leaves the three facts about
\* where it stands in place, and the rows of others alone.
WorkerEffect(t) ==
    /\ OthersKept(t)
    /\ worker[t].pc # "idle" /\ worker'[t].pc # "idle"
    /\ ClosedAt(t) => ClosedAt(t)'
    /\ OpenAt(t) => OpenAt(t)'
    /\ RunningAt(t) => RunningAt(t)'

\* Steps of a worker that leave the runs alone.
LEMMA RunsAlone ==
    ASSUME RunnerInv, RunnerInv', RowsOK, NEW t \in Tasks,
           \/ ReadComments(t) \/ WorkspaceFails(t) \/ NoTaskToRun(t)
           \/ PreflightSettle(t) \/ MarkRunning(t) \/ TokenSettle(t) \/ Spawn(t)
           \/ SpawnFails(t) \/ ClaudeExits(t) \/ Consume(t) \/ Settle(t)
           \/ ResetAfterAnswer(t)
    PROVE  WorkerEffect(t)
<1>0. /\ worker \in [Tasks -> Worker] /\ worker' \in [Tasks -> Worker]
      /\ worker[t] \in Worker /\ Len(runs) \in Nat
      /\ status \in [Tasks -> TaskStatus \cup Missing]
  BY DEF RunnerInv, RunnerTypeOK, StoreTypeOK
<1>1. runs' = runs /\ alive' \subseteq alive \cup {worker[t].run}
  BY DEF ReadComments, WorkspaceFails, NoTaskToRun, PreflightSettle, MarkRunning,
     TokenSettle, Spawn, SpawnFails, ClaudeExits, Consume, Settle, ResetAfterAnswer,
     storeVars, RunOf
<1>2. \A u \in Tasks \ {t} : worker'[u] = worker[u]
  BY <1>0 DEF ReadComments, WorkspaceFails, NoTaskToRun, PreflightSettle, MarkRunning,
     TokenSettle, Spawn, SpawnFails, ClaudeExits, Consume, Settle, ResetAfterAnswer, Goto
<1>3. worker'[t].run = worker[t].run
  BY <1>0 DEF ReadComments, WorkspaceFails, NoTaskToRun, PreflightSettle, MarkRunning,
     TokenSettle, Spawn, SpawnFails, ClaudeExits, Consume, Settle, ResetAfterAnswer,
     Goto, Worker
<1>4. \/ status' = status
         /\ \/ /\ worker[t].pc \in Early \ {"idle"}
               /\ worker'[t].pc \in {"workspace", "preflight", "done"}
            \/ worker[t].pc = "invoke" /\ worker'[t].pc \in {"spawned", "exited"}
            \/ worker[t].pc = "working" /\ worker'[t].pc = "exited"
            \/ worker[t].pc = "consume" /\ worker'[t].pc = "settle"
            \/ worker[t].pc = "reset" /\ worker'[t].pc = "done"
      \/ /\ \E s \in TaskStatus \ {"running"} : SetTaskStatus(t, s)
         /\ worker[t].pc \in {"presettle", "tokensettle", "settle"}
         /\ worker'[t].pc \in {"done", "reset"}
      \/ /\ SetTaskStatus(t, "running")
         /\ worker[t].pc = "mark" /\ worker'[t].pc = "token"
  <2>1. TaskStatusFor(t) \in TaskStatus \ {"running"}
    BY DEF TaskStatusFor, TaskStatusAfterInterruption, TaskStatus
  <2> QED
    BY <1>0, <2>1 DEF ReadComments, WorkspaceFails, NoTaskToRun, PreflightSettle,
       MarkRunning, TokenSettle, Spawn, SpawnFails, ClaudeExits, Consume, Settle,
       ResetAfterAnswer, Goto, At, Worker, Early, storeVars, TaskStatus
<1>5. /\ \A u \in Tasks \ {t} : status'[u] = status[u]
      /\ status'[t] = "running" =>
            \/ status[t] = "running" /\ worker[t].pc \notin {"presettle", "tokensettle", "settle"}
            \/ worker'[t].pc = "token"
  <2>1. CASE status' = status /\ worker[t].pc \notin {"presettle", "tokensettle", "settle"}
    BY <2>1
  <2>2. ASSUME NEW s \in TaskStatus, SetTaskStatus(t, s), s = "running" => worker'[t].pc = "token"
        PROVE  <1>5!1 /\ <1>5!2
    BY <1>0, <2>2 DEF SetTaskStatus, Exists, Missing
  <2> QED
    BY <1>4, <2>1, <2>2 DEF Early, TaskStatus
<1>6. OthersKept(t)
  BY <1>0, <1>1, <1>2, <1>3, <1>5 DEF OthersKept
<1>7. ActiveRuns' = ActiveRuns
  BY <1>1 DEF ActiveRuns
<1>8. worker[t].pc \in Early => worker[t].run = 0
  BY DEF RowsOK
<1>9. ClosedAt(t) => ClosedAt(t)'
  BY <1>3, <1>4, <1>7, <1>8 DEF ClosedAt, Closed, Early
<1>10. OpenAt(t) => OpenAt(t)'
  BY <1>3, <1>4, <1>7 DEF OpenAt, Open, Early
<1>11. RunningAt(t) => RunningAt(t)'
  BY <1>4, <1>5 DEF RunningAt, Running, Early
<1>12. worker[t].pc # "idle" /\ worker'[t].pc # "idle"
  BY <1>4
<1> QED
  BY <1>6, <1>9, <1>10, <1>11, <1>12 DEF WorkerEffect

\* Steps of a worker that write to the row of its run.
LEMMA OwnRow ==
    ASSUME RunnerInv, RunnerInv', RowsOK, NEW t \in Tasks,
           \/ PreflightFinish(t) \/ CarrySession(t) \/ TokenFails(t) \/ Begin(t)
           \/ RecordPid(t) \/ AutoContinue(t) \/ SessionMissing(t)
           \/ Classify(t) \/ Finish(t) \/ SessionInit(t)
    PROVE  WorkerEffect(t)
<1> DEFINE r == worker[t].run
           old == runs[r]
<1>0. /\ worker \in [Tasks -> Worker] /\ worker' \in [Tasks -> Worker]
      /\ worker[t] \in Worker /\ runs \in Seq(RunRow)
      /\ worker[t].pc \notin Rowless => r \in 1 .. Len(runs)
  BY DEF RunnerInv, RunnerTypeOK, StoreTypeOK, WorkerOK
<1>1. r \in 1 .. Len(runs)
  BY <1>0 DEF PreflightFinish, CarrySession, TokenFails, Begin, RecordPid,
     AutoContinue, SessionMissing, Classify, Finish, SessionInit, At, Rowless
<1>2. status' = status /\ alive' \subseteq alive
  BY DEF PreflightFinish, CarrySession, TokenFails, Begin, RecordPid, AutoContinue,
     SessionMissing, Classify, Finish, SessionInit
<1>3. \A u \in Tasks \ {t} : worker'[u] = worker[u]
  BY <1>0 DEF PreflightFinish, CarrySession, TokenFails, Begin, RecordPid,
     AutoContinue, SessionMissing, Classify, Finish, SessionInit, Goto
<1>4. worker'[t].run = r
  BY <1>0 DEF PreflightFinish, CarrySession, TokenFails, Begin, RecordPid,
     AutoContinue, SessionMissing, Classify, Finish, SessionInit, Goto, Worker
<1>5. old \in RunRow
  BY <1>0, <1>1
<1>6. \E row :
         /\ runs' = [runs EXCEPT ![r] = row]
         /\ \/ /\ row.status = old.status
               /\ \/ worker[t].pc = "spawned" /\ worker'[t].pc = "working"
                  \/ worker[t].pc = "working" /\ worker'[t].pc = "working"
                  \/ worker[t].pc = "exited" /\ worker'[t].pc = "finish"
            \/ /\ row.status \in {"running", "resuming"}
               /\ \/ worker[t].pc = "carry" /\ worker'[t].pc = "mark"
                  \/ worker[t].pc = "token" /\ worker'[t].pc = "invoke"
                  \/ worker[t].pc = "working" /\ worker'[t].pc = "invoke"
            \/ /\ row.status \in EndStatus
               /\ \/ worker[t].pc = "prefinish" /\ worker'[t].pc = "presettle"
                  \/ worker[t].pc = "token" /\ worker'[t].pc = "tokensettle"
                  \/ worker[t].pc = "finish" /\ worker'[t].pc \in {"consume", "settle"}
  <2> DEFINE OK(row) == <1>6!(row)
  <2>1. CASE PreflightFinish(t)
    <3> DEFINE row == [old EXCEPT !.status = "errored"]
    <3>1. row.status \in EndStatus
      BY <1>5 DEF RunRow, EndStatus
    <3>2. runs' = [runs EXCEPT ![r] = row]
      BY <2>1 DEF PreflightFinish, FinishRun, RunOf
    <3> HIDE DEF row
    <3>3. worker[t].pc = "prefinish" /\ worker'[t].pc = "presettle"
      BY <1>0, <2>1 DEF PreflightFinish, At, Goto, Worker
    <3>4. OK(row)
      BY <3>1, <3>2, <3>3
    <3> QED
      BY <3>4
  <2>2. CASE CarrySession(t)
    <3> DEFINE row == [old EXCEPT !.session = TRUE, !.status = "resuming"]
    <3>1. row.status = "resuming"
      BY <1>5 DEF RunRow
    <3>2. runs' = [runs EXCEPT ![r] = row]
      BY <2>2 DEF CarrySession, RunOf
    <3> HIDE DEF row
    <3>3. worker[t].pc = "carry" /\ worker'[t].pc = "mark"
      BY <1>0, <2>2 DEF CarrySession, At, Goto, Worker
    <3>4. OK(row)
      BY <3>1, <3>2, <3>3
    <3> QED
      BY <3>4
  <2>3. CASE TokenFails(t)
    <3> DEFINE row == [old EXCEPT !.status = "errored"]
    <3>1. row.status \in EndStatus
      BY <1>5 DEF RunRow, EndStatus
    <3>2. runs' = [runs EXCEPT ![r] = row]
      BY <2>3 DEF TokenFails, FinishRun, RunOf
    <3> HIDE DEF row
    <3>3. worker[t].pc = "token" /\ worker'[t].pc = "tokensettle"
      BY <1>0, <2>3 DEF TokenFails, At, Goto, Worker
    <3>4. OK(row)
      BY <3>1, <3>2, <3>3
    <3> QED
      BY <3>4
  <2>4. CASE Begin(t)
    <3>1. OK([old EXCEPT !.status = "running"])
      BY <1>0, <1>5, <2>4 DEF Begin, At, Goto, RunOf, Worker, RunRow
    <3> QED
      BY <3>1
  <2>5. CASE RecordPid(t)
    <3>1. OK([old EXCEPT !.pid = TRUE])
      BY <1>0, <1>5, <2>5 DEF RecordPid, At, Goto, RunOf, Worker, RunRow
    <3> QED
      BY <3>1
  <2>6. CASE AutoContinue(t)
    <3> DEFINE row == [old EXCEPT !.status = "resuming", !.pid = FALSE]
    <3>1. row.status = "resuming"
      BY <1>5 DEF RunRow
    <3>2. runs' = [runs EXCEPT ![r] = row]
      BY <2>6 DEF AutoContinue, RunOf
    <3> HIDE DEF row
    <3>3. worker[t].pc = "working" /\ worker'[t].pc = "invoke"
      BY <1>0, <2>6 DEF AutoContinue, At, Worker
    <3>4. OK(row)
      BY <3>1, <3>2, <3>3
    <3> QED
      BY <3>4
  <2>7. CASE SessionMissing(t)
    <3> DEFINE row == [old EXCEPT !.session = FALSE, !.status = "running", !.pid = FALSE]
    <3>1. row.status = "running"
      BY <1>5 DEF RunRow
    <3>2. runs' = [runs EXCEPT ![r] = row]
      BY <2>7 DEF SessionMissing, RunOf
    <3> HIDE DEF row
    <3>3. worker[t].pc = "working" /\ worker'[t].pc = "invoke"
      BY <1>0, <2>7 DEF SessionMissing, At, Worker
    <3>4. OK(row)
      BY <3>1, <3>2, <3>3
    <3> QED
      BY <3>4
  <2>8. CASE Classify(t)
    <3>1. OK([old EXCEPT !.pid = FALSE])
      BY <1>0, <1>5, <2>8 DEF Classify, At, RunOf, Worker, RunRow
    <3> QED
      BY <3>1
  <2>9. CASE Finish(t)
    <3>1. worker[t].exit \in Outcomes
      BY <2>9 DEF Finish, At, RunnerInv, WorkerOK
    <3>2. RunStatusFor[worker[t].exit] \in EndStatus
      BY <3>1 DEF RunStatusFor, Outcomes, EndStatus
    <3>3. OK([old EXCEPT !.status = RunStatusFor[worker[t].exit]])
      BY <1>0, <1>5, <2>9, <3>2 DEF Finish, FinishRun, At, Goto, RunOf, Worker, RunRow
    <3> QED
      BY <3>3
  <2>10. CASE SessionInit(t)
    <3>1. OK([old EXCEPT !.session = TRUE])
      BY <1>0, <1>5, <2>10 DEF SessionInit, At, RunOf, Worker, RunRow
    <3> QED
      BY <3>1
  <2> QED
    BY <2>1, <2>2, <2>3, <2>4, <2>5, <2>6, <2>7, <2>8, <2>9, <2>10
<1>7. PICK row : <1>6!(row)
  BY <1>6
<1>8. /\ Len(runs') = Len(runs) /\ Len(runs) \in Nat
      /\ \A q \in 1 .. Len(runs) : q # r => runs'[q] = runs[q]
      /\ row.status \in ActiveStatus => r \in ActiveRuns'
      /\ row.status \notin ActiveStatus => r \notin ActiveRuns'
  <2>1. runs' = [runs EXCEPT ![r] = row]
    BY <1>7
  <2>2. runs \in Seq(RunRow)
    BY <1>0
  <2> HIDE DEF r
  <2>3. /\ Len(runs') = Len(runs) /\ Len(runs) \in Nat
        /\ \A q \in 1 .. Len(runs) : q # r => runs'[q] = runs[q]
        /\ row.status \in ActiveStatus /\ r \in 1 .. Len(runs) => r \in ActiveRuns'
        /\ row.status \notin ActiveStatus => r \notin ActiveRuns'
    BY <2>1, <2>2, RowAssigned
  <2> QED
    BY <1>1, <2>3
<1>9. OthersKept(t)
  BY <1>2, <1>3, <1>4, <1>8 DEF OthersKept
<1>10. r \in ActiveRuns <=> old.status \in ActiveStatus
  BY <1>1 DEF ActiveRuns
<1>11. ClosedAt(t) => ClosedAt(t)'
  BY <1>4, <1>7, <1>8 DEF ClosedAt, Closed, EndStatus, ActiveStatus
<1>12. OpenAt(t) => OpenAt(t)'
  BY <1>4, <1>7, <1>8, <1>10 DEF OpenAt, Open, ActiveStatus
<1>13. RunningAt(t) => RunningAt(t)'
  BY <1>2, <1>7 DEF RunningAt, Running
<1>14. worker[t].pc # "idle" /\ worker'[t].pc # "idle"
  BY <1>7
<1> QED
  BY <1>9, <1>11, <1>12, <1>13, <1>14 DEF WorkerEffect

\* A worker inserts the row of its run.
LEMMA NewRow ==
    ASSUME RunnerInv, RunnerInv', RowsOK, NEW t \in Tasks,
           StartRun(t) \/ PreflightRun(t)
    PROVE  WorkerEffect(t)
<1>0. /\ worker \in [Tasks -> Worker] /\ worker' \in [Tasks -> Worker]
      /\ worker[t] \in Worker /\ runs \in Seq(RunRow) /\ Len(runs) \in Nat
  BY DEF RunnerInv, RunnerTypeOK, StoreTypeOK
<1>1. /\ \E row : runs' = Append(runs, row)
      /\ worker[t].pc \in {"workspace", "preflight"}
      /\ status' = status /\ alive' = alive
  BY DEF StartRun, PreflightRun, CreateRun, At
<1>2. /\ worker'[t].run = Len(runs) + 1
      /\ worker'[t].pc \in {"carry", "mark", "prefinish"}
      /\ \A u \in Tasks \ {t} : worker'[u] = worker[u]
  <2>1. CASE StartRun(t)
    BY <1>0, <2>1 DEF StartRun, Worker
  <2>2. CASE PreflightRun(t)
    <3> DEFINE n == EffectiveAttempt(resetAt[t], LatestRunForTask(t)) + 1
    <3>1. worker' = [worker EXCEPT ![t].pc = "prefinish", ![t].run = Len(runs) + 1,
                                   ![t].attempt = n]
      BY <2>2 DEF PreflightRun
    <3> HIDE DEF n
    <3> QED
      BY <1>0, <3>1 DEF Worker
  <2> QED
    BY <2>1, <2>2
<1>3. /\ Len(runs') = Len(runs) + 1
      /\ \A r \in 1 .. Len(runs') : r # Len(runs) + 1 =>
            r \in 1 .. Len(runs) /\ runs'[r] = runs[r]
  BY <1>0, <1>1
<1>4. worker[t].run = 0
  BY <1>1 DEF RowsOK, Early
<1>5. OthersKept(t)
  BY <1>0, <1>1, <1>2, <1>3, <1>4 DEF OthersKept
<1> QED
  BY <1>1, <1>2, <1>5 DEF WorkerEffect, ClosedAt, OpenAt, RunningAt, Closed, Open, Running

LEMMA RunnerEffect ==
    ASSUME RunnerInv, RunnerInv', RowsOK, NEW t \in Tasks,
           RunnerStep(t) \/ SessionInit(t)
    PROVE  WorkerEffect(t)
BY RunsAlone, OwnRow, NewRow DEF RunnerStep

\* What keeps a run of one task from being that of another, after the step too.
LEMMA DistinctRows ==
    ASSUME RowsOK, NEW t \in Tasks, NEW u \in Tasks, u # t, worker[u].run # 0
    PROVE  worker[u].run # worker[t].run
BY DEF RowsOK

-----------------------------------------------------------------------------
(* The handlers: where a request gets to, and that one to run a task or to *)
(* cancel a run must have come for a handler to stand at doing so.         *)

\* Where a handler touches neither a run nor a worker.
Harmless == {"idle", "delete", "comment", "retire", "write", "reset", "reply",
             "answer", "deliver", "wake", "decide"}

PlaceReached(c, o) ==
    /\ op' = [op EXCEPT ![c] = o]
    /\ \/ o.at \in Harmless \cup {op[c].at}
       \/ o.at = "launch" /\ "run_now" \in Requests
       \/ o.at = "signal" /\ "cancel" \in Requests
       \/ o.at = "abandon" /\ op[c].at = "signal"

\* A new request takes its first place.
LEMMA BeginsReach ==
    ASSUME NEW c \in Clients,
           UserBegins(c) \/ (\E q \in 1 .. Len(requests) : SettleChecks(c, q)),
           op' # op
    PROVE  \E o : PlaceReached(c, o)
<1>1. CASE \E t \in Tasks : DeleteChecks(c, t)
  <2>1. PICK t \in Tasks : DeleteChecks(c, t)
    BY <1>1
  <2>2. [NoOp EXCEPT !.at = "delete", !.task = t].at = "delete"
    BY DEF NoOp
  <2> QED
    BY <2>1, <2>2 DEF DeleteChecks, Begins, PlaceReached, Harmless
<1>2. CASE \E t \in Tasks : PauseChecks(c, t)
  <2>1. PICK t \in Tasks : PauseChecks(c, t)
    BY <1>2
  <2>2. [NoOp EXCEPT !.at = "write", !.task = t, !.to = "paused"].at = "write"
    BY DEF NoOp
  <2> QED
    BY <2>1, <2>2 DEF PauseChecks, Begins, PlaceReached, Harmless
<1>3. CASE \E t \in Tasks : ResumeChecks(c, t)
  <2>1. PICK t \in Tasks : ResumeChecks(c, t)
    BY <1>3
  <2>2. \A s : [NoOp EXCEPT !.at = "write", !.task = t, !.reset = TRUE,
                            !.to = s].at = "write"
    BY DEF NoOp
  <2> QED
    BY <2>1, <2>2 DEF ResumeChecks, Begins, PlaceReached, Harmless
<1>4. CASE \E t \in Tasks : SetChecks(c, t)
  <2>1. PICK t \in Tasks : SetChecks(c, t)
    BY <1>4
  <2>2. \A p, s, b : [NoOp EXCEPT !.at = p, !.task = t, !.to = s, !.reset = b].at = p
    BY DEF NoOp
  <2>3. PICK s \in UserTargets, f \in TaskStatus :
           Begins(c, [NoOp EXCEPT
              !.at = IF s \in {"done", "dismissed"} THEN "retire" ELSE "write",
              !.task = t, !.to = f, !.reset = f \in Schedulable])
    BY <2>1 DEF SetChecks, UserTargets, TaskStatus
  <2> DEFINE p == IF s \in {"done", "dismissed"} THEN "retire" ELSE "write"
             o == [NoOp EXCEPT !.at = p, !.task = t, !.to = f,
                               !.reset = f \in Schedulable]
  <2>4. o.at = p /\ p \in Harmless
    BY <2>2 DEF Harmless
  <2>5. op' = [op EXCEPT ![c] = o]
    BY <2>3 DEF Begins
  <2> HIDE DEF o, p
  <2> QED
    BY <2>4, <2>5 DEF PlaceReached
<1>5. CASE \E t \in Tasks : CommentChecks(c, t)
  <2>1. PICK t \in Tasks : CommentChecks(c, t)
    BY <1>5
  <2>2. \A b : [NoOp EXCEPT !.at = "comment", !.task = t, !.reset = b].at = "comment"
    BY DEF NoOp
  <2> QED
    BY <2>1, <2>2 DEF CommentChecks, Begins, PlaceReached, Harmless
<1>6. CASE \E t \in Tasks : RunNowChecks(c, t)
  <2>1. PICK t \in Tasks : \E k \in ResumableRuns \cup QueuedTasks :
          Begins(c, [NoOp EXCEPT !.at = "launch", !.task = t,
                                 !.id = k.resume, !.attempt = k.attempt])
    BY <1>6 DEF RunNowChecks
  <2>2. \A i, n : [NoOp EXCEPT !.at = "launch", !.task = t, !.id = i,
                               !.attempt = n].at = "launch"
    BY DEF NoOp
  <2>3. "run_now" \in Requests
    BY <1>6 DEF RunNowChecks, Arrives
  <2>4. PICK k \in ResumableRuns \cup QueuedTasks :
          Begins(c, [NoOp EXCEPT !.at = "launch", !.task = t,
                                 !.id = k.resume, !.attempt = k.attempt])
    BY <2>1
  <2> DEFINE o == [NoOp EXCEPT !.at = "launch", !.task = t,
                               !.id = k.resume, !.attempt = k.attempt]
  <2>5. o.at = "launch" /\ op' = [op EXCEPT ![c] = o]
    BY <2>2, <2>4 DEF Begins
  <2> HIDE DEF o
  <2> QED
    BY <2>3, <2>5 DEF PlaceReached
<1>7. CASE \E r \in 1 .. Len(runs) : CancelChecks(c, r)
  <2>1. PICK r \in 1 .. Len(runs) : CancelChecks(c, r)
    BY <1>7
  <2>2. \A t : [NoOp EXCEPT !.at = "signal", !.task = t, !.id = r].at = "signal"
    BY DEF NoOp
  <2> QED
    BY <2>1, <2>2 DEF CancelChecks, Arrives, Begins, PlaceReached
<1>8. CASE \E q \in 1 .. Len(requests) : SettleChecks(c, q)
  <2>1. PICK q \in 1 .. Len(requests), kind \in {"respond", "approve", "deny"} :
          Begins(c, [NoOp EXCEPT
                !.at = IF kind = "respond" THEN "reply" ELSE "decide",
                !.task = requests[q].task, !.id = q, !.live = requests[q].live,
                !.to = IF kind = "deny" THEN "denied" ELSE "answered"])
    BY <1>8 DEF SettleChecks
  <2> DEFINE o == [NoOp EXCEPT
                !.at = IF kind = "respond" THEN "reply" ELSE "decide",
                !.task = requests[q].task, !.id = q, !.live = requests[q].live,
                !.to = IF kind = "deny" THEN "denied" ELSE "answered"]
  <2>2. o.at \in {"reply", "decide"}
    BY DEF NoOp
  <2>3. op' = [op EXCEPT ![c] = o]
    BY <2>1 DEF Begins
  <2> HIDE DEF o
  <2> QED
    BY <2>2, <2>3 DEF PlaceReached, Harmless
<1>9. ~ \E t \in Tasks : CreateTask(c, t) \/ EditTask(c, t)
  BY DEF CreateTask, EditTask
<1> QED
  BY <1>1, <1>2, <1>3, <1>4, <1>5, <1>6, <1>7, <1>8, <1>9 DEF UserBegins

\* A handler under way goes on, or is done.
LEMMA HandlersReach ==
    ASSUME ServicesInv, NEW c \in Clients, HandlerStep(c) \/ ReplyStep(c)
    PROVE  \E o : PlaceReached(c, o)
<1>1. op[c] \in Op /\ NoOp.at = "idle"
  BY DEF ServicesInv, GoodOps, NoOp
<1>2. CASE DeletesRow(c) \/ ForgetsAttempts(c) \/ Decides(c) \/ RunNowLaunches(c)
  <2>1. op' = [op EXCEPT ![c] = NoOp]
    BY <1>2 DEF DeletesRow, ForgetsAttempts, Decides, RunNowLaunches, Answered
  <2> QED
    BY <1>1, <2>1 DEF PlaceReached, Harmless
<1>3. CASE RetiresRequests(c) \/ Replies(c) \/ Answers(c) \/ Delivers(c)
  <2>1. PICK p \in {"write", "answer", "deliver", "wake"},
             m \in {op[c].comment, Len(comments) + 1} :
               op' = [op EXCEPT ![c] = [op[c] EXCEPT !.at = p, !.comment = m]]
    <3>1. \A p : [op[c] EXCEPT !.at = p, !.comment = op[c].comment]
                   = [op[c] EXCEPT !.at = p]
      BY <1>1 DEF Op
    <3> QED
      BY <1>3, <3>1 DEF RetiresRequests, Replies, Answers, Delivers
  <2>2. [op[c] EXCEPT !.at = p, !.comment = m].at = p
    BY <1>1 DEF Op
  <2> QED
    BY <2>1, <2>2 DEF PlaceReached, Harmless
<1>4. CASE WritesStatus(c)
  <2> DEFINE o == IF op[c].reset
                  THEN [NoOp EXCEPT !.at = "reset", !.task = op[c].task] ELSE NoOp
  <2>1. o.at \in Harmless
    BY DEF NoOp, Harmless
  <2>2. op' = [op EXCEPT ![c] = o]
    BY <1>4 DEF WritesStatus
  <2> HIDE DEF o
  <2> QED
    BY <2>1, <2>2 DEF PlaceReached
<1>5. CASE InsertsComment(c)
  <2> DEFINE t == op[c].task
             o == IF Exists(t) /\ op[c].reset
                  THEN [NoOp EXCEPT
                          !.at = "write", !.task = t, !.reset = TRUE,
                          !.to = IF Interrupted(LatestRunForTask(t))
                                 THEN "resumable" ELSE "queued"]
                  ELSE NoOp
  <2>1. o.at \in Harmless
    BY DEF NoOp, Harmless
  <2>2. op' = [op EXCEPT ![c] = o]
    BY <1>5 DEF InsertsComment
  <2> HIDE DEF o
  <2> QED
    BY <2>1, <2>2 DEF PlaceReached
<1>6. CASE Wakes(c)
  <2> DEFINE t == op[c].task
             o == IF status[t] # "awaiting_human" THEN NoOp
                  ELSE [NoOp EXCEPT
                          !.at = "write", !.task = t, !.reset = TRUE,
                          !.to = IF HasSession(LatestRunForTask(t))
                                 THEN "resumable" ELSE "queued"]
  <2>1. o.at \in Harmless
    BY DEF NoOp, Harmless
  <2>2. op' = [op EXCEPT ![c] = o]
    BY <1>6 DEF Wakes
  <2> HIDE DEF o
  <2> QED
    BY <2>1, <2>2 DEF PlaceReached
<1>7. CASE CancelSignals(c)
  <2>1. [op[c] EXCEPT !.at = "abandon"].at = "abandon"
    BY <1>1 DEF Op
  <2>2. op[c].at = "signal"
    BY <1>7 DEF CancelSignals, OpAt
  <2>3. \/ op' = [op EXCEPT ![c] = NoOp]
        \/ op' = [op EXCEPT ![c] = [op[c] EXCEPT !.at = "abandon"]]
    BY <1>7 DEF CancelSignals
  <2> QED
    BY <1>1, <2>1, <2>2, <2>3 DEF PlaceReached, Harmless
<1>8. CASE CancelAbandons(c)
  <2> DEFINE o == [NoOp EXCEPT !.at = "write", !.task = op[c].task, !.to = "paused"]
  <2>1. o.at \in Harmless
    BY DEF NoOp, Harmless
  <2>2. op' = [op EXCEPT ![c] = o]
    BY <1>8 DEF CancelAbandons
  <2> HIDE DEF o
  <2> QED
    BY <2>1, <2>2 DEF PlaceReached
<1> QED
  BY <1>2, <1>3, <1>4, <1>5, <1>6, <1>7, <1>8 DEF HandlerStep, ReplyStep

LEMMA PlacesReached ==
    ASSUME ServicesInv, NEW c \in Clients,
           \/ UserBegins(c) \/ (\E q \in 1 .. Len(requests) : SettleChecks(c, q))
           \/ HandlerStep(c) \/ ReplyStep(c)
    PROVE  \E o : PlaceReached(c, o)
<1>1. CASE op' = op
  <2>1. op' = [op EXCEPT ![c] = op[c]]
    BY <1>1 DEF ServicesInv
  <2> QED
    BY <2>1 DEF PlaceReached
<1> QED
  BY <1>1, BeginsReach, HandlersReach

-----------------------------------------------------------------------------
(* Runs launched by hand, and how a daemon ends.                           *)

\* No user can have launched, or be launching, a run.
NoneByHand ==
    /\ \A t \in Tasks : t \in Inflight => ~worker[t].manual
    /\ \A c \in Clients : op[c].at # "launch"

\* Once the loop has ended, only runs launched by hand are left.
ByHandInv ==
    /\ mode # "down" => lives # 0
    /\ "run_now" \notin Requests => NoneByHand
    /\ sched.pc = "stopped" => \A t \in Tasks : t \in Inflight => worker[t].manual

\* A step that launches no run, ends no loop and starts no daemon.
Calm ==
    /\ \A t \in Tasks : t \in Inflight' =>
          t \in Inflight /\ worker'[t].manual = worker[t].manual
    /\ NoneByHand => \A c \in Clients : op'[c].at = "launch" => "run_now" \in Requests
    /\ lives' = lives
    /\ mode' # "down" => mode # "down"
    /\ sched'.pc = "stopped" => sched.pc = "stopped"

LEMMA CalmKeeps ==
    ASSUME ByHandInv, Calm
    PROVE  ByHandInv'
<1>1. "run_now" \notin Requests => NoneByHand'
  BY DEF ByHandInv, Calm, NoneByHand
<1> QED
  BY <1>1 DEF ByHandInv, Calm

\* Workers that move, if they do, from where they were launched to.
LEMMA SameStaffCalm ==
    ASSUME ByHandInv,
           \A t \in Tasks : t \in Inflight' =>
              t \in Inflight /\ worker'[t].manual = worker[t].manual,
           op' = op, lives' = lives, mode' # "down" => mode # "down",
           sched'.pc = "stopped" => sched.pc = "stopped"
    PROVE  ByHandInv'
<1>1. Calm
  BY DEF Calm, NoneByHand
<1> QED
  BY <1>1, CalmKeeps

LEMMA CancelKeepsStaff ==
    ASSUME worker \in [Tasks -> Worker],
           (\E t, cause : Cancel(t, cause)) \/ (\E S, cause : CancelEvery(S, cause))
    PROVE  \A t \in Tasks : t \in Inflight' =>
              t \in Inflight /\ worker'[t].manual = worker[t].manual
<1>1. \A u \in Tasks : /\ worker'[u].pc = worker[u].pc
                       /\ worker'[u].manual = worker[u].manual
  BY DEF Cancel, CancelEvery, Cancelled, Worker
<1> QED
  BY <1>1 DEF Inflight, At

LEMMA LoopByHand ==
    ASSUME RunnerInv, SchedulerTypeOK, SchedOK, DownIdle, ByHandInv, TickStep,
           op' = op, lives' = lives
    PROVE  ByHandInv'
<1>0. worker \in [Tasks -> Worker] /\ sched \in Sched /\ mode' = mode
  BY TickIsUp DEF RunnerInv, RunnerTypeOK, SchedulerTypeOK
<1>1. CASE ~LaunchPlanned
  <2>1. sched'.pc # "stopped"
    <3>1. CASE ListActiveRuns \/ LockForReconcile \/ SkipTracked \/ UnlockToKill
                 \/ KillOrphan \/ BuryRun \/ SettleBuried \/ UnlockReconciled
      BY <1>0, <3>1 DEF ListActiveRuns, LockForReconcile, SkipTracked, UnlockToKill,
         KillOrphan, BuryRun, SettleBuried, UnlockReconciled, Step, Sched
    <3>2. CASE FetchResumable \/ FetchQueued
      BY <1>0, <3>2 DEF FetchResumable, FetchQueued, Sched
    <3>3. CASE Decide
      BY <1>0, <3>3 DEF Decide, Sched
    <3>4. CASE Suspend \/ Fail \/ EndTick
      BY <1>0, <3>4 DEF Suspend, Fail, EndTick, Sched, Resting
    <3> QED
      BY <1>1, <3>1, <3>2, <3>3, <3>4 DEF TickStep
  <2>2. worker' = worker \/ \E t, cause : Cancel(t, cause)
    BY <1>1 DEF TickStep, ListActiveRuns, LockForReconcile, SkipTracked,
       UnlockToKill, KillOrphan, BuryRun, SettleBuried, UnlockReconciled,
       FetchResumable, FetchQueued, Decide, Suspend, Fail, EndTick, runnerVars
  <2>3. worker' = worker => \A t \in Tasks : t \in Inflight' =>
           t \in Inflight /\ worker'[t].manual = worker[t].manual
    BY DEF Inflight, At
  <2> QED
    BY <1>0, <2>1, <2>2, <2>3, CancelKeepsStaff, SameStaffCalm
<1>2. CASE LaunchPlanned
  <2>1. PICK i \in sched.launch : Launch(RowFor(sched.cands[i].task), FALSE)
    BY <1>2 DEF LaunchPlanned
  <2> DEFINE k == RowFor(sched.cands[i].task)
  <2>2. sched'.pc = "act"
    BY <1>0, <1>2 DEF LaunchPlanned, Sched
  <2>3. NewWorker(k, FALSE).manual = FALSE
    BY DEF NewWorker, NoWorker
  <2>4. \A u \in Tasks : worker'[u] = worker[u] \/ worker'[u] = NewWorker(k, FALSE)
    BY <1>0, <2>1 DEF Launch
  <2> HIDE DEF k
  <2>5. \A u \in Tasks : u \in Inflight' =>
           ~worker'[u].manual \/ (u \in Inflight /\ worker'[u] = worker[u])
    BY <2>3, <2>4 DEF Inflight, At
  <2>6. "run_now" \notin Requests => NoneByHand'
    BY <2>5 DEF ByHandInv, NoneByHand
  <2> QED
    BY <1>0, <2>2, <2>6 DEF ByHandInv
<1> QED
  BY <1>1, <1>2

LEMMA HandlersByHand ==
    ASSUME RunnerInv, ServicesInv, ByHandInv, NEW c \in Clients,
           Demands(c) \/ Handles(c)
    PROVE  ByHandInv'
<1>0. worker \in [Tasks -> Worker] /\ op \in [Clients -> GoodOps]
  BY DEF RunnerInv, RunnerTypeOK, ServicesInv
<1>1. /\ \/ UserBegins(c) \/ (\E q \in 1 .. Len(requests) : SettleChecks(c, q))
         \/ HandlerStep(c) \/ ReplyStep(c)
      /\ lives' = lives
  BY DEF Demands, Handles
<1>2. sched' = sched /\ mode' = mode
  <2>1. CASE UserBegins(c)
    BY <2>1 DEF UserBegins, CreateTask, EditTask, DeleteChecks, PauseChecks,
       ResumeChecks, SetChecks, CommentChecks, RunNowChecks, CancelChecks, Begins,
       Elsewhere, schedulerVars
  <2>2. CASE \E q \in 1 .. Len(requests) : SettleChecks(c, q)
    BY <2>2 DEF SettleChecks, Begins, Elsewhere, schedulerVars
  <2>3. CASE HandlerStep(c) \/ ReplyStep(c)
    BY <2>3 DEF HandlerStep, DeletesRow, RetiresRequests, WritesStatus,
       ForgetsAttempts, InsertsComment, RunNowLaunches, CancelSignals, CancelAbandons,
       ReplyStep, Decides, Replies, Answers, Delivers, Wakes, Elsewhere, schedulerVars
  <2> QED
    BY <1>1, <2>1, <2>2, <2>3
<1>3. NoneByHand => \A d \in Clients : op'[d].at = "launch" => "run_now" \in Requests
  <2>1. PICK o : PlaceReached(c, o)
    BY <1>1, PlacesReached
  <2>2. \A d \in Clients : op'[d] \in {op[d], o}
    BY <1>0, <2>1 DEF PlaceReached
  <2> QED
    BY <2>1, <2>2 DEF PlaceReached, Harmless, NoneByHand
<1>4. CASE worker' = worker \/ CancelSignals(c)
  <2>1. \A t \in Tasks : t \in Inflight' =>
           t \in Inflight /\ worker'[t].manual = worker[t].manual
    BY <1>0, <1>4, CancelKeepsStaff DEF CancelSignals, Inflight, At
  <2>2. Calm
    BY <1>1, <1>2, <1>3, <2>1 DEF Calm
  <2> QED
    BY <2>2, CalmKeeps
<1>5. CASE RunNowLaunches(c)
  <2> DEFINE k == [task |-> op[c].task, resume |-> op[c].id,
                   attempt |-> op[c].attempt]
  <2>1. Launch(k, TRUE) \/ worker' = worker
    BY <1>5 DEF RunNowLaunches
  <2>2. "run_now" \in Requests
    BY <1>5 DEF RunNowLaunches, OpAt, ByHandInv, NoneByHand
  <2>3. NewWorker(k, TRUE).manual = TRUE
    BY DEF NewWorker, NoWorker
  <2>4. \A u \in Tasks : worker'[u] = worker[u] \/ worker'[u] = NewWorker(k, TRUE)
    BY <1>0, <2>1 DEF Launch
  <2> HIDE DEF k
  <2>5. \A u \in Tasks : u \in Inflight' => worker'[u].manual \/ u \in Inflight
    BY <2>3, <2>4 DEF Inflight, At
  <2>6. \A u \in Tasks : worker'[u].manual \/ worker'[u] = worker[u]
    BY <2>3, <2>4
  <2> QED
    BY <1>1, <1>2, <2>2, <2>5, <2>6 DEF ByHandInv
<1>6. worker' = worker \/ CancelSignals(c) \/ RunNowLaunches(c)
  <2>1. CASE UserBegins(c)
    BY <2>1 DEF UserBegins, CreateTask, EditTask, DeleteChecks, PauseChecks,
       ResumeChecks, SetChecks, CommentChecks, RunNowChecks, CancelChecks, Begins
  <2>2. CASE \E q \in 1 .. Len(requests) : SettleChecks(c, q)
    BY <2>2 DEF SettleChecks, Begins
  <2>3. CASE HandlerStep(c) \/ ReplyStep(c)
    BY <2>3 DEF HandlerStep, DeletesRow, RetiresRequests, WritesStatus,
       ForgetsAttempts, InsertsComment, CancelAbandons, ReplyStep, Decides, Replies,
       Answers, Delivers, Wakes
  <2> QED
    BY <1>1, <2>1, <2>2, <2>3
<1> QED
  BY <1>4, <1>5, <1>6

LEMMA ByHandNext ==
    ASSUME TypeInv, LeaseInv, ByHandInv, [Next]_vars
    PROVE  ByHandInv'
<1>0. /\ RunnerInv /\ SchedulerTypeOK /\ SchedOK /\ ServicesInv /\ DownIdle
      /\ worker \in [Tasks -> Worker] /\ sched \in Sched /\ lives \in Nat
  BY TypeInvHas DEF LeaseInv, RunnerInv, RunnerTypeOK, TypeInv, TypeOK,
     SchedulerTypeOK, DaemonAssumption
<1>a. ASSUME UNCHANGED <<worker, sched, mode, op, lives>>
      PROVE  ByHandInv'
  <2>1. \A t \in Tasks : t \in Inflight' =>
           t \in Inflight /\ worker'[t].manual = worker[t].manual
    BY <1>a DEF Inflight, At
  <2> QED
    BY <1>a, <2>1, SameStaffCalm
<1>1. ASSUME NEW t \in Tasks, Works(t) \/ NamesSession(t)
      PROVE  ByHandInv'
  <2>1. /\ RunnerStep(t) \/ SessionInit(t)
        /\ UNCHANGED <<sched, mode, op, lives>>
    BY <1>1 DEF Works, NamesSession, WorkerStep, schedulerVars
  <2>2. \A u \in Tasks : u \in Inflight' =>
           u \in Inflight /\ worker'[u].manual = worker[u].manual
    BY <1>0, <2>1, RunnerKeepsLaunch DEF Inflight, At
  <2> QED
    BY <2>1, <2>2, SameStaffCalm
<1>2. ASSUME NEW t \in Tasks, Releases(t)
      PROVE  ByHandInv'
  <2>1. /\ worker' = [worker EXCEPT ![t] = NoWorker] /\ NoWorker.pc = "idle"
        /\ UNCHANGED <<sched, mode, op, lives>>
    BY <1>2 DEF Releases, Release, schedulerVars, NoWorker
  <2>2. \A u \in Tasks : u \in Inflight' =>
           u \in Inflight /\ worker'[u].manual = worker[u].manual
    BY <1>0, <2>1 DEF Inflight, At
  <2> QED
    BY <2>1, <2>2, SameStaffCalm
<1>3. ASSUME NEW r \in 1 .. MaxRuns, Asks(r) \/ Awaits(r) \/ OrphanExits(r)
      PROVE  ByHandInv'
  BY <1>3, <1>a DEF Asks, Ask, AskAgain, Awaits, CallStep, AwaitFinds, AwaitGoesLive,
     AwaitEnds, AwaitReturns, OrphanExits, runnerVars, schedulerVars
<1>4. ASSUME NEW c \in Clients, Demands(c) \/ Handles(c)
      PROVE  ByHandInv'
  BY <1>0, <1>4, HandlersByHand
<1>5. CASE Ticks
  BY <1>0, <1>5, LoopByHand DEF Ticks
<1>6. CASE Stops \/ Signalled
  <2>1. /\ \E S, cause : CancelEvery(S, cause)
        /\ UNCHANGED <<op, lives>> /\ mode # "down"
    BY <1>6 DEF Stops, Signalled, CancelAll, Terminate
  <2>2. sched'.pc = "stopped" => sched.pc = "stopped"
    BY <1>0, <1>6 DEF Stops, Signalled, CancelAll, Terminate, Step, Sched
  <2> QED
    BY <1>0, <2>1, <2>2, CancelKeepsStaff, SameStaffCalm
<1>7. CASE Stopped
  <2>1. /\ \A t \in Tasks : t \in Inflight => worker[t].manual
        /\ UNCHANGED <<worker, mode, op, lives>>
    BY <1>7 DEF Stopped, LoopEnds, Drained, Uncounted, runnerVars
  <2>2. \A t \in Tasks : t \in Inflight' => t \in Inflight /\ worker'[t].manual
    BY <2>1 DEF Inflight, At
  <2> QED
    BY <2>1, <2>2 DEF ByHandInv, NoneByHand
<1>8. CASE Crash \/ Exit
  <2>1. /\ worker' = [t \in Tasks |-> NoWorker] /\ sched' = Resting /\ mode' = "down"
        /\ op' = [c \in Clients |-> NoOp]
        /\ NoWorker.pc = "idle" /\ NoOp.at = "idle" /\ Resting.pc = "idle"
    BY <1>8 DEF Crash, Exit, Forgotten, NoWorker, NoOp, Resting
  <2> QED
    BY <2>1 DEF ByHandInv, NoneByHand, Inflight, At
<1>9. CASE Restart
  <2>1. UNCHANGED <<worker, sched, op>> /\ lives' # 0
    BY <1>0, <1>9 DEF Restart, runnerVars
  <2> QED
    BY <2>1 DEF ByHandInv, NoneByHand, Inflight, At
<1>10. CASE UNCHANGED vars
  BY <1>10, <1>a DEF vars, runnerVars, schedulerVars
<1> QED
  BY <1>1, <1>2, <1>3, <1>4, <1>5, <1>6, <1>7, <1>8, <1>9, <1>10 DEF Next

LEMMA ByHandInit ==
    ASSUME Init
    PROVE  ByHandInv
BY DEF Init, RunnerInit, SchedulerInit, ServicesInit, Resting, NoWorker, NoOp,
   ByHandInv, NoneByHand, Inflight, At

-----------------------------------------------------------------------------
(* While no daemon has crashed, nor ended beside a run launched by hand.   *)

\* No daemon follows one whose users may have launched a run at its end.
NoLateLaunch == Lives = 1 \/ "run_now" \notin Requests

HeldInv ==
    /\ \A r \in ActiveRuns \cup alive : Owned(r)
    /\ \A t \in Tasks : ClosedAt(t) /\ RunningAt(t)

\* Whoever ends runs, writes another status than "running" or starts a worker
\* takes nothing from its owner.
LEMMA HeldKept ==
    ASSUME HeldInv,
           ActiveRuns' \subseteq ActiveRuns, alive' \subseteq alive,
           \A t \in Tasks :
              /\ worker'[t].run = worker[t].run
              /\ worker'[t].pc \in Closed => worker[t].pc \in Closed
              /\ worker[t].pc \in Running => worker'[t].pc \in Running
              /\ status'[t] = "running" => status[t] = "running"
    PROVE  HeldInv'
<1>1. \A r : Owned(r) => Owned(r)'
  BY DEF Owned, RunOf
<1> QED
  BY <1>1 DEF HeldInv, ClosedAt, RunningAt

\* The rows of other workers stay ended, and every run stays owned.
LEMMA WorkerHeld ==
    ASSUME RunnerInv, HeldInv, RowsOK', NEW t \in Tasks, WorkerEffect(t)
    PROVE  HeldInv'
<1>0. OthersKept(t)
  BY DEF WorkerEffect
<1>1. ASSUME NEW u \in Tasks \ {t}
      PROVE  ClosedAt(u)' /\ RunningAt(u)'
  <2>1. worker'[u] = worker[u] /\ status'[u] = status[u] /\ ClosedAt(u) /\ RunningAt(u)
    BY <1>0 DEF OthersKept, HeldInv
  <2>2. worker[u].run # 0 => worker[u].run # worker'[t].run
    <3>1. worker'[u].run # 0 => worker'[u].run # worker'[t].run
      BY DEF RowsOK
    <3> QED
      BY <2>1, <3>1
  <2>3. worker[u].run # 0 /\ worker[u].run \in ActiveRuns' => worker[u].run \in ActiveRuns
    BY <1>0, <2>2 DEF OthersKept, ActiveRuns
  <2> QED
    BY <2>1, <2>3 DEF ClosedAt, RunningAt
<1>2. ClosedAt(t)' /\ RunningAt(t)'
  BY DEF WorkerEffect, HeldInv
<1>3. ASSUME NEW r \in ActiveRuns' \cup alive'
      PROVE  Owned(r)'
  <2>1. CASE r = worker'[t].run
    BY <2>1 DEF Owned, RunOf
  <2>2. CASE r # worker'[t].run
    <3>1. r \in ActiveRuns \cup alive
      BY <1>0, <1>3, <2>2 DEF OthersKept, ActiveRuns
    <3>2. PICK u \in Tasks : worker[u].run = r
      BY <3>1 DEF HeldInv, Owned, RunOf
    <3>3. r # 0
      BY <3>1 DEF ActiveRuns, RunnerInv, RunnerTypeOK
    <3>4. u # t
      BY <1>0, <2>2, <3>2, <3>3 DEF OthersKept
    <3> QED
      BY <1>0, <3>2, <3>4 DEF OthersKept, Owned, RunOf
  <2> QED
    BY <2>1, <2>2
<1> QED
  BY <1>1, <1>2, <1>3 DEF HeldInv

\* The goroutine's deferred end: its run has ended, and so has its claude.
LEMMA ReleaseHeld ==
    ASSUME RunnerInv, HeldInv, RowsOK, NEW t \in Tasks, Release(t)
    PROVE  HeldInv'
<1>0. /\ worker \in [Tasks -> Worker] /\ alive \subseteq 1 .. Len(runs)
      /\ Len(runs) \in Nat
      /\ worker[t].pc = "done" /\ worker' = [worker EXCEPT ![t] = NoWorker]
      /\ UNCHANGED <<runs, status, alive>>
  BY DEF RunnerInv, RunnerTypeOK, StoreTypeOK, Release, At, storeVars, schedulerVars
<1>1. /\ worker'[t].pc = "idle" /\ worker'[t].run = 0
      /\ \A u \in Tasks \ {t} : worker'[u] = worker[u]
  BY <1>0 DEF NoWorker
<1>2. ActiveRuns' = ActiveRuns /\ ActiveRuns \subseteq 1 .. Len(runs)
  BY <1>0 DEF ActiveRuns
<1>3. worker[t].run \notin ActiveRuns \cup alive \/ worker[t].run = 0
  BY <1>0 DEF HeldInv, ClosedAt, Closed, RowsOK, Busy
<1>4. ASSUME NEW r \in ActiveRuns' \cup alive'
      PROVE  Owned(r)'
  <2>1. PICK u \in Tasks : worker[u].run = r
    BY <1>0, <1>2, <1>4 DEF HeldInv, Owned, RunOf
  <2>2. r # 0
    BY <1>0, <1>2, <1>4
  <2>3. u # t
    BY <1>0, <1>2, <1>3, <1>4, <2>1, <2>2
  <2> QED
    BY <1>1, <2>1, <2>3 DEF Owned, RunOf
<1>5. ASSUME NEW u \in Tasks
      PROVE  ClosedAt(u)' /\ RunningAt(u)'
  <2>1. CASE u = t
    BY <1>0, <1>1, <2>1 DEF HeldInv, RunningAt, ClosedAt, Closed, Running
  <2>2. CASE u # t
    BY <1>0, <1>1, <1>2, <2>2 DEF HeldInv, RunningAt, ClosedAt
  <2> QED
    BY <2>1, <2>2
<1> QED
  BY <1>4, <1>5 DEF HeldInv

\* A launch gives an idle task a worker that owns no run yet.
LEMMA LaunchHeld ==
    ASSUME RunnerInv, HeldInv, RowsOK, NEW c, NEW manual \in BOOLEAN,
           c.task \in Tasks, Launch(c, manual), UNCHANGED <<runs, status, alive>>
    PROVE  HeldInv'
<1>0. worker \in [Tasks -> Worker] /\ ActiveRuns' = ActiveRuns
  BY DEF RunnerInv, RunnerTypeOK, ActiveRuns
<1> DEFINE t == c.task
           w == NewWorker(c, manual)
<1>1. CASE worker' = worker
  BY <1>0, <1>1, HeldKept
<1>2. CASE t \notin Inflight /\ worker' = [worker EXCEPT ![t] = w]
  <2>1. w.pc = "start" /\ w.run = 0
    BY DEF NewWorker, NoWorker
  <2> HIDE DEF w
  <2>2. worker[t].pc = "idle" /\ worker[t].run = 0
    BY <1>2 DEF Inflight, At, RowsOK, Early
  <2>3. worker'[t] = w /\ \A u \in Tasks \ {t} : worker'[u] = worker[u]
    BY <1>0, <1>2
  <2>4. ASSUME NEW u \in Tasks
        PROVE  /\ worker'[u].run = worker[u].run
               /\ worker'[u].pc \in Closed => worker[u].pc \in Closed
               /\ worker[u].pc \in Running => worker'[u].pc \in Running
    BY <2>1, <2>2, <2>3 DEF Closed, Running
  <2> QED
    BY <1>0, <2>4, HeldKept
<1> QED
  BY <1>1, <1>2 DEF Launch

\* A context that is cancelled moves nobody.
LEMMA CancelHeld ==
    ASSUME RunnerInv, RunnerInv', HeldInv,
           UNCHANGED <<runs, status, alive>>, NEW cause,
           (\E t : Cancel(t, cause)) \/ (\E S : CancelEvery(S, cause))
    PROVE  HeldInv'
<1>0. worker \in [Tasks -> Worker] /\ worker' \in [Tasks -> Worker]
  BY DEF RunnerInv, RunnerTypeOK
<1>1. \A u \in Tasks : worker'[u].pc = worker[u].pc /\ worker'[u].run = worker[u].run
  BY <1>0, CancelledStays DEF Cancel, CancelEvery
<1>2. ActiveRuns' = ActiveRuns
  BY DEF ActiveRuns
<1> QED
  BY <1>1, <1>2, HeldKept

\* The workers stand still, no claude starts, no row and no task becomes active.
LEMMA RestHeld ==
    ASSUME HeldInv, worker' = worker, alive' \subseteq alive,
           ActiveRuns' \subseteq ActiveRuns,
           \A t \in Tasks : status'[t] = "running" => status[t] = "running"
    PROVE  HeldInv'
BY HeldKept

\* An UPDATE to another status makes no task read "running".
LEMMA OtherStatus ==
    ASSUME status \in [Tasks -> TaskStatus \cup Missing], NEW t, NEW s, s # "running",
           SetTaskStatus(t, s)
    PROVE  \A u \in Tasks : status'[u] = "running" => status[u] = "running"
BY DEF SetTaskStatus

\* Closing a run makes no run active, and leaves the other rows alone.
LEMMA FinishEnds ==
    ASSUME runs \in Seq(RunRow), NEW r, NEW s \in EndStatus, FinishRun(r, s)
    PROVE  /\ ActiveRuns' = ActiveRuns \ {r}
           /\ Len(runs') = Len(runs)
           /\ \A q \in 1 .. Len(runs) : runs'[q].pid = runs[q].pid
<1> DEFINE row == [runs[r] EXCEPT !.status = s]
<1>1. runs' = [runs EXCEPT ![r] = row]
  BY DEF FinishRun
<1>2. r \in 1 .. Len(runs) => row.status = s /\ row.pid = runs[r].pid
  <2>1. r \in 1 .. Len(runs) => runs[r] \in RunRow
    OBVIOUS
  <2> QED
    BY <2>1 DEF RunRow
<1> HIDE DEF row
<1>3. /\ Len(runs') = Len(runs)
      /\ \A q \in 1 .. Len(runs) : q # r => runs'[q] = runs[q]
      /\ r \in 1 .. Len(runs) => runs'[r] = row
  BY <1>1, RowAssigned
<1> QED
  BY <1>2, <1>3 DEF ActiveRuns, EndStatus, ActiveStatus

LEMMA TickHeld ==
    ASSUME RunnerInv, RunnerInv', SchedulerTypeOK, SchedOK, HeldInv, RowsOK, TickStep
    PROVE  HeldInv'
<1>0. runs \in Seq(RunRow) /\ status \in [Tasks -> TaskStatus \cup Missing]
  BY DEF RunnerInv, StoreTypeOK
<1>1. CASE \/ ListActiveRuns \/ LockForReconcile \/ SkipTracked \/ UnlockToKill
           \/ UnlockReconciled \/ FetchResumable \/ FetchQueued \/ Decide \/ EndTick
  <2>1. UNCHANGED <<runs, status, worker, alive>>
    BY <1>1 DEF ListActiveRuns, LockForReconcile, SkipTracked, UnlockToKill,
       UnlockReconciled, FetchResumable, FetchQueued, Decide, EndTick, storeVars,
       runnerVars
  <2> QED
    BY <2>1, RestHeld DEF ActiveRuns
<1>2. CASE KillOrphan \/ BuryRun
  <2>1. /\ worker' = worker /\ alive' \subseteq alive /\ status' = status
        /\ FinishRun(Found.id, "errored")
    BY <1>2 DEF KillOrphan, BuryRun, runnerVars
  <2>2. ActiveRuns' \subseteq ActiveRuns
    BY <1>0, <2>1, FinishEnds DEF EndStatus
  <2> QED
    BY <2>1, <2>2, RestHeld
<1>3. CASE SettleBuried \/ Fail
  <2>1. UNCHANGED <<runs, worker, alive>>
    BY <1>3 DEF SettleBuried, Fail, runnerVars
  <2>2. \E t, s : s # "running" /\ SetTaskStatus(t, s)
    <3>1. TaskStatusAfterInterruption(Found.session) # "running"
      BY DEF TaskStatusAfterInterruption
    <3> QED
      BY <1>3, <3>1 DEF SettleBuried, Fail
  <2> QED
    BY <1>0, <2>1, <2>2, OtherStatus, RestHeld DEF ActiveRuns
<1>4. CASE Suspend
  <2>1. UNCHANGED <<runs, status, alive>> /\ \E t : Cancel(t, "suspended")
    BY <1>4 DEF Suspend, storeVars
  <2> QED
    BY <2>1, CancelHeld
<1>5. CASE LaunchPlanned
  <2>1. PICK i \in sched.launch : Launch(RowFor(sched.cands[i].task), FALSE)
    BY <1>5 DEF LaunchPlanned
  <2>2. UNCHANGED <<runs, status, alive>>
    BY <1>5 DEF LaunchPlanned, storeVars
  <2>3. sched.cands \in Seq(Candidate) /\ i \in 1 .. Len(sched.cands)
    BY <2>1 DEF SchedulerTypeOK, Sched, SchedOK
  <2>4. RowFor(sched.cands[i].task) \in Candidate
    BY <2>3, RowForIsCandidate
  <2>5. \E c : c.task \in Tasks /\ Launch(c, FALSE)
    BY <2>1, <2>4 DEF Candidate
  <2> QED
    BY <2>2, <2>5, LaunchHeld
<1> QED
  BY <1>1, <1>2, <1>3, <1>4, <1>5 DEF TickStep

\* What users ask for, and the handlers that do it.
LEMMA HandlersHeld ==
    ASSUME RunnerInv, RunnerInv', ServicesInv, HeldInv, RowsOK, NEW c \in Clients,
           \/ UserBegins(c) \/ (\E q \in 1 .. Len(requests) : SettleChecks(c, q))
           \/ HandlerStep(c) \/ ReplyStep(c)
    PROVE  HeldInv'
<1>0. /\ runs \in Seq(RunRow) /\ status \in [Tasks -> TaskStatus \cup Missing]
      /\ alive' = alive
  BY DEF RunnerInv, StoreTypeOK, UserBegins, SettleChecks, CreateTask, EditTask,
     DeleteChecks, PauseChecks, ResumeChecks, SetChecks, CommentChecks, RunNowChecks,
     CancelChecks, Begins, HandlerStep, ReplyStep, DeletesRow, RetiresRequests,
     WritesStatus, ForgetsAttempts, InsertsComment, RunNowLaunches, CancelSignals,
     CancelAbandons, Decides, Replies, Answers, Delivers, Wakes, Elsewhere
<1>1. CASE \/ UserBegins(c) /\ \A t \in Tasks : ~CreateTask(c, t)
           \/ \E q \in 1 .. Len(requests) : SettleChecks(c, q)
           \/ RetiresRequests(c) \/ ForgetsAttempts(c) \/ InsertsComment(c)
           \/ ReplyStep(c)
  <2>1. UNCHANGED <<runs, status, worker>>
    BY <1>1 DEF UserBegins, SettleChecks, EditTask, DeleteChecks, PauseChecks,
       ResumeChecks, SetChecks, CommentChecks, RunNowChecks, CancelChecks, Begins,
       RetiresRequests, ForgetsAttempts, InsertsComment, ReplyStep, Decides, Replies,
       Answers, Delivers, Wakes, storeVars
  <2> QED
    BY <1>0, <2>1, RestHeld DEF ActiveRuns
<1>2. CASE (\E t \in Tasks : CreateTask(c, t)) \/ DeletesRow(c)
  <2>1. /\ UNCHANGED <<runs, worker>>
        /\ \A u \in Tasks : status'[u] = "running" => status[u] = "running"
    BY <1>0, <1>2 DEF CreateTask, DeletesRow
  <2> QED
    BY <1>0, <2>1, RestHeld DEF ActiveRuns
<1>3. CASE WritesStatus(c)
  <2>1. UNCHANGED <<runs, worker>> /\ SetTaskStatus(op[c].task, op[c].to)
    BY <1>3 DEF WritesStatus
  <2>2. op[c].to # "running"
    BY <1>3 DEF WritesStatus, OpAt, ServicesInv, GoodOps, Writable
  <2> QED
    BY <1>0, <2>1, <2>2, OtherStatus, RestHeld DEF ActiveRuns
<1>4. CASE CancelAbandons(c)
  <2>1. UNCHANGED <<status, worker>> /\ FinishRun(op[c].id, "abandoned")
    BY <1>4 DEF CancelAbandons
  <2>2. ActiveRuns' \subseteq ActiveRuns
    BY <1>0, <2>1, FinishEnds DEF EndStatus
  <2> QED
    BY <1>0, <2>1, <2>2, RestHeld
<1>5. CASE CancelSignals(c)
  <2>1. UNCHANGED <<runs, status>> /\ \E t : Cancel(t, "cancelled")
    BY <1>5 DEF CancelSignals, storeVars
  <2> QED
    BY <1>0, <2>1, CancelHeld
<1>6. CASE RunNowLaunches(c)
  <2> DEFINE k == [task |-> op[c].task, resume |-> op[c].id, attempt |-> op[c].attempt]
  <2>1. UNCHANGED <<runs, status>> /\ (Launch(k, TRUE) \/ worker' = worker)
    BY <1>6 DEF RunNowLaunches, storeVars
  <2>2. k.task \in Tasks
    BY <1>6 DEF RunNowLaunches, OpAt, ServicesInv, GoodOps
  <2> HIDE DEF k
  <2>3. CASE Launch(k, TRUE)
    <3>1. \E d : d.task \in Tasks /\ Launch(d, TRUE)
      BY <2>2, <2>3
    <3> QED
      BY <1>0, <2>1, <3>1, LaunchHeld
  <2>4. CASE worker' = worker
    BY <1>0, <2>1, <2>4, RestHeld DEF ActiveRuns
  <2> QED
    BY <2>1, <2>3, <2>4
<1> QED
  BY <1>1, <1>2, <1>3, <1>4, <1>5, <1>6 DEF HandlerStep, UserBegins

\* With no task in flight there is nothing left that someone could own.
LEMMA NothingHeld ==
    ASSUME RunnerInv, RowsOK, HeldInv, Inflight = {}
    PROVE  alive = {} /\ ActiveRuns = {} /\ \A t \in Tasks : status[t] # "running"
<1>1. \A t \in Tasks : worker[t].pc = "idle" /\ worker[t].run = 0
  BY DEF Inflight, At, RowsOK, Early
<1>2. \A t \in Tasks : status[t] # "running"
  BY <1>1 DEF HeldInv, RunningAt, Running
<1>3. \A r \in ActiveRuns \cup alive : r # 0
  BY DEF ActiveRuns, RunnerInv, RunnerTypeOK
<1>4. ActiveRuns \cup alive = {}
  BY <1>1, <1>3 DEF HeldInv, Owned, RunOf
<1> QED
  BY <1>2, <1>4

LEMMA HeldInvNext ==
    ASSUME "crash" \notin Signals, Exit => Inflight = {},
           TypeInv, TypeInv', LeaseInv, LeaseInv', HeldInv, [Next]_vars
    PROVE  HeldInv'
<1>0. /\ RunnerInv /\ RunnerInv' /\ SchedulerTypeOK /\ SchedOK /\ ServicesInv
      /\ RowsOK /\ RowsOK' /\ DownIdle
  BY TypeInvHas DEF LeaseInv, RunnerInv, TypeInv, TypeOK
\* A step that leaves runs, tasks and workers alone.
<1>a. ASSUME UNCHANGED <<runs, status, worker>>, alive' \subseteq alive
      PROVE  HeldInv'
  BY <1>a, RestHeld DEF ActiveRuns
<1>1. ASSUME NEW t \in Tasks, Works(t) \/ NamesSession(t)
      PROVE  HeldInv'
  <2>1. RunnerStep(t) \/ SessionInit(t)
    BY <1>1 DEF Works, NamesSession, WorkerStep
  <2> QED
    BY <1>0, <2>1, RunnerEffect, WorkerHeld
<1>2. ASSUME NEW t \in Tasks, Releases(t)
      PROVE  HeldInv'
  BY <1>0, <1>2, ReleaseHeld DEF Releases
<1>3. ASSUME NEW r \in 1 .. MaxRuns, Asks(r) \/ Awaits(r)
      PROVE  HeldInv'
  <2>1. UNCHANGED <<runs, status, worker, alive>>
    BY <1>3 DEF Asks, Awaits, Ask, AskAgain, CallStep, AwaitFinds, AwaitGoesLive,
       AwaitEnds, AwaitReturns, runnerVars, storeVars
  <2> QED
    BY <1>a, <2>1
<1>4. ASSUME NEW r \in 1 .. MaxRuns, OrphanExits(r)
      PROVE  HeldInv'
  BY <1>4, <1>a DEF OrphanExits, storeVars
<1>5. ASSUME NEW c \in Clients, Demands(c) \/ Handles(c)
      PROVE  HeldInv'
  BY <1>0, <1>5, HandlersHeld DEF Demands, Handles
<1>6. CASE Ticks
  BY <1>0, <1>6, TickHeld DEF Ticks
<1>7. CASE Stops \/ Signalled
  <2>1. UNCHANGED <<runs, status, alive>> /\ \E S : CancelEvery(S, "shutdown")
    BY <1>7 DEF Stops, Signalled, CancelAll, Terminate, storeVars
  <2> QED
    BY <1>0, <2>1, CancelHeld
<1>8. CASE Exit
  <2>1. alive = {} /\ ActiveRuns = {} /\ \A t \in Tasks : status[t] # "running"
    BY <1>0, <1>8, NothingHeld
  <2>2. /\ UNCHANGED <<runs, status, alive>> /\ NoWorker.run = 0
        /\ worker' = [t \in Tasks |-> NoWorker]
    BY <1>8 DEF Exit, Forgotten, storeVars, NoWorker
  <2>3. alive' = {} /\ ActiveRuns' = {}
    BY <2>1, <2>2 DEF ActiveRuns
  <2> QED
    BY <2>1, <2>2, <2>3 DEF HeldInv, ClosedAt, RunningAt
<1>9. CASE Restart
  BY <1>9, <1>a DEF Restart, runnerVars
<1>10. CASE UNCHANGED vars
  BY <1>10, <1>a DEF vars, storeVars, runnerVars
<1>11. CASE Stopped
  BY <1>11, <1>a DEF Stopped, LoopEnds, storeVars, runnerVars
<1>12. ~Crash
  BY DEF Crash
<1> QED
  BY <1>1, <1>2, <1>3, <1>4, <1>5, <1>6, <1>7, <1>8, <1>9, <1>10, <1>11, <1>12 DEF Next

\* The last daemon is gone.
LastIsGone == mode = "down" /\ lives = Lives

\* Then at most what it left behind moves: a claude ends.
LEMMA GoneStays ==
    ASSUME TypeInv, LeaseInv, LastIsGone, [Next]_vars
    PROVE  LastIsGone' /\ runs' = runs /\ alive' \subseteq alive
<1>0. /\ mode = "down" /\ lives = Lives /\ DownIdle
      /\ sched.pc = "idle" /\ \A t \in Tasks : worker[t].pc = "idle"
      /\ worker \in [Tasks -> Worker] /\ Lives \in Nat
  BY TypeInvHas, DaemonAssumption
     DEF LastIsGone, LeaseInv, DownIdle, RunnerInv, RunnerTypeOK
<1>1. ASSUME NEW t \in Tasks, Works(t) \/ NamesSession(t)
      PROVE  FALSE
  BY <1>0, <1>1, RunnerKeepsLaunch DEF Works, NamesSession, WorkerStep
<1>2. ASSUME NEW t \in Tasks, Releases(t)
      PROVE  FALSE
  BY <1>0, <1>2 DEF Releases, Release, At
<1>3. ASSUME NEW r \in 1 .. MaxRuns, Asks(r) \/ Awaits(r)
      PROVE  FALSE
  BY <1>0, <1>3 DEF Asks, Ask, AskAgain, Awaits, CallStep, AwaitFinds, AwaitGoesLive,
     AwaitEnds, AwaitReturns, CallAt
<1>4. ASSUME NEW c \in Clients, Demands(c)
      PROVE  FALSE
  BY <1>0, <1>4 DEF Demands, UserBegins, CreateTask, EditTask, DeleteChecks,
     PauseChecks, ResumeChecks, SetChecks, CommentChecks, RunNowChecks, CancelChecks,
     SettleChecks, Arrives
<1>5. ASSUME NEW c \in Clients, Handles(c)
      PROVE  FALSE
  BY <1>0, <1>5 DEF Handles, HandlerStep, DeletesRow, RetiresRequests, WritesStatus,
     ForgetsAttempts, InsertsComment, RunNowLaunches, CancelSignals, CancelAbandons,
     ReplyStep, Decides, Replies, Answers, Delivers, Wakes, OpAt
<1>6. ~Ticks
  BY <1>0, TickIsUp DEF Ticks
<1>7. ~Stops /\ ~Stopped /\ ~Signalled /\ ~Crash /\ ~Exit /\ ~Restart
  BY <1>0 DEF Stops, CancelAll, Stopped, LoopEnds, Drained, Signalled, Terminate,
     Crash, Exit, Restart
<1>8. ASSUME NEW r \in 1 .. MaxRuns, OrphanExits(r)
      PROVE  LastIsGone' /\ runs' = runs /\ alive' \subseteq alive
  BY <1>8 DEF OrphanExits, LastIsGone, storeVars, schedulerVars
<1>9. CASE UNCHANGED vars
  BY <1>9 DEF vars, LastIsGone, storeVars, runnerVars, schedulerVars
<1> QED
  BY <1>1, <1>2, <1>3, <1>4, <1>5, <1>6, <1>7, <1>8, <1>9 DEF Next

\* Two claudes are never on one task; of what is held this needs only that each
\* is that of a worker's row.
LEMMA HeldIsOne ==
    ASSUME TypeInv, LeaseInv, HeldInv
    PROVE  OneClaude
<1> SUFFICES ASSUME NEW q \in alive, NEW r \in alive, runs[q].task = runs[r].task
             PROVE  q = r
  BY DEF OneClaude
<1>1. PICK t \in Tasks : worker[t].run = q
  BY DEF HeldInv, Owned, RunOf
<1>2. PICK u \in Tasks : worker[u].run = r
  BY DEF HeldInv, Owned, RunOf
<1>3. q # 0 /\ r # 0
  BY DEF TypeInv, TypeOK, RunnerTypeOK
<1>4. runs[q].task = t /\ runs[r].task = u
  BY <1>1, <1>2, <1>3 DEF LeaseInv, RowsOK
<1> QED
  BY <1>1, <1>2, <1>4

\* As long as a daemon is up, or is to come, everything is held; what the last
\* one leaves when it ends beside a run launched by hand is still one claude.
HeldOrGone ==
    /\ ByHandInv
    /\ HeldInv \/ (LastIsGone /\ OneClaude)

LEMMA HeldNext ==
    ASSUME "crash" \notin Signals, NoLateLaunch,
           TypeInv, TypeInv', LeaseInv, LeaseInv', HeldOrGone, [Next]_vars
    PROVE  HeldOrGone'
<1>1. ByHandInv'
  BY ByHandNext DEF HeldOrGone
<1>2. CASE LastIsGone /\ OneClaude
  <2>1. LastIsGone' /\ runs' = runs /\ alive' \subseteq alive
    BY <1>2, GoneStays
  <2> QED
    BY <1>1, <1>2, <2>1 DEF HeldOrGone, OneClaude
<1>3. CASE HeldInv /\ ~Exit
  BY <1>1, <1>3, HeldInvNext DEF HeldOrGone
<1>4. CASE HeldInv /\ Exit
  <2>1. sched.pc = "stopped" /\ Forgotten /\ mode # "down"
    BY <1>4 DEF Exit, LeaseInv, DownIdle
  <2>2. CASE lives = Lives
    <3>1. LastIsGone' /\ UNCHANGED <<runs, alive>>
      BY <2>1, <2>2 DEF Forgotten, LastIsGone, storeVars
    <3>2. OneClaude'
      BY <1>4, <3>1, HeldIsOne DEF OneClaude
    <3> QED
      BY <1>1, <3>1, <3>2 DEF HeldOrGone
  <2>3. CASE lives # Lives
    <3>1. lives \in 0 .. Lives /\ lives # 0
      BY <2>1 DEF TypeInv, TypeOK, HeldOrGone, ByHandInv
    <3>2. Lives # 1
      BY <2>3, <3>1
    <3>3. Inflight = {}
      BY <2>1, <3>2 DEF NoLateLaunch, HeldOrGone, ByHandInv, NoneByHand, Inflight
    <3> QED
      BY <1>1, <1>4, <3>3, HeldInvNext DEF HeldOrGone
  <2> QED
    BY <2>2, <2>3
<1> QED
  BY <1>2, <1>3, <1>4 DEF HeldOrGone

LEMMA HeldInvInit ==
    ASSUME Init
    PROVE  HeldInv
<1>1. /\ runs = <<>> /\ alive = {} /\ NoWorker.run = 0
      /\ worker = [t \in Tasks |-> NoWorker] /\ status = [t \in Tasks |-> "none"]
  BY DEF Init, StoreInit, RunnerInit, NoWorker
<1> QED
  BY <1>1 DEF HeldInv, ActiveRuns, ClosedAt, RunningAt

LEMMA HeldHolds ==
    ASSUME "crash" \notin Signals, NoLateLaunch
    PROVE  Spec => [](TypeInv /\ LeaseInv /\ HeldOrGone)
<1>1. Init => TypeInv /\ LeaseInv /\ HeldOrGone
  BY TypeInvInit, LeaseInvInit, HeldInvInit, ByHandInit DEF HeldOrGone
<1>2. TypeInv /\ [Next]_vars => TypeInv'
  BY TypeInvNext
<1>3. TypeInv /\ TypeInv' /\ LeaseInv /\ [Next]_vars => LeaseInv'
  BY LeaseInvNext
<1>4. TypeInv /\ TypeInv' /\ LeaseInv /\ LeaseInv' /\ HeldOrGone /\ [Next]_vars
        => HeldOrGone'
  BY HeldNext
<1> QED
  BY <1>1, <1>2, <1>3, <1>4, PTL DEF Spec

\* However ticks, workers and every kind of user request interleave, a run row
\* is active only while its goroutine lives and a task reads "running" only
\* while it holds a worker: short of a crash, and of a run launched by hand
\* while an earlier daemon was ending, nothing is stranded.
THEOREM NothingStrandedHolds ==
    ASSUME "crash" \notin Signals, NoLateLaunch
    PROVE  Spec => []NothingStranded
<1>1. HeldOrGone => NothingStranded
  BY DEF HeldOrGone, LastIsGone, HeldInv, RunningAt, Running, NothingStranded,
     Inflight, At
<1> QED
  BY <1>1, HeldHolds, PTL

\* Short of a crash, and of a run launched by hand while an earlier daemon was
\* ending, two claudes never work on one task: each of them is that of a
\* worker's row, the row is its own task's, and a task has one worker.
THEOREM OneClaudeHolds ==
    ASSUME "crash" \notin Signals, NoLateLaunch
    PROVE  Spec => []OneClaude
<1>1. TypeInv /\ LeaseInv /\ HeldOrGone => OneClaude
  BY HeldIsOne DEF HeldOrGone
<1> QED
  BY <1>1, HeldHolds, PTL

\* An orderly exit comes after the last worker the wait counted: whatever it
\* leaves active, alive or running belongs to a run launched by hand.
THEOREM ExitHolds ==
    ASSUME "crash" \notin Signals, NoLateLaunch
    PROVE  Spec => ExitLosesNoScheduledRun
<1>1. TypeInv /\ LeaseInv /\ HeldOrGone /\ [Next]_vars
        => [Exit => /\ \A t \in Inflight : worker[t].manual
                    /\ \A r \in alive \cup ActiveRuns : Owned(r)
                    /\ \A t \in Tasks : status[t] = "running" => t \in Inflight]_vars
  <2> SUFFICES ASSUME TypeInv, LeaseInv, HeldOrGone, Exit
               PROVE  /\ \A t \in Inflight : worker[t].manual
                      /\ \A r \in alive \cup ActiveRuns : Owned(r)
                      /\ \A t \in Tasks : status[t] = "running" => t \in Inflight
    OBVIOUS
  <2>1. sched.pc = "stopped" /\ ~LastIsGone
    BY DEF Exit, LastIsGone, LeaseInv, DownIdle
  <2>2. HeldInv /\ \A t \in Tasks : t \in Inflight => worker[t].manual
    BY <2>1 DEF HeldOrGone, ByHandInv
  <2> QED
    BY <2>2 DEF HeldInv, RunningAt, Running, Inflight, At
<1> QED
  BY <1>1, HeldHolds, PTL DEF Spec, ExitLosesNoScheduledRun

-----------------------------------------------------------------------------
(* Through crashes.                                                        *)

\* What reconcile has listed are rows of the tasks it says.
ListOK ==
    \A i \in 1 .. Len(sched.list) :
        /\ sched.list[i].id \in 1 .. Len(runs)
        /\ runs[sched.list[i].id].task = sched.list[i].task

\* Every active run has its goroutine.
Clean == \A r \in ActiveRuns : Owned(r)

\* A daemon that has not planned yet: it holds no worker, and its first
\* reconcile has, or will have, every active run on its list as it is.
Fresh ==
    /\ Inflight = {}
    /\ sched.pc \in {"idle", "waiting", "stopped", "listed", "burying", "killing",
                    "settling"}
    /\ sched.pc \notin {"idle", "waiting", "stopped"} =>
        /\ \A r \in ActiveRuns : \E i \in 1 .. Len(sched.list) :
              sched.list[i].id = r /\ (sched.pc = "settling" => i # 1)
        /\ \A i \in 1 .. Len(sched.list) :
              sched.list[i].pid = runs[sched.list[i].id].pid

\* No user launches or abandons a run.
HandsOff == \A c \in Clients : op[c].at \notin {"launch", "signal", "abandon"}

SlateInv ==
    /\ HandsOff
    /\ ListOK
    /\ sched.pc = "killing" => Found.task \notin Inflight
    /\ \A t \in Tasks : ClosedAt(t) /\ OpenAt(t)
    /\ \A r \in alive : runs[r].pid => r \in ActiveRuns
    /\ Clean \/ Fresh

\* The orderings of a finite set leave none of its elements out.
LEMMA OrderingsComplete ==
    ASSUME NEW S, IsFiniteSet(S), NEW o \in Orderings(S), NEW x \in S
    PROVE  \E i \in 1 .. Cardinality(S) : o[i] = x
<1> DEFINE n == Cardinality(S)
<1>1. n \in Nat /\ o \in [1 .. n -> S]
      /\ \A i, j \in 1 .. n : i # j => o[i] # o[j]
  BY FS_CardinalityType DEF Orderings
<1>2. SUFFICES ASSUME \A i \in 1 .. n : o[i] # x PROVE FALSE
  OBVIOUS
<1>3. o \in [1 .. n -> S \ {x}]
  BY <1>1, <1>2
<1>4. IsFiniteSet(S \ {x}) /\ Cardinality(S \ {x}) = n - 1
  BY FS_RemoveElement
<1>5. IsFiniteSet(1 .. n) /\ Cardinality(1 .. n) = n
  BY <1>1, FS_Interval
<1> HIDE DEF n
<1>6. \E i, j \in 1 .. n : i # j /\ o[i] = o[j]
  BY <1>1, <1>3, <1>4, <1>5, FS_PigeonHole
<1> QED
  BY <1>1, <1>6

\* No row changes its task.
RowsStay ==
    /\ Len(runs') >= Len(runs)
    /\ \A i \in 1 .. Len(runs) : runs'[i].task = runs[i].task

LEMMA TasksStay ==
    ASSUME TypeInv, TypeInv', LeaseInv, [Next]_vars
    PROVE  RowsStay
<1>1. Len(runs) \in Nat /\ Len(runs') \in Nat
  BY DEF TypeInv, TypeOK, StoreTypeOK
<1>2. [L!LeaseNext]_(L!leaseVars)
  BY LeaseInvNext
<1>3. Log' = Log \/ \E t : Log' = Append(Log, t)
  BY <1>2 DEF L!LeaseNext, L!leaseVars, L!Take, L!Write, L!Employ, L!Give,
     L!AgentsEnd, L!Down, L!Up, Log
<1>4. /\ Len(Log) = Len(runs) /\ Len(Log') = Len(runs')
      /\ \A i \in 1 .. Len(runs) : Log[i] = runs[i].task
      /\ \A i \in 1 .. Len(runs') : Log'[i] = runs'[i].task
      /\ DOMAIN Log = 1 .. Len(runs) /\ DOMAIN Log' = 1 .. Len(runs')
  BY <1>1 DEF Log
<1> HIDE DEF Log
<1>5. CASE Log' = Log
  BY <1>1, <1>4, <1>5 DEF RowsStay
<1>6. ASSUME NEW t, Log' = Append(Log, t)
      PROVE  /\ Len(runs') >= Len(runs)
             /\ \A i \in 1 .. Len(runs) : runs'[i].task = runs[i].task
  <2>1. Append(Log, t) = [i \in 1 .. Len(runs) + 1 |->
                             IF i = Len(runs) + 1 THEN t ELSE Log[i]]
    BY <1>1, <1>4 DEF Log
  <2>2. Len(runs') >= Len(runs)
    <3>1. Len(runs) + 1 \in DOMAIN Log'
      BY <1>1, <1>6, <2>1
    <3> QED
      BY <1>1, <1>4, <3>1
  <2>3. \A i \in 1 .. Len(runs) : Log'[i] = Log[i]
    BY <1>1, <1>6, <2>1
  <2> QED
    BY <1>1, <1>4, <2>2, <2>3
<1> QED
  BY <1>3, <1>5, <1>6 DEF RowsStay

LEMMA ListStays ==
    ASSUME RunnerInv, RunnerInv', ListOK, RowsStay, sched'.list = sched.list
    PROVE  ListOK'
<1>1. Len(runs) \in Nat /\ Len(runs') \in Nat
  BY DEF RunnerInv, StoreTypeOK
<1>2. \A i \in 1 .. Len(runs) : i \in 1 .. Len(runs') /\ runs'[i].task = runs[i].task
  BY <1>1 DEF RowsStay
<1> QED
  BY <1>2 DEF ListOK

\* A worker of this daemon at work: the daemon is past its first reconcile.
LEMMA WorkerSlate ==
    ASSUME RunnerInv, RunnerInv', RowsOK, RowsOK', RowsStay, SlateInv, NEW t \in Tasks,
           WorkerEffect(t), UNCHANGED <<sched, op>>
    PROVE  SlateInv'
<1>0. OthersKept(t) /\ worker[t].pc # "idle" /\ worker'[t].pc # "idle"
  BY DEF WorkerEffect
<1>1. Inflight' = Inflight /\ t \in Inflight
  BY <1>0 DEF OthersKept, Inflight, At
<1>2. Clean
  BY <1>1 DEF SlateInv, Fresh
<1>3. HandsOff' /\ ListOK'
  BY ListStays DEF SlateInv, HandsOff
<1>4. (sched.pc = "killing" => Found.task \notin Inflight)'
  BY <1>1 DEF SlateInv, Found
<1>5. ASSUME NEW u \in Tasks \ {t}
      PROVE  ClosedAt(u)' /\ OpenAt(u)'
  <2>1. worker'[u] = worker[u] /\ ClosedAt(u) /\ OpenAt(u)
    BY <1>0 DEF OthersKept, SlateInv
  <2>2. worker[u].run # 0 => worker[u].run # worker'[t].run
    <3>1. worker'[u].run # 0 => worker'[u].run # worker'[t].run
      BY DEF RowsOK
    <3> QED
      BY <2>1, <3>1
  <2>3. worker[u].run # 0 =>
           (worker[u].run \in ActiveRuns' <=> worker[u].run \in ActiveRuns)
    BY <1>0, <2>2 DEF OthersKept, ActiveRuns
  <2>4. 0 \notin ActiveRuns
    BY DEF ActiveRuns
  <2> QED
    BY <2>1, <2>3, <2>4 DEF ClosedAt, OpenAt
<1>6. ClosedAt(t)' /\ OpenAt(t)'
  BY DEF WorkerEffect, SlateInv
<1>7. ASSUME NEW r \in alive', runs'[r].pid
      PROVE  r \in ActiveRuns'
  <2>1. CASE r = worker'[t].run
    BY <1>6, <1>7, <2>1 DEF RowsOK, Busy, OpenAt, Open
  <2>2. CASE r # worker'[t].run
    <3>1. r \in alive /\ r \in 1 .. Len(runs) /\ runs'[r] = runs[r]
      BY <1>0, <1>7, <2>2 DEF OthersKept, RunnerInv, RunnerTypeOK
    <3>2. r \in ActiveRuns
      BY <1>7, <3>1 DEF SlateInv
    <3> QED
      BY <1>0, <3>1, <3>2 DEF OthersKept, ActiveRuns
  <2> QED
    BY <2>1, <2>2
<1>8. ASSUME NEW r \in ActiveRuns'
      PROVE  Owned(r)'
  <2>1. CASE r = worker'[t].run
    BY <2>1 DEF Owned, RunOf
  <2>2. CASE r # worker'[t].run
    <3>1. r \in ActiveRuns /\ r # 0
      BY <1>0, <1>8, <2>2 DEF OthersKept, ActiveRuns
    <3>2. PICK u \in Tasks : worker[u].run = r
      BY <1>2, <3>1 DEF Clean, Owned, RunOf
    <3>3. u # t
      BY <1>0, <2>2, <3>1, <3>2 DEF OthersKept
    <3> QED
      BY <1>0, <3>2, <3>3 DEF OthersKept, Owned, RunOf
  <2> QED
    BY <2>1, <2>2
<1> QED
  BY <1>3, <1>4, <1>5, <1>6, <1>7, <1>8 DEF SlateInv, Clean

\* Whatever leaves the rows and the workers' places alone.
LEMMA RestSlate ==
    ASSUME SlateInv, HandsOff', ListOK', runs' = runs, alive' \subseteq alive,
           \A t \in Tasks : worker'[t].pc = worker[t].pc /\ worker'[t].run = worker[t].run,
           (sched.pc = "killing" => Found.task \notin Inflight)',
           Clean \/ Fresh'
    PROVE  SlateInv'
<1>1. ActiveRuns' = ActiveRuns
  BY DEF ActiveRuns
<1>2. Clean => Clean'
  BY <1>1 DEF Clean, Owned, RunOf
<1>3. \A t \in Tasks : ClosedAt(t)' /\ OpenAt(t)'
  BY <1>1 DEF SlateInv, ClosedAt, OpenAt
<1> QED
  BY <1>1, <1>2, <1>3 DEF SlateInv

\* Steps outside the loop.
LEMMA StillSlate ==
    ASSUME RunnerInv, RunnerInv', SlateInv, HandsOff', runs' = runs,
           alive' \subseteq alive, sched' = sched,
           \A t \in Tasks : worker'[t].pc = worker[t].pc /\ worker'[t].run = worker[t].run
    PROVE  SlateInv'
<1>1. Inflight' = Inflight
  BY DEF Inflight, At
<1>2. ListOK' /\ (sched.pc = "killing" => Found.task \notin Inflight)'
  BY <1>1 DEF SlateInv, ListOK, Found
<1>3. Fresh => Fresh'
  BY <1>1 DEF Fresh, ActiveRuns
<1> QED
  BY <1>2, <1>3, RestSlate DEF SlateInv

LEMMA ReleaseSlate ==
    ASSUME RunnerInv, RunnerInv', RowsOK, SlateInv, NEW t \in Tasks, Release(t), op' = op
    PROVE  SlateInv'
<1>0. /\ worker \in [Tasks -> Worker]
      /\ worker[t].pc = "done" /\ worker' = [worker EXCEPT ![t] = NoWorker]
      /\ UNCHANGED <<runs, alive, sched>>
  BY DEF RunnerInv, RunnerTypeOK, Release, At, storeVars, schedulerVars
<1>1. /\ worker'[t].pc = "idle" /\ worker'[t].run = 0
      /\ \A u \in Tasks \ {t} : worker'[u] = worker[u]
  BY <1>0 DEF NoWorker
<1>2. ActiveRuns' = ActiveRuns /\ 0 \notin ActiveRuns
  BY <1>0 DEF ActiveRuns
<1>3. Inflight' \subseteq Inflight /\ t \in Inflight
  BY <1>0, <1>1 DEF Inflight, At
<1>4. Clean
  BY <1>3 DEF SlateInv, Fresh
<1>5. worker[t].run \notin ActiveRuns
  BY <1>0, <1>2 DEF SlateInv, ClosedAt, Closed
<1>6. Clean'
  <2> SUFFICES ASSUME NEW r \in ActiveRuns PROVE Owned(r)'
    BY <1>2 DEF Clean
  <2>1. PICK u \in Tasks : worker[u].run = r
    BY <1>4 DEF Clean, Owned, RunOf
  <2> QED
    BY <1>1, <1>5, <2>1 DEF Owned, RunOf
<1>7. ASSUME NEW u \in Tasks
      PROVE  ClosedAt(u)' /\ OpenAt(u)'
  <2>1. CASE u = t
    BY <1>1, <2>1 DEF ClosedAt, OpenAt, Closed, Open
  <2>2. CASE u # t
    BY <1>1, <1>2, <2>2 DEF SlateInv, ClosedAt, OpenAt
  <2> QED
    BY <2>1, <2>2
<1>8. HandsOff' /\ ListOK' /\ (sched.pc = "killing" => Found.task \notin Inflight)'
  BY <1>0, <1>3 DEF SlateInv, HandsOff, ListOK, Found
<1> QED
  BY <1>0, <1>2, <1>6, <1>7, <1>8 DEF SlateInv

\* reconcile closes the row it found: it is nobody's, and no claude that could
\* be found by its pid is left of it.
LEMMA BurySlate ==
    ASSUME RunnerInv, RunnerInv', SchedulerTypeOK, SchedOK, RowsOK, RowsStay, SlateInv,
           KillOrphan \/ BuryRun, op' = op
    PROVE  SlateInv'
<1> DEFINE f == Found.id
<1>0. /\ worker' = worker /\ FinishRun(f, "errored") /\ alive' \subseteq alive
      /\ sched' = [sched EXCEPT !.pc = "settling"]
      /\ sched.pc \in {"killing", "burying"} /\ sched.list # <<>>
      /\ Found.task \notin Inflight
      /\ f \notin alive' \/ ~Found.pid
  BY DEF KillOrphan, BuryRun, Step, SchedOK, SlateInv, runnerVars
<1>1. /\ runs \in Seq(RunRow) /\ sched \in Sched
      /\ sched'.list = sched.list /\ sched'.pc = "settling"
  BY <1>0 DEF RunnerInv, StoreTypeOK, SchedulerTypeOK, Sched
<1>2. /\ 1 \in 1 .. Len(sched.list) /\ Found = sched.list[1] /\ Len(sched.list) \in Nat
  <2>1. sched.list \in Seq(ActiveRun)
    BY <1>1 DEF Sched
  <2> QED
    BY <1>0, <2>1 DEF Found
<1>3. f \in 1 .. Len(runs) /\ runs[f].task = Found.task
  BY <1>2 DEF SlateInv, ListOK
<1>4. /\ ActiveRuns' = ActiveRuns \ {f}
      /\ Len(runs') = Len(runs)
      /\ \A q \in 1 .. Len(runs) : runs'[q].pid = runs[q].pid
  BY <1>0, <1>1, FinishEnds DEF EndStatus
<1>5. ASSUME NEW t \in Tasks
      PROVE  worker[t].run # f
  <2>1. ASSUME worker[t].run = f
        PROVE  FALSE
    <3>1. t = Found.task /\ worker[t].run # 0
      BY <1>3, <2>1 DEF RowsOK
    <3>2. t \in Inflight
      BY <3>1 DEF RowsOK, Early, Inflight, At
    <3> QED
      BY <1>0, <3>1, <3>2
  <2> QED
    BY <2>1
<1>6. HandsOff' /\ ListOK'
  BY <1>1, ListStays DEF SlateInv, HandsOff
<1>7. \A t \in Tasks : ClosedAt(t)' /\ OpenAt(t)'
  BY <1>0, <1>4, <1>5 DEF SlateInv, ClosedAt, OpenAt
<1>8. CASE Clean
  <2>1. Clean'
    BY <1>0, <1>4, <1>8 DEF Clean, Owned, RunOf
  <2>2. f \notin ActiveRuns
    BY <1>5, <1>8 DEF Clean, Owned, RunOf
  <2>3. \A r \in alive' : runs'[r].pid => r \in ActiveRuns'
    BY <1>0, <1>4, <2>2 DEF SlateInv, RunnerInv, RunnerTypeOK
  <2> QED
    BY <1>1, <1>6, <1>7, <2>1, <2>3 DEF SlateInv
<1>9. CASE Fresh
  <2>1. runs[f].pid = Found.pid
    BY <1>0, <1>2, <1>9 DEF Fresh
  <2>2. \A r \in alive' : runs'[r].pid => r \in ActiveRuns'
    BY <1>0, <1>3, <1>4, <2>1 DEF SlateInv, RunnerInv, RunnerTypeOK
  <2>3. ASSUME NEW r \in ActiveRuns'
        PROVE  \E i \in 1 .. Len(sched.list) : sched.list[i].id = r /\ i # 1
    BY <1>0, <1>2, <1>4, <1>9, <2>3 DEF Fresh
  <2>4. \A i \in 1 .. Len(sched.list) : sched.list[i].pid = runs'[sched.list[i].id].pid
    BY <1>0, <1>4, <1>9 DEF Fresh, SlateInv, ListOK
  <2>5. Inflight' = {}
    BY <1>0, <1>9 DEF Fresh, Inflight, At
  <2>6. Fresh'
    BY <1>1, <2>3, <2>4, <2>5 DEF Fresh
  <2> QED
    BY <1>1, <1>6, <1>7, <2>2, <2>6 DEF SlateInv
<1> QED
  BY <1>8, <1>9 DEF SlateInv

\* The loop's steps that write no run and move no worker.
LEMMA LoopSlate ==
    ASSUME RunnerInv, RunnerInv', SchedulerTypeOK, SchedOK, SlateInv, op' = op,
           \/ ListActiveRuns \/ LockForReconcile \/ SkipTracked \/ UnlockToKill
           \/ SettleBuried \/ UnlockReconciled \/ FetchResumable \/ FetchQueued
           \/ Decide \/ Suspend \/ Fail \/ EndTick
    PROVE  SlateInv'
<1>0. /\ sched \in Sched /\ sched.list \in Seq(ActiveRun) /\ Len(sched.list) \in Nat
      /\ runs \in Seq(RunRow) /\ Len(runs) \in Nat
      /\ worker \in [Tasks -> Worker] /\ worker' \in [Tasks -> Worker]
  BY DEF SchedulerTypeOK, Sched, RunnerInv, StoreTypeOK, RunnerTypeOK
<1>1. UNCHANGED <<runs, alive>>
  BY DEF ListActiveRuns, LockForReconcile, SkipTracked, UnlockToKill, SettleBuried,
     UnlockReconciled, FetchResumable, FetchQueued, Decide, Suspend, Fail, EndTick,
     storeVars, runnerVars
<1>2. \A t \in Tasks : worker'[t].pc = worker[t].pc /\ worker'[t].run = worker[t].run
  <2>1. worker' = worker \/ \E t : Cancel(t, "suspended")
    BY DEF ListActiveRuns, LockForReconcile, SkipTracked, UnlockToKill, SettleBuried,
       UnlockReconciled, FetchResumable, FetchQueued, Decide, Suspend, Fail, EndTick,
       runnerVars
  <2> QED
    BY <1>0, <2>1, CancelledStays DEF Cancel
<1>3. HandsOff' /\ Inflight' = Inflight /\ ActiveRuns' = ActiveRuns
  BY <1>1, <1>2 DEF SlateInv, HandsOff, Inflight, At, ActiveRuns
<1>a. ASSUME ListOK', sched'.pc # "killing", Clean \/ Fresh'
      PROVE  SlateInv'
  BY <1>1, <1>2, <1>3, <1>a, RestSlate
<1>4. CASE ListActiveRuns
  <2>1. PICK o \in Orderings(ActiveRuns) :
          sched' = [sched EXCEPT !.pc = "listed",
                                 !.list = [i \in DOMAIN o |-> Snapshot(o[i])]]
    BY <1>4 DEF ListActiveRuns
  <2>2. IsFiniteSet(ActiveRuns) /\ Cardinality(ActiveRuns) \in Nat
    <3>1. IsFiniteSet(1 .. Len(runs)) /\ ActiveRuns \subseteq 1 .. Len(runs)
      BY <1>0, FS_Interval DEF ActiveRuns
    <3> QED
      BY <3>1, FS_Subset, FS_CardinalityType
  <2> DEFINE n == Cardinality(ActiveRuns)
  <2>3. o \in [1 .. n -> ActiveRuns] /\ DOMAIN o = 1 .. n
    BY <2>1 DEF Orderings
  <2>4. /\ sched'.pc = "listed"
        /\ sched'.list = [i \in 1 .. n |-> Snapshot(o[i])]
    BY <1>0, <2>1, <2>3 DEF Sched
  <2>5. \A r \in ActiveRuns : \E i \in 1 .. n : o[i] = r
    BY <2>2, OrderingsComplete
  <2> HIDE DEF n
  <2>6. n \in Nat /\ Len(sched'.list) = n
    BY <2>2, <2>4 DEF n
  <2>7. \A i \in 1 .. n : /\ sched'.list[i].id = o[i]
                          /\ sched'.list[i].task = runs[o[i]].task
                          /\ sched'.list[i].pid = runs[o[i]].pid
                          /\ o[i] \in 1 .. Len(runs)
    BY <2>3, <2>4 DEF Snapshot, ActiveRuns
  <2>8. ListOK'
    BY <1>1, <2>6, <2>7 DEF ListOK
  <2>9. Fresh => Fresh'
    BY <1>1, <1>3, <2>4, <2>5, <2>6, <2>7 DEF Fresh
  <2> QED
    BY <1>a, <2>4, <2>8, <2>9 DEF SlateInv
<1>5. CASE LockForReconcile
  <2>1. sched.pc = "listed" /\ sched'.pc = "burying" /\ sched'.list = sched.list
    BY <1>0, <1>5 DEF LockForReconcile, Step, Sched
  <2>2. ListOK'
    BY <1>1, <2>1 DEF SlateInv, ListOK
  <2>3. Fresh => Fresh'
    BY <1>1, <1>3, <2>1 DEF Fresh
  <2> QED
    BY <1>a, <2>1, <2>2, <2>3 DEF SlateInv
<1>6. CASE SkipTracked \/ SettleBuried
  <2>1. /\ sched.list # <<>> /\ sched'.pc = "burying" /\ sched'.list = Tail(sched.list)
        /\ sched.pc = "settling" \/ Inflight # {}
    BY <1>0, <1>6 DEF SkipTracked, SettleBuried, SchedOK, Sched
  <2>2. /\ Len(sched'.list) = Len(sched.list) - 1
        /\ \A i \in 1 .. Len(sched'.list) :
              i + 1 \in 1 .. Len(sched.list) /\ sched'.list[i] = sched.list[i + 1]
    BY <1>0, <2>1
  <2>3. ListOK'
    BY <1>1, <2>2 DEF SlateInv, ListOK
  <2>4. ASSUME Fresh
        PROVE  Fresh'
    <3>1. sched.pc = "settling"
      BY <2>1, <2>4 DEF Fresh
    <3>2. ASSUME NEW r \in ActiveRuns
          PROVE  \E i \in 1 .. Len(sched'.list) : sched'.list[i].id = r
      <4>1. PICK i \in 1 .. Len(sched.list) : sched.list[i].id = r /\ i # 1
        BY <2>4, <3>1 DEF Fresh
      <4>2. i - 1 \in 1 .. Len(sched'.list)
        BY <1>0, <2>2, <4>1
      <4>3. sched'.list[i - 1] = sched.list[i]
        BY <1>0, <2>2, <4>1, <4>2
      <4> QED
        BY <4>1, <4>2, <4>3
    <3>3. \A i \in 1 .. Len(sched'.list) :
             sched'.list[i].pid = runs[sched'.list[i].id].pid
      BY <2>2, <2>4, <3>1 DEF Fresh
    <3> QED
      BY <1>1, <1>3, <2>1, <2>4, <3>2, <3>3 DEF Fresh
  <2> QED
    BY <1>a, <2>1, <2>3, <2>4 DEF SlateInv
<1>7. CASE UnlockToKill
  <2>1. /\ sched.pc = "burying" /\ sched'.pc = "killing" /\ sched'.list = sched.list
        /\ Found.task \notin Inflight
    BY <1>0, <1>7 DEF UnlockToKill, Step, Sched
  <2>2. ListOK' /\ (Found.task \notin Inflight)'
    BY <1>1, <1>3, <2>1 DEF SlateInv, ListOK, Found
  <2>3. Fresh => Fresh'
    BY <1>1, <1>3, <2>1 DEF Fresh
  <2> QED
    BY <1>1, <1>2, <1>3, <2>2, <2>3, RestSlate DEF SlateInv
<1>8. CASE UnlockReconciled
  <2>1. /\ sched.pc = "burying" /\ sched.list = <<>>
        /\ sched'.pc = "fetch" /\ sched'.list = sched.list
    BY <1>0, <1>8 DEF UnlockReconciled, Step, Sched
  <2>2. ListOK'
    BY <1>1, <2>1 DEF SlateInv, ListOK
  <2>3. Clean
    <3>1. 1 .. Len(sched.list) = {}
      BY <2>1
    <3> QED
      BY <2>1, <3>1 DEF SlateInv, Clean, Fresh
  <2> QED
    BY <1>a, <2>1, <2>2, <2>3
<1>9. CASE FetchResumable \/ FetchQueued \/ Decide \/ Suspend \/ Fail \/ EndTick
  <2>1. /\ sched.pc \in {"fetch", "fetchqueued", "decide", "act"}
        /\ sched'.pc # "killing"
        /\ sched'.list = sched.list \/ sched'.list = <<>>
    <3>1. CASE FetchResumable \/ FetchQueued
      BY <1>0, <3>1 DEF FetchResumable, FetchQueued, Sched
    <3>2. CASE Decide
      BY <1>0, <3>2 DEF Decide, Sched
    <3>3. CASE Suspend \/ Fail
      BY <1>0, <3>3 DEF Suspend, Fail, Sched
    <3>4. CASE EndTick
      BY <1>0, <3>4 DEF EndTick, Sched, Resting
    <3> QED
      BY <1>9, <3>1, <3>2, <3>3, <3>4
  <2>2. ListOK'
    <3>1. CASE sched'.list = sched.list
      BY <1>1, <3>1 DEF SlateInv, ListOK
    <3>2. CASE sched'.list = <<>>
      <4>1. 1 .. Len(sched'.list) = {}
        BY <3>2
      <4> QED
        BY <4>1 DEF ListOK
    <3> QED
      BY <2>1, <3>1, <3>2
  <2>3. Clean
    BY <2>1 DEF SlateInv, Fresh
  <2> QED
    BY <1>a, <2>1, <2>2, <2>3
<1> QED
  BY <1>4, <1>5, <1>6, <1>7, <1>8, <1>9

\* A launch comes after the reconcile, and its worker has no row yet.
LEMMA LaunchSlate ==
    ASSUME RunnerInv, RunnerInv', SchedulerTypeOK, SchedOK, RowsOK, SlateInv,
           op' = op, LaunchPlanned
    PROVE  SlateInv'
<1>0. /\ worker \in [Tasks -> Worker] /\ UNCHANGED <<runs, alive>>
      /\ sched \in Sched /\ sched.pc = "act"
  BY DEF RunnerInv, RunnerTypeOK, LaunchPlanned, storeVars, SchedulerTypeOK
<1>1. PICK i \in sched.launch :
        /\ Launch(RowFor(sched.cands[i].task), FALSE)
        /\ sched' = [sched EXCEPT !.launch = @ \ {i}]
  BY DEF LaunchPlanned
<1> DEFINE c == RowFor(sched.cands[i].task)
           w == NewWorker(c, FALSE)
<1>2. sched'.pc = "act" /\ sched'.list = sched.list
  BY <1>0, <1>1 DEF Sched
<1>3. w.pc = "start" /\ w.run = 0
  BY DEF NewWorker, NoWorker
<1>4. \/ worker' = worker
      \/ c.task \notin Inflight /\ worker' = [worker EXCEPT ![c.task] = w]
  BY <1>1 DEF Launch
<1> HIDE DEF c, w
<1>5. \A t \in Tasks :
         /\ worker'[t].run = worker[t].run
         /\ worker'[t].pc = worker[t].pc \/ worker'[t].pc = "start"
  <2> SUFFICES ASSUME NEW t \in Tasks
               PROVE  /\ worker'[t].run = worker[t].run
                      /\ worker'[t].pc = worker[t].pc \/ worker'[t].pc = "start"
    OBVIOUS
  <2>1. CASE worker' = worker \/ t # c.task
    BY <1>0, <1>4, <2>1
  <2>2. CASE /\ t = c.task /\ c.task \notin Inflight
             /\ worker' = [worker EXCEPT ![c.task] = w]
    <3>1. worker[t].run = 0 /\ worker'[t] = w
      BY <1>0, <2>2 DEF Inflight, At, RowsOK, Early
    <3> QED
      BY <1>3, <3>1
  <2> QED
    BY <1>4, <2>1, <2>2
<1>6. ActiveRuns' = ActiveRuns
  BY <1>0 DEF ActiveRuns
<1>7. Clean'
  BY <1>0, <1>5, <1>6 DEF SlateInv, Fresh, Clean, Owned, RunOf
<1>8. \A t \in Tasks : ClosedAt(t)' /\ OpenAt(t)'
  BY <1>5, <1>6 DEF SlateInv, ClosedAt, OpenAt, Closed, Open
<1>9. HandsOff' /\ ListOK'
  BY <1>0, <1>2 DEF SlateInv, HandsOff, ListOK
<1> QED
  BY <1>0, <1>2, <1>6, <1>7, <1>8, <1>9 DEF SlateInv

\* Users who ask neither for a run nor for a run's end touch no run and no
\* worker, and their handlers never come to do so.
LEMMA HandlersSlate ==
    ASSUME RunnerInv, RunnerInv', ServicesInv, SlateInv,
           "run_now" \notin Requests, "cancel" \notin Requests, NEW c \in Clients,
           \/ UserBegins(c) \/ (\E q \in 1 .. Len(requests) : SettleChecks(c, q))
           \/ HandlerStep(c) \/ ReplyStep(c)
    PROVE  SlateInv'
<1>1. HandsOff'
  <2>1. PICK o : PlaceReached(c, o)
    BY PlacesReached
  <2>2. o.at \notin {"launch", "signal", "abandon"}
    BY <2>1 DEF PlaceReached, Harmless, SlateInv, HandsOff
  <2>3. \A d \in Clients : op'[d] \in {op[d], o}
    BY <2>1 DEF PlaceReached, ServicesInv
  <2> QED
    BY <2>2, <2>3 DEF SlateInv, HandsOff
<1>2. op[c].at \notin {"launch", "signal", "abandon"}
  BY DEF SlateInv, HandsOff
<1>3. UNCHANGED <<runs, worker, alive, sched>>
  <2>1. CASE UserBegins(c)
    BY <2>1 DEF UserBegins, CreateTask, EditTask, DeleteChecks, PauseChecks,
       ResumeChecks, SetChecks, CommentChecks, RunNowChecks, CancelChecks, Begins,
       Elsewhere, storeVars, schedulerVars
  <2>2. CASE \E q \in 1 .. Len(requests) : SettleChecks(c, q)
    BY <2>2 DEF SettleChecks, Begins, Elsewhere, storeVars, schedulerVars
  <2>3. CASE HandlerStep(c)
    <3>1. ~RunNowLaunches(c) /\ ~CancelSignals(c) /\ ~CancelAbandons(c)
      BY <1>2 DEF RunNowLaunches, CancelSignals, CancelAbandons, OpAt
    <3> QED
      BY <2>3, <3>1 DEF HandlerStep, DeletesRow, RetiresRequests, WritesStatus,
         ForgetsAttempts, InsertsComment, Elsewhere, storeVars, schedulerVars
  <2>4. CASE ReplyStep(c)
    BY <2>4 DEF ReplyStep, Decides, Replies, Answers, Delivers, Wakes, Elsewhere,
       storeVars, schedulerVars
  <2> QED
    BY <2>1, <2>2, <2>3, <2>4
<1> QED
  BY <1>1, <1>3, StillSlate

LEMMA SlateInvInit ==
    ASSUME Init
    PROVE  SlateInv
<1>1. /\ runs = <<>> /\ alive = {} /\ worker = [t \in Tasks |-> NoWorker]
      /\ NoWorker.run = 0 /\ NoWorker.pc = "idle" /\ NoOp.at = "idle"
      /\ sched = Resting /\ Resting.pc = "idle" /\ Resting.list = <<>>
      /\ op = [c \in Clients |-> NoOp]
  BY DEF Init, StoreInit, RunnerInit, SchedulerInit, ServicesInit, NoWorker, NoOp,
     Resting
<1>2. ActiveRuns = {} /\ Inflight = {} /\ 1 .. Len(sched.list) = {}
  BY <1>1 DEF ActiveRuns, Inflight, At
<1> QED
  BY <1>1, <1>2 DEF SlateInv, HandsOff, ListOK, ClosedAt, OpenAt, Closed, Open, Fresh

LEMMA SlateInvNext ==
    ASSUME "run_now" \notin Requests, "cancel" \notin Requests,
           TypeInv, TypeInv', LeaseInv, LeaseInv', SlateInv, [Next]_vars
    PROVE  SlateInv'
<1>0. /\ RunnerInv /\ RunnerInv' /\ SchedulerTypeOK /\ SchedOK /\ ServicesInv
      /\ RowsOK /\ RowsOK' /\ RowsStay
  BY TypeInvHas, TasksStay DEF LeaseInv, RunnerInv, TypeInv, TypeOK
\* A step that leaves runs, workers, loop and handlers alone.
<1>a. ASSUME UNCHANGED <<runs, worker, sched, op>>, alive' \subseteq alive
      PROVE  SlateInv'
  <2>1. HandsOff'
    BY <1>a DEF SlateInv, HandsOff
  <2> QED
    BY <1>0, <1>a, <2>1, StillSlate
<1>1. ASSUME NEW t \in Tasks, Works(t) \/ NamesSession(t)
      PROVE  SlateInv'
  <2>1. (RunnerStep(t) \/ SessionInit(t)) /\ UNCHANGED <<sched, op>>
    BY <1>1 DEF Works, NamesSession, WorkerStep, schedulerVars
  <2> QED
    BY <1>0, <2>1, RunnerEffect, WorkerSlate
<1>2. ASSUME NEW t \in Tasks, Releases(t)
      PROVE  SlateInv'
  BY <1>0, <1>2, ReleaseSlate DEF Releases
<1>3. ASSUME NEW r \in 1 .. MaxRuns, Asks(r) \/ Awaits(r)
      PROVE  SlateInv'
  <2>1. UNCHANGED <<runs, worker, alive, sched, op>>
    BY <1>3 DEF Asks, Awaits, Ask, AskAgain, CallStep, AwaitFinds, AwaitGoesLive,
       AwaitEnds, AwaitReturns, runnerVars, storeVars, schedulerVars
  <2> QED
    BY <1>a, <2>1
<1>4. ASSUME NEW r \in 1 .. MaxRuns, OrphanExits(r)
      PROVE  SlateInv'
  BY <1>4, <1>a DEF OrphanExits, storeVars, schedulerVars
<1>5. ASSUME NEW c \in Clients, Demands(c) \/ Handles(c)
      PROVE  SlateInv'
  BY <1>0, <1>5, HandlersSlate DEF Demands, Handles
<1>6. CASE Ticks
  BY <1>0, <1>6, LoopSlate, BurySlate, LaunchSlate DEF Ticks, TickStep
<1>7. CASE Stops \/ Signalled
  <2>1. /\ UNCHANGED <<runs, alive, op>> /\ \E S : CancelEvery(S, "shutdown")
        /\ sched' = sched \/ (sched.pc = "idle" /\ Step("waiting"))
    BY <1>7 DEF Stops, Signalled, CancelAll, Terminate, storeVars
  <2>2. \A t \in Tasks : worker'[t].pc = worker[t].pc /\ worker'[t].run = worker[t].run
    BY <1>0, <2>1, CancelledStays DEF CancelEvery, RunnerInv, RunnerTypeOK
  <2>3. HandsOff'
    BY <2>1 DEF SlateInv, HandsOff
  <2>4. CASE sched' = sched
    BY <1>0, <2>1, <2>2, <2>3, <2>4, StillSlate
  <2>5. CASE sched.pc = "idle" /\ Step("waiting")
    <3>1. sched'.pc = "waiting" /\ sched'.list = sched.list
      BY <1>0, <2>5 DEF Step, SchedulerTypeOK, Sched
    <3>2. ListOK' /\ (Fresh => Fresh')
      BY <2>1, <2>2, <3>1 DEF SlateInv, ListOK, Fresh, Inflight, At
    <3> QED
      BY <2>1, <2>2, <2>3, <3>1, <3>2, RestSlate DEF SlateInv
  <2> QED
    BY <2>1, <2>4, <2>5
<1>8. CASE Crash \/ Exit
  <2>1. /\ UNCHANGED <<runs, alive>> /\ worker' = [t \in Tasks |-> NoWorker]
        /\ sched' = Resting /\ op' = [c \in Clients |-> NoOp]
        /\ NoWorker.run = 0 /\ NoWorker.pc = "idle" /\ NoOp.at = "idle"
        /\ Resting.pc = "idle" /\ Resting.list = <<>>
    BY <1>8 DEF Crash, Exit, Forgotten, storeVars, NoWorker, NoOp, Resting
  <2>2. Inflight' = {} /\ ActiveRuns' = ActiveRuns /\ 1 .. Len(sched'.list) = {}
    BY <2>1 DEF Inflight, At, ActiveRuns
  <2>3. HandsOff' /\ ListOK' /\ Fresh'
    BY <2>1, <2>2 DEF HandsOff, ListOK, Fresh
  <2>4. \A t \in Tasks : ClosedAt(t)' /\ OpenAt(t)'
    BY <2>1 DEF ClosedAt, OpenAt, Closed, Open
  <2> QED
    BY <2>1, <2>2, <2>3, <2>4 DEF SlateInv
<1>9. CASE Restart
  BY <1>9, <1>a DEF Restart, runnerVars
<1>10. CASE UNCHANGED vars
  BY <1>10, <1>a DEF vars, storeVars, runnerVars, schedulerVars
<1>11. CASE Stopped
  <2>1. UNCHANGED <<runs, worker, alive, op>>
    BY <1>11 DEF Stopped, LoopEnds, storeVars, runnerVars
  <2>2. sched.pc = "waiting" /\ sched'.pc = "stopped" /\ sched'.list = sched.list
    BY <1>0, <1>11 DEF Stopped, LoopEnds, Drained, Step, SchedulerTypeOK, Sched
  <2>3. HandsOff' /\ ListOK' /\ (Fresh => Fresh')
    BY <2>1, <2>2 DEF SlateInv, HandsOff, ListOK, Fresh, Inflight, At
  <2> QED
    BY <2>1, <2>2, <2>3, RestSlate DEF SlateInv
<1> QED
  BY <1>1, <1>2, <1>3, <1>4, <1>5, <1>6, <1>7, <1>8, <1>9, <1>10, <1>11 DEF Next

\* What is owned, or recorded and active, is in flight.
LEMMA OwnedIsInFlight ==
    ASSUME RowsOK, Clean, \A r \in alive : runs[r].pid => r \in ActiveRuns
    PROVE  PlansOnCleanSlate
<1> SUFFICES ASSUME NEW r \in ActiveRuns
             PROVE  runs[r].task \in Inflight
  BY DEF PlansOnCleanSlate
<1>1. PICK t \in Tasks : worker[t].run = r /\ r # 0
  BY DEF Clean, Owned, RunOf, ActiveRuns
<1>2. runs[r].task = t /\ worker[t].pc # "idle"
  BY <1>1 DEF RowsOK, Early
<1> QED
  BY <1>2 DEF Inflight, At

LEMMA SlateInvHolds ==
    ASSUME "run_now" \notin Requests, "cancel" \notin Requests
    PROVE  Spec => [](TypeInv /\ LeaseInv /\ SlateInv)
<1>1. Init => TypeInv /\ LeaseInv /\ SlateInv
  BY TypeInvInit, LeaseInvInit, SlateInvInit
<1>2. TypeInv /\ [Next]_vars => TypeInv'
  BY TypeInvNext
<1>3. TypeInv /\ TypeInv' /\ LeaseInv /\ [Next]_vars => LeaseInv'
  BY LeaseInvNext
<1>4. TypeInv /\ TypeInv' /\ LeaseInv /\ LeaseInv' /\ SlateInv /\ [Next]_vars
        => SlateInv'
  BY SlateInvNext
<1> QED
  BY <1>1, <1>2, <1>3, <1>4, PTL DEF Spec

\* Whatever crashed before, a tick plans after its reconcile has closed every
\* run the dead daemon left active and killed every claude it had recorded:
\* what is active or recorded and alive then belongs to a worker of this
\* daemon.  Only where a daemon may leave runs behind, and users may launch or
\* cancel by hand before the next one's first reconcile, is this not so.
THEOREM PlansOnCleanSlateHolds ==
    ASSUME \/ "crash" \notin Signals /\ NoLateLaunch
           \/ Requests \cap {"run_now", "cancel"} = {}
    PROVE  Spec => []PlansOnCleanSlate
<1>1. CASE "crash" \notin Signals /\ NoLateLaunch
  <2>1. TypeInv /\ LeaseInv /\ HeldOrGone => PlansOnCleanSlate
    <3> SUFFICES ASSUME TypeInv, LeaseInv, HeldOrGone,
                        sched.pc \in {"fetch", "fetchqueued", "decide", "act"}
                 PROVE  PlansOnCleanSlate
      BY DEF PlansOnCleanSlate
    <3>1. HeldInv
      BY DEF HeldOrGone, LastIsGone, LeaseInv, DownIdle
    <3>2. ASSUME NEW r \in alive \cup ActiveRuns
          PROVE  runs[r].task \in Inflight
      <4>1. PICK t \in Tasks : worker[t].run = r /\ r # 0
        BY <3>1 DEF HeldInv, Owned, RunOf, TypeInv, TypeOK, RunnerTypeOK, ActiveRuns
      <4> QED
        BY <4>1 DEF LeaseInv, RowsOK, Early, Inflight, At
    <3> QED
      BY <3>2 DEF PlansOnCleanSlate
  <2> QED
    BY <1>1, <2>1, HeldHolds, PTL
<1>2. CASE Requests \cap {"run_now", "cancel"} = {}
  <2>1. "run_now" \notin Requests /\ "cancel" \notin Requests
    BY <1>2
  <2>2. TypeInv /\ LeaseInv /\ SlateInv => PlansOnCleanSlate
    <3> SUFFICES ASSUME LeaseInv, SlateInv,
                        sched.pc \in {"fetch", "fetchqueued", "decide", "act"}
                 PROVE  PlansOnCleanSlate
      BY DEF PlansOnCleanSlate
    <3>1. Clean /\ \A r \in alive : runs[r].pid => r \in ActiveRuns
      BY DEF SlateInv, Fresh
    <3> QED
      BY <3>1, OwnedIsInFlight DEF LeaseInv
  <2> QED
    BY <2>1, <2>2, SlateInvHolds, PTL
<1> QED
  BY <1>1, <1>2
=============================================================================
