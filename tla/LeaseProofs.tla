---------------------------- MODULE LeaseProofs ----------------------------
(***************************************************************************)
(* The daemon implements Leases.  Every step of every component is a step  *)
(* of the lease specification or a stutter of it; what makes that so is    *)
(* that a worker has no row before it wrote one, that the row is its own   *)
(* task's, and that its claude lives only while the worker stands between  *)
(* starting it and seeing it end.                                          *)
(***************************************************************************)
EXTENDS DaemonProofs

Early == {"idle", "start", "workspace", "preflight"}
Busy == {"spawned", "working"}

RowsOK ==
    \A t \in Tasks :
        /\ worker[t].pc \in Early => worker[t].run = 0
        /\ worker[t].run # 0 => /\ worker[t].run \in 1 .. Len(runs)
                                /\ runs[worker[t].run].task = t
        /\ worker[t].run \in alive => worker[t].pc \in Busy

\* A daemon that is down plans nothing and holds no task.
DownIdle ==
    mode = "down" => sched.pc = "idle" /\ \A t \in Tasks : worker[t].pc = "idle"

LeaseInv == RowsOK /\ DownIdle

\* The refinement mapping, by name.
Rows == [t \in Tasks |-> RunOf(t)]
Log == [i \in 1 .. Len(runs) |-> runs[i].task]

\* What a step leaves behind that takes, uses and gives back no lease.
Quiet == Inflight' = Inflight /\ Rows' = Rows /\ Log' = Log /\ alive' \subseteq alive

\* The rows stay the rows of their tasks.
SameRuns ==
    /\ Len(runs') = Len(runs)
    /\ \A i \in 1 .. Len(runs) : runs'[i].task = runs[i].task

LEMMA QuietStep ==
    ASSUME Quiet, (mode = "down") <=> (mode' = "down")
    PROVE  L!LeaseNext
<1>1. L!AgentsEnd
  BY DEF Quiet, L!AgentsEnd, Rows, Log
<1> QED
  BY <1>1 DEF L!LeaseNext

\* One column of one row is assigned, and it is not the task.
LEMMA FieldKeepsRuns ==
    ASSUME runs \in Seq(RunRow), NEW r, NEW row, runs' = [runs EXCEPT ![r] = row],
           r \in 1 .. Len(runs) => row.task = runs[r].task
    PROVE  SameRuns
<1>1. Len(runs) \in Nat /\ DOMAIN runs = 1 .. Len(runs) /\ DOMAIN runs' = 1 .. Len(runs)
  OBVIOUS
<1>2. runs \in [1 .. Len(runs) -> RunRow]
  OBVIOUS
<1>3. \A i \in 1 .. Len(runs) : runs'[i].task = runs[i].task
  BY <1>1, <1>2
<1>4. Len(runs') = Len(runs)
  BY <1>1
<1> QED
  BY <1>3, <1>4 DEF SameRuns

LEMMA SameRunsSameLog ==
    ASSUME SameRuns
    PROVE  Log' = Log
BY DEF SameRuns, Log

\* Workers move on without taking a row, losing theirs or starting a claude.
LEMMA WorkersMove ==
    ASSUME RunnerInv, RowsOK, SameRuns, alive' \subseteq alive,
           worker' \in [Tasks -> Worker],
           \A t \in Tasks :
              /\ worker'[t].run = worker[t].run
              /\ worker'[t].pc = "idle" <=> worker[t].pc = "idle"
              /\ worker'[t].pc \in Early => worker[t].pc \in Early
              /\ \/ worker'[t].pc \in Busy \/ worker[t].pc \notin Busy
                 \/ worker[t].run \notin alive'
    PROVE  RowsOK' /\ Quiet
<1>1. Inflight' = Inflight /\ Rows' = Rows
  BY DEF Inflight, At, Rows, RunOf
<1>2. Log' = Log
  BY SameRunsSameLog
<1>3. RowsOK'
  BY DEF RowsOK, SameRuns
<1> QED
  BY <1>1, <1>2, <1>3 DEF Quiet

LEMMA OneMoves ==
    ASSUME RunnerInv, RowsOK, SameRuns, alive' \subseteq alive,
           worker' \in [Tasks -> Worker],
           NEW t \in Tasks,
           \A u \in Tasks \ {t} : worker'[u] = worker[u],
           worker'[t].run = worker[t].run,
           worker[t].pc # "idle", worker'[t].pc # "idle",
           worker'[t].pc \in Early => worker[t].pc \in Early,
           \/ worker'[t].pc \in Busy \/ worker[t].pc \notin Busy
           \/ worker[t].run \notin alive'
    PROVE  RowsOK' /\ Quiet
<1>1. ASSUME NEW u \in Tasks
      PROVE  /\ worker'[u].run = worker[u].run
             /\ worker'[u].pc = "idle" <=> worker[u].pc = "idle"
             /\ worker'[u].pc \in Early => worker[u].pc \in Early
             /\ \/ worker'[u].pc \in Busy \/ worker[u].pc \notin Busy
                \/ worker[u].run \notin alive'
  <2>1. CASE u = t
    BY <2>1
  <2>2. CASE u # t
    BY <2>2
  <2> QED
    BY <2>1, <2>2
<1> QED
  BY <1>1, WorkersMove

-----------------------------------------------------------------------------
(* The runner.                                                             *)

\* Steps of a worker that leave the runs alone.
LEMMA StatusSteps ==
    ASSUME RunnerInv, RunnerInv', RowsOK, NEW t \in Tasks,
           \/ ReadComments(t) \/ WorkspaceFails(t) \/ NoTaskToRun(t)
           \/ PreflightSettle(t) \/ MarkRunning(t) \/ TokenSettle(t)
           \/ SpawnFails(t) \/ ClaudeExits(t) \/ Consume(t) \/ Settle(t)
           \/ ResetAfterAnswer(t)
    PROVE  RowsOK' /\ Quiet
<1>0. /\ worker \in [Tasks -> Worker] /\ worker' \in [Tasks -> Worker]
      /\ worker[t] \in Worker
  BY DEF RunnerInv, RunnerTypeOK
<1>1. /\ runs' = runs /\ alive' \subseteq alive
      /\ worker[t].run \in alive' => alive' = alive
  BY DEF ReadComments, WorkspaceFails, NoTaskToRun, PreflightSettle, MarkRunning,
     TokenSettle, SpawnFails, ClaudeExits, Consume, Settle, ResetAfterAnswer,
     storeVars, RunOf
<1>2. SameRuns
  BY <1>1 DEF SameRuns
<1>3. \A u \in Tasks \ {t} : worker'[u] = worker[u]
  BY <1>0 DEF ReadComments, WorkspaceFails, NoTaskToRun, PreflightSettle, MarkRunning,
     TokenSettle, SpawnFails, ClaudeExits, Consume, Settle, ResetAfterAnswer, Goto
<1>4. worker'[t].run = worker[t].run
  BY <1>0 DEF ReadComments, WorkspaceFails, NoTaskToRun, PreflightSettle, MarkRunning,
     TokenSettle, SpawnFails, ClaudeExits, Consume, Settle, ResetAfterAnswer, Goto,
     Worker
<1>5. \/ worker[t].pc \in {"start", "workspace"}
         /\ worker'[t].pc \in {"workspace", "preflight", "done"}
      \/ worker[t].pc \notin Early \cup Busy /\ worker'[t].pc \notin Early
      \/ worker[t].pc = "preflight" /\ worker'[t].pc = "done"
      \/ worker[t].pc = "working" /\ worker'[t].pc = "exited"
         /\ worker[t].run \notin alive'
  BY <1>0 DEF ReadComments, WorkspaceFails, NoTaskToRun, PreflightSettle, MarkRunning,
     TokenSettle, SpawnFails, ClaudeExits, Consume, Settle, ResetAfterAnswer, Goto,
     At, RunOf, Worker, Early, Busy
<1> QED
  BY <1>0, <1>1, <1>2, <1>3, <1>4, <1>5, OneMoves DEF Early, Busy

\* Steps of a worker that write to the row of its run.
LEMMA RowSteps ==
    ASSUME RunnerInv, RunnerInv', RowsOK, NEW t \in Tasks,
           \/ PreflightFinish(t) \/ CarrySession(t) \/ TokenFails(t) \/ Begin(t)
           \/ RecordPid(t) \/ AutoContinue(t) \/ SessionMissing(t)
           \/ Classify(t) \/ Finish(t)
    PROVE  RowsOK' /\ Quiet
<1>0. /\ worker \in [Tasks -> Worker] /\ worker' \in [Tasks -> Worker]
      /\ worker[t] \in Worker /\ runs \in Seq(RunRow)
  BY DEF RunnerInv, RunnerTypeOK, StoreTypeOK
<1> DEFINE r == worker[t].run
<1>1. PICK row : runs' = [runs EXCEPT ![r] = row]
                 /\ (r \in 1 .. Len(runs) => row.task = runs[r].task)
  <2>1. r \in 1 .. Len(runs) => runs[r] \in RunRow
    BY <1>0
  <2> DEFINE old == runs[r]
  <2>2. \/ runs' = [runs EXCEPT ![r] = [old EXCEPT !.session = TRUE, !.status = "resuming"]]
        \/ runs' = [runs EXCEPT ![r] = [old EXCEPT !.status = "errored"]]
        \/ runs' = [runs EXCEPT ![r] = [old EXCEPT !.status = "running"]]
        \/ runs' = [runs EXCEPT ![r] = [old EXCEPT !.pid = TRUE]]
        \/ runs' = [runs EXCEPT ![r] = [old EXCEPT !.pid = FALSE]]
        \/ runs' = [runs EXCEPT ![r] = [old EXCEPT !.status = "resuming", !.pid = FALSE]]
        \/ runs' = [runs EXCEPT ![r] = [old EXCEPT !.session = FALSE, !.status = "running",
                                                 !.pid = FALSE]]
        \/ runs' = [runs EXCEPT ![r] = [old EXCEPT !.status = RunStatusFor[worker[t].exit]]]
    BY DEF PreflightFinish, CarrySession, TokenFails, Begin, RecordPid, AutoContinue,
       SessionMissing, Classify, Finish, FinishRun, RunOf
  <2>3. \E row : /\ runs' = [runs EXCEPT ![r] = row]
                 /\ \/ row = [old EXCEPT !.session = TRUE, !.status = "resuming"]
                    \/ row = [old EXCEPT !.status = "errored"]
                    \/ row = [old EXCEPT !.status = "running"]
                    \/ row = [old EXCEPT !.pid = TRUE]
                    \/ row = [old EXCEPT !.pid = FALSE]
                    \/ row = [old EXCEPT !.status = "resuming", !.pid = FALSE]
                    \/ row = [old EXCEPT !.session = FALSE, !.status = "running",
                                         !.pid = FALSE]
                    \/ row = [old EXCEPT !.status = RunStatusFor[worker[t].exit]]
    BY <2>2, Zenon
  <2> QED
    BY <2>1, <2>3 DEF RunRow
<1>2. SameRuns
  BY <1>0, <1>1, FieldKeepsRuns
<1>3. alive' \subseteq alive
  BY DEF PreflightFinish, CarrySession, TokenFails, Begin, RecordPid, AutoContinue,
     SessionMissing, Classify, Finish
<1>4. \A u \in Tasks \ {t} : worker'[u] = worker[u]
  BY <1>0 DEF PreflightFinish, CarrySession, TokenFails, Begin, RecordPid,
     AutoContinue, SessionMissing, Classify, Finish, Goto
<1>5. worker'[t].run = worker[t].run
  BY <1>0 DEF PreflightFinish, CarrySession, TokenFails, Begin, RecordPid,
     AutoContinue, SessionMissing, Classify, Finish, Goto, Worker
<1>6. \/ worker[t].pc \notin Early \cup Busy /\ worker'[t].pc \notin Early
      \/ worker[t].pc = "spawned" /\ worker'[t].pc = "working"
      \/ worker[t].pc = "working" /\ worker'[t].pc = "invoke"
         /\ worker[t].run \notin alive'
  BY <1>0 DEF PreflightFinish, CarrySession, TokenFails, Begin, RecordPid,
     AutoContinue, SessionMissing, Classify, Finish, Goto, At, RunOf, Worker,
     Early, Busy
<1> QED
  BY <1>0, <1>2, <1>3, <1>4, <1>5, <1>6, OneMoves DEF Early, Busy

\* A worker inserts the row of its run.
LEMMA RowWritten ==
    ASSUME RunnerInv, RunnerInv', RowsOK, NEW t \in Tasks,
           worker[t].pc \in {"workspace", "preflight"},
           \E n : CreateRun(t, n),
           \A u \in Tasks \ {t} : worker'[u] = worker[u],
           worker'[t].run = Len(runs) + 1, worker'[t].pc \notin Early,
           alive' = alive, mode' = mode
    PROVE  RowsOK' /\ L!LeaseNext
<1>0. /\ worker \in [Tasks -> Worker] /\ worker' \in [Tasks -> Worker]
      /\ runs \in Seq(RunRow) /\ Len(runs) \in Nat /\ alive \subseteq 1 .. Len(runs)
  BY DEF RunnerInv, RunnerTypeOK, StoreTypeOK
<1>1. PICK row : runs' = Append(runs, row) /\ row.task = t
  BY DEF CreateRun
<1>2. /\ Len(runs') = Len(runs) + 1
      /\ \A i \in 1 .. Len(runs) : runs'[i] = runs[i]
      /\ runs'[Len(runs) + 1].task = t
  BY <1>0, <1>1
<1>3. RowsOK'
  <2>1. ASSUME NEW u \in Tasks
        PROVE  /\ worker'[u].pc \in Early => worker'[u].run = 0
               /\ worker'[u].run # 0 => /\ worker'[u].run \in 1 .. Len(runs')
                                        /\ runs'[worker'[u].run].task = u
               /\ worker'[u].run \in alive' => worker'[u].pc \in Busy
    <3>1. CASE u = t
      BY <1>0, <1>2, <3>1
    <3>2. CASE u # t
      BY <1>0, <1>2, <3>2 DEF RowsOK
    <3> QED
      BY <3>1, <3>2
  <2> QED
    BY <2>1 DEF RowsOK
<1>4. worker[t].run = 0
  BY DEF RowsOK, Early
<1>5. Inflight' = Inflight /\ t \in Inflight
  BY DEF Inflight, At, Early
<1>6. Rows' = [Rows EXCEPT ![t] = Len(Log) + 1]
  <2>1. Len(Log) = Len(runs)
    BY <1>0 DEF Log
  <2> QED
    BY <1>0, <2>1 DEF Rows, RunOf
<1>7. Log' = Append(Log, t)
  <2>1. Len(Log) = Len(runs) /\ DOMAIN Log = 1 .. Len(runs)
    BY <1>0 DEF Log
  <2>2. Append(Log, t) = [i \in 1 .. Len(runs) + 1 |->
                             IF i = Len(runs) + 1 THEN t ELSE Log[i]]
    BY <1>0, <2>1 DEF Log
  <2>3. Log' = [i \in 1 .. Len(runs) + 1 |-> runs'[i].task]
    BY <1>2 DEF Log
  <2>4. \A i \in 1 .. Len(runs) + 1 :
           runs'[i].task = IF i = Len(runs) + 1 THEN t ELSE Log[i]
    BY <1>0, <1>2 DEF Log
  <2> QED
    BY <2>2, <2>3, <2>4
<1>8. L!Write(t)
  BY <1>4, <1>5, <1>6, <1>7 DEF L!Write, Rows, Log, RunOf
<1> QED
  BY <1>3, <1>8 DEF L!LeaseNext

\* A worker starts claude for its row.
LEMMA ClaudeStarted ==
    ASSUME RunnerInv, RunnerInv', WorkerOK, RowsOK, NEW t \in Tasks, Spawn(t),
           mode' = mode
    PROVE  RowsOK' /\ L!LeaseNext
<1>0. /\ worker \in [Tasks -> Worker] /\ worker[t] \in Worker
      /\ runs' = runs /\ alive' = alive \cup {worker[t].run}
      /\ worker[t].pc = "invoke" /\ worker' = [worker EXCEPT ![t].pc = "spawned"]
  BY DEF RunnerInv, RunnerTypeOK, Spawn, At, Goto, RunOf, storeVars
<1>1. /\ worker'[t].run = worker[t].run /\ worker'[t].pc = "spawned"
      /\ \A u \in Tasks \ {t} : worker'[u] = worker[u]
  BY <1>0 DEF Worker
<1>2. worker[t].run \in 1 .. Len(runs) /\ worker[t].run # 0
  BY <1>0 DEF WorkerOK, Rowless
<1>3. runs[worker[t].run].task = t /\ worker[t].run \notin alive
  BY <1>0, <1>2 DEF RowsOK, Busy
<1>4. RowsOK'
  <2>1. ASSUME NEW u \in Tasks
        PROVE  /\ worker'[u].pc \in Early => worker'[u].run = 0
               /\ worker'[u].run # 0 => /\ worker'[u].run \in 1 .. Len(runs')
                                        /\ runs'[worker'[u].run].task = u
               /\ worker'[u].run \in alive' => worker'[u].pc \in Busy
    <3>1. CASE u = t
      BY <1>0, <1>1, <1>2, <1>3, <3>1 DEF Early, Busy
    <3>2. CASE u # t
      <4>1. worker[u].run # worker[t].run
        BY <1>2, <1>3, <3>2 DEF RowsOK
      <4> QED
        BY <1>0, <1>1, <3>2, <4>1 DEF RowsOK
    <3> QED
      BY <3>1, <3>2
  <2> QED
    BY <2>1 DEF RowsOK
<1>5. Inflight' = Inflight /\ t \in Inflight /\ Rows' = Rows /\ Log' = Log
  BY <1>0, <1>1 DEF Inflight, At, Rows, RunOf, Log
<1>6. L!Employ(t)
  BY <1>0, <1>2, <1>3, <1>5 DEF L!Employ, Rows, Log, RunOf
<1> QED
  BY <1>4, <1>6 DEF L!LeaseNext

LEMMA RunnerLeases ==
    ASSUME RunnerInv, RunnerInv', RowsOK, NEW t \in Tasks,
           RunnerStep(t) \/ SessionInit(t), mode' = mode
    PROVE  RowsOK' /\ L!LeaseNext
<1>0. /\ worker \in [Tasks -> Worker] /\ worker' \in [Tasks -> Worker]
      /\ worker[t] \in Worker /\ runs \in Seq(RunRow) /\ WorkerOK
  BY DEF RunnerInv, RunnerTypeOK, StoreTypeOK
<1>1. CASE \/ ReadComments(t) \/ WorkspaceFails(t) \/ NoTaskToRun(t)
           \/ PreflightSettle(t) \/ MarkRunning(t) \/ TokenSettle(t)
           \/ SpawnFails(t) \/ ClaudeExits(t) \/ Consume(t) \/ Settle(t)
           \/ ResetAfterAnswer(t)
  BY <1>1, StatusSteps, QuietStep
<1>2. CASE \/ PreflightFinish(t) \/ CarrySession(t) \/ TokenFails(t) \/ Begin(t)
           \/ RecordPid(t) \/ AutoContinue(t) \/ SessionMissing(t)
           \/ Classify(t) \/ Finish(t)
  BY <1>2, RowSteps, QuietStep
<1>3. CASE StartRun(t)
  <2>1. /\ worker[t].pc = "workspace" /\ alive' = alive
        /\ CreateRun(t, worker[t].attempt)
        /\ worker'[t].run = Len(runs) + 1 /\ worker'[t].pc \in {"carry", "mark"}
        /\ \A u \in Tasks \ {t} : worker'[u] = worker[u]
    BY <1>0, <1>3 DEF StartRun, At, Worker
  <2> QED
    BY <2>1, RowWritten DEF Early
<1>4. CASE PreflightRun(t)
  <2> DEFINE n == EffectiveAttempt(resetAt[t], LatestRunForTask(t)) + 1
  <2>1. /\ worker[t].pc = "preflight" /\ alive' = alive /\ CreateRun(t, n)
        /\ worker' = [worker EXCEPT ![t].pc = "prefinish", ![t].run = Len(runs) + 1,
                                    ![t].attempt = n]
    BY <1>4 DEF PreflightRun, At
  <2> HIDE DEF n
  <2>2. /\ worker'[t].run = Len(runs) + 1 /\ worker'[t].pc = "prefinish"
        /\ \A u \in Tasks \ {t} : worker'[u] = worker[u]
    BY <1>0, <2>1 DEF Worker
  <2> QED
    BY <2>1, <2>2, RowWritten DEF Early
<1>5. CASE Spawn(t)
  BY <1>0, <1>5, ClaudeStarted
<1>6. CASE SessionInit(t)
  <2> DEFINE row == [runs[worker[t].run] EXCEPT !.session = TRUE]
  <2>1. runs' = [runs EXCEPT ![worker[t].run] = row] /\ UNCHANGED <<worker, alive>>
    BY <1>6 DEF SessionInit, RunOf
  <2>2. worker[t].run \in 1 .. Len(runs) => row.task = runs[worker[t].run].task
    BY <1>0 DEF RunRow
  <2> HIDE DEF row
  <2>3. SameRuns
    BY <1>0, <2>1, <2>2, FieldKeepsRuns
  <2> QED
    BY <1>0, <2>1, <2>3, WorkersMove, QuietStep
<1> QED
  BY <1>1, <1>2, <1>3, <1>4, <1>5, <1>6 DEF RunnerStep

-----------------------------------------------------------------------------
(* The registry.                                                           *)

\* A launch takes the lease of a task that is free, or does nothing.
LEMMA LaunchLeases ==
    ASSUME RunnerInv, RunnerInv', RowsOK, NEW c, NEW manual \in BOOLEAN,
           c.task \in Tasks, Launch(c, manual),
           mode # "down", UNCHANGED <<runs, alive, mode>>
    PROVE  RowsOK' /\ L!LeaseNext
<1>0. /\ worker \in [Tasks -> Worker] /\ alive \subseteq 1 .. Len(runs)
      /\ Len(runs) \in Nat
  BY DEF RunnerInv, RunnerTypeOK, StoreTypeOK
<1> DEFINE t == c.task
           w == NewWorker(c, manual)
<1>1. CASE worker' = worker
  <2>1. RowsOK' /\ Quiet
    BY <1>1 DEF RowsOK, Quiet, Inflight, At, Rows, RunOf, Log
  <2> QED
    BY <2>1, QuietStep
<1>2. CASE t \notin Inflight /\ worker' = [worker EXCEPT ![t] = w]
  <2>1. w.pc = "start" /\ w.run = 0
    BY DEF NewWorker, NoWorker
  <2> HIDE DEF w
  <2>2. worker[t].pc = "idle" /\ worker[t].run = 0
    BY <1>2 DEF Inflight, At, RowsOK, Early
  <2>3. worker'[t] = w /\ \A u \in Tasks \ {t} : worker'[u] = worker[u]
    BY <1>0, <1>2
  <2>4. RowsOK'
    BY <1>0, <2>1, <2>3 DEF RowsOK, Early
  <2>5. Inflight' = Inflight \cup {t} /\ Rows' = Rows /\ Log' = Log
    BY <2>1, <2>2, <2>3 DEF Inflight, At, Rows, RunOf, Log
  <2>6. L!Take(t)
    BY <1>2, <2>5 DEF L!Take, Rows, Log
  <2> QED
    BY <2>4, <2>6 DEF L!LeaseNext
<1> QED
  BY <1>1, <1>2 DEF Launch

\* The goroutine's deferred end gives the lease back.
LEMMA ReleaseLeases ==
    ASSUME RunnerInv, RowsOK, NEW t \in Tasks, Release(t)
    PROVE  RowsOK' /\ L!LeaseNext
<1>0. /\ worker \in [Tasks -> Worker] /\ alive \subseteq 1 .. Len(runs)
      /\ Len(runs) \in Nat
      /\ worker[t].pc = "done" /\ worker' = [worker EXCEPT ![t] = NoWorker]
      /\ UNCHANGED <<runs, alive, mode>>
  BY DEF RunnerInv, RunnerTypeOK, StoreTypeOK, Release, At, storeVars, schedulerVars
<1>1. /\ worker'[t].pc = "idle" /\ worker'[t].run = 0
      /\ \A u \in Tasks \ {t} : worker'[u] = worker[u]
  BY <1>0 DEF NoWorker
<1>2. RowsOK'
  BY <1>0, <1>1 DEF RowsOK, Early
<1>3. /\ Inflight' = Inflight \ {t} /\ t \in Inflight
      /\ Rows' = [Rows EXCEPT ![t] = 0] /\ Log' = Log
  BY <1>0, <1>1 DEF Inflight, At, Rows, RunOf, Log
<1>4. worker[t].run \notin alive
  BY <1>0 DEF RowsOK, Busy
<1>5. L!Give(t)
  BY <1>0, <1>3, <1>4 DEF L!Give, Rows, Log, RunOf
<1> QED
  BY <1>2, <1>5 DEF L!LeaseNext

\* A cancelled context moves no worker.
LEMMA CancelledStays ==
    ASSUME NEW w \in Worker, NEW cause
    PROVE  Cancelled(w, cause).pc = w.pc /\ Cancelled(w, cause).run = w.run
BY DEF Cancelled, Worker

LEMMA CancelQuiet ==
    ASSUME RunnerInv, RunnerInv', RowsOK, UNCHANGED <<runs, alive>>, NEW cause,
           (\E t : Cancel(t, cause)) \/ (\E S : CancelEvery(S, cause))
    PROVE  /\ RowsOK' /\ Quiet
           /\ \A u \in Tasks : worker'[u].pc = worker[u].pc
<1>0. worker \in [Tasks -> Worker] /\ worker' \in [Tasks -> Worker]
  BY DEF RunnerInv, RunnerTypeOK
<1>1. \A u \in Tasks : worker'[u].pc = worker[u].pc /\ worker'[u].run = worker[u].run
  BY <1>0, CancelledStays DEF Cancel, CancelEvery
<1>2. SameRuns
  BY DEF SameRuns
<1> QED
  BY <1>0, <1>1, <1>2, WorkersMove

-----------------------------------------------------------------------------
(* The loop, the handlers and the agents' calls.                           *)

\* Whatever leaves workers, processes and the tasks of the rows alone.
LEMMA ElsewhereQuiet ==
    ASSUME RunnerInv, RowsOK, SameRuns, worker' = worker, alive' \subseteq alive
    PROVE  RowsOK' /\ Quiet
<1>1. worker' \in [Tasks -> Worker]
  BY DEF RunnerInv, RunnerTypeOK
<1> QED
  BY <1>1, WorkersMove

LEMMA FinishKeepsRuns ==
    ASSUME runs \in Seq(RunRow), NEW r, NEW s, FinishRun(r, s)
    PROVE  SameRuns
<1> DEFINE row == [runs[r] EXCEPT !.status = s]
<1>1. runs' = [runs EXCEPT ![r] = row]
  BY DEF FinishRun
<1>2. r \in 1 .. Len(runs) => row.task = runs[r].task
  BY DEF RunRow
<1> HIDE DEF row
<1> QED
  BY <1>1, <1>2, FieldKeepsRuns

\* The loop of a daemon that is down stands still.
LEMMA TickIsUp ==
    ASSUME DownIdle, TickStep
    PROVE  mode # "down" /\ mode' = mode
BY DEF DownIdle, TickStep, ListActiveRuns, LockForReconcile, SkipTracked,
   UnlockToKill, KillOrphan, BuryRun, SettleBuried, UnlockReconciled, FetchResumable,
   FetchQueued, Decide, Suspend, Fail, LaunchPlanned, EndTick

LEMMA TickLeases ==
    ASSUME RunnerInv, RunnerInv', SchedulerTypeOK, SchedOK, RowsOK, DownIdle, TickStep
    PROVE  RowsOK' /\ DownIdle' /\ L!LeaseNext
<1>0. mode # "down" /\ mode' = mode /\ DownIdle' /\ runs \in Seq(RunRow)
  BY TickIsUp DEF DownIdle, RunnerInv, StoreTypeOK
<1>1. CASE \/ ListActiveRuns \/ LockForReconcile \/ SkipTracked \/ UnlockToKill
           \/ SettleBuried \/ UnlockReconciled \/ FetchResumable \/ FetchQueued
           \/ Decide \/ Fail \/ EndTick
  <2>1. UNCHANGED <<runs, worker, alive>>
    BY <1>1 DEF ListActiveRuns, LockForReconcile, SkipTracked, UnlockToKill,
       SettleBuried, UnlockReconciled, FetchResumable, FetchQueued, Decide, Fail,
       EndTick, storeVars, runnerVars
  <2>2. SameRuns
    BY <2>1 DEF SameRuns
  <2> QED
    BY <1>0, <2>1, <2>2, ElsewhereQuiet, QuietStep
<1>2. CASE KillOrphan \/ BuryRun
  <2>1. worker' = worker /\ alive' \subseteq alive /\ FinishRun(Found.id, "errored")
    BY <1>2 DEF KillOrphan, BuryRun, runnerVars
  <2>2. SameRuns
    BY <1>0, <2>1, FinishKeepsRuns
  <2> QED
    BY <1>0, <2>1, <2>2, ElsewhereQuiet, QuietStep
<1>3. CASE Suspend
  <2>1. UNCHANGED <<runs, alive>> /\ \E t : Cancel(t, "suspended")
    BY <1>3 DEF Suspend, storeVars
  <2> QED
    BY <1>0, <2>1, CancelQuiet, QuietStep
<1>4. CASE LaunchPlanned
  <2>1. PICK i \in sched.launch : Launch(RowFor(sched.cands[i].task), FALSE)
    BY <1>4 DEF LaunchPlanned
  <2>2. UNCHANGED <<runs, alive, mode>>
    BY <1>4 DEF LaunchPlanned, storeVars
  <2>3. sched.cands \in Seq(Candidate) /\ i \in 1 .. Len(sched.cands)
    BY <2>1 DEF SchedulerTypeOK, Sched, SchedOK
  <2>4. RowFor(sched.cands[i].task) \in Candidate
    BY <2>3, RowForIsCandidate
  <2>5. \E c : c.task \in Tasks /\ Launch(c, FALSE)
    BY <2>1, <2>4 DEF Candidate
  <2> QED
    BY <1>0, <2>2, <2>5, LaunchLeases
<1> QED
  BY <1>1, <1>2, <1>3, <1>4 DEF TickStep

LEMMA UserLeases ==
    ASSUME RunnerInv, RowsOK, NEW c \in Clients,
           UserBegins(c) \/ (\E q \in 1 .. Len(requests) : SettleChecks(c, q))
    PROVE  RowsOK' /\ L!LeaseNext /\ mode # "down" /\ mode' = mode
<1>1. UNCHANGED <<runs, worker, alive, mode>> /\ mode # "down"
  BY DEF UserBegins, SettleChecks, CreateTask, EditTask, DeleteChecks, PauseChecks,
     ResumeChecks, SetChecks, CommentChecks, RunNowChecks, CancelChecks, Begins,
     Arrives, Elsewhere, schedulerVars, storeVars
<1>2. SameRuns
  BY <1>1 DEF SameRuns
<1> QED
  BY <1>1, <1>2, ElsewhereQuiet, QuietStep

LEMMA HandlerLeases ==
    ASSUME RunnerInv, RunnerInv', ServicesInv, RowsOK, NEW c \in Clients,
           HandlerStep(c) \/ ReplyStep(c)
    PROVE  RowsOK' /\ L!LeaseNext /\ mode # "down" /\ mode' = mode
<1>0. mode # "down" /\ UNCHANGED <<alive, mode>> /\ runs \in Seq(RunRow)
  BY DEF HandlerStep, ReplyStep, DeletesRow, RetiresRequests, WritesStatus,
     ForgetsAttempts, InsertsComment, RunNowLaunches, CancelSignals, CancelAbandons,
     Decides, Replies, Answers, Delivers, Wakes, OpAt, Elsewhere, schedulerVars,
     RunnerInv, StoreTypeOK
<1>1. CASE \/ DeletesRow(c) \/ RetiresRequests(c) \/ WritesStatus(c)
           \/ ForgetsAttempts(c) \/ InsertsComment(c) \/ ReplyStep(c)
  <2>1. UNCHANGED <<runs, worker>>
    BY <1>1 DEF ReplyStep, DeletesRow, RetiresRequests, WritesStatus,
       ForgetsAttempts, InsertsComment, Decides, Replies, Answers, Delivers, Wakes,
       storeVars
  <2>2. SameRuns
    BY <2>1 DEF SameRuns
  <2> QED
    BY <1>0, <2>1, <2>2, ElsewhereQuiet, QuietStep
<1>2. CASE CancelAbandons(c)
  <2>1. worker' = worker /\ FinishRun(op[c].id, "abandoned")
    BY <1>2 DEF CancelAbandons
  <2>2. SameRuns
    BY <1>0, <2>1, FinishKeepsRuns
  <2> QED
    BY <1>0, <2>1, <2>2, ElsewhereQuiet, QuietStep
<1>3. CASE CancelSignals(c)
  <2>1. runs' = runs /\ \E t : Cancel(t, "cancelled")
    BY <1>3 DEF CancelSignals, storeVars
  <2> QED
    BY <1>0, <2>1, CancelQuiet, QuietStep
<1>4. CASE RunNowLaunches(c)
  <2> DEFINE k == [task |-> op[c].task, resume |-> op[c].id, attempt |-> op[c].attempt]
  <2>1. runs' = runs /\ (Launch(k, TRUE) \/ worker' = worker)
    BY <1>4 DEF RunNowLaunches, storeVars
  <2>2. k.task \in Tasks
    BY <1>4 DEF RunNowLaunches, OpAt, ServicesInv, GoodOps
  <2> HIDE DEF k
  <2>3. CASE Launch(k, TRUE)
    <3>1. \E d : d.task \in Tasks /\ Launch(d, TRUE)
      BY <2>2, <2>3
    <3> QED
      BY <1>0, <2>1, <3>1, LaunchLeases
  <2>4. CASE worker' = worker
    <3>1. SameRuns
      BY <2>1 DEF SameRuns
    <3> QED
      BY <1>0, <2>4, <3>1, ElsewhereQuiet, QuietStep
  <2> QED
    BY <2>1, <2>3, <2>4
<1> QED
  BY <1>1, <1>2, <1>3, <1>4 DEF HandlerStep

LEMMA CallLeases ==
    ASSUME RunnerInv, RowsOK, NEW r \in 1 .. MaxRuns, Asks(r) \/ Awaits(r)
    PROVE  RowsOK' /\ L!LeaseNext /\ mode # "down" /\ mode' = mode
<1>1. UNCHANGED <<runs, worker, alive, mode>> /\ mode # "down"
  BY DEF Asks, Awaits, Ask, AskAgain, CallStep, AwaitFinds, AwaitGoesLive, AwaitEnds,
     AwaitReturns, CallAt, runnerVars, schedulerVars, storeVars
<1>2. SameRuns
  BY <1>1 DEF SameRuns
<1> QED
  BY <1>1, <1>2, ElsewhereQuiet, QuietStep

-----------------------------------------------------------------------------
(* The daemon.                                                             *)

LEMMA LeaseInvInit ==
    ASSUME Init
    PROVE  LeaseInv /\ L!LeaseInit
<1>1. /\ runs = <<>> /\ alive = {} /\ mode = "down" /\ sched.pc = "idle"
      /\ worker = [t \in Tasks |-> NoWorker]
      /\ NoWorker.pc = "idle" /\ NoWorker.run = 0
  BY DEF Init, StoreInit, RunnerInit, SchedulerInit, Resting, NoWorker
<1>2. LeaseInv
  BY <1>1 DEF LeaseInv, RowsOK, DownIdle, Early
<1>3. /\ Inflight = {} /\ Rows = [t \in Tasks |-> 0] /\ Log = <<>>
  BY <1>1 DEF Inflight, At, Rows, RunOf, Log
<1> QED
  BY <1>1, <1>2, <1>3 DEF L!LeaseInit, Rows, Log

LEMMA LeaseInvNext ==
    ASSUME TypeInv, TypeInv', LeaseInv, [Next]_vars
    PROVE  LeaseInv' /\ [L!LeaseNext]_(L!leaseVars)
<1>0. /\ RunnerInv /\ RunnerInv' /\ SchedulerTypeOK /\ SchedOK /\ ServicesInv
      /\ RowsOK /\ DownIdle
      /\ Len(runs) \in Nat /\ alive \subseteq 1 .. Len(runs)
  BY TypeInvHas DEF LeaseInv, RunnerInv, TypeInv, TypeOK, RunnerTypeOK
\* A daemon that is up and stays so, or stops, owes DownIdle nothing.
<1>a. ASSUME RowsOK', L!LeaseNext, mode' # "down"
      PROVE  LeaseInv' /\ [L!LeaseNext]_(L!leaseVars)
  BY <1>a DEF LeaseInv, DownIdle
<1>1. ASSUME NEW t \in Tasks, Works(t) \/ NamesSession(t)
      PROVE  LeaseInv' /\ [L!LeaseNext]_(L!leaseVars)
  <2>1. (RunnerStep(t) \/ SessionInit(t)) /\ mode' = mode
    BY <1>1 DEF Works, NamesSession, WorkerStep, schedulerVars
  <2>2. worker[t].pc # "idle"
    BY <2>1 DEF RunnerStep, ReadComments, WorkspaceFails, StartRun, NoTaskToRun,
       PreflightRun, PreflightFinish, PreflightSettle, CarrySession, MarkRunning,
       TokenFails, TokenSettle, Begin, Spawn, SpawnFails, RecordPid, SessionInit,
       AutoContinue, SessionMissing, ClaudeExits, Classify, Finish, Consume, Settle,
       ResetAfterAnswer, At
  <2> QED
    BY <1>0, <1>a, <2>1, <2>2, RunnerLeases DEF DownIdle
<1>2. ASSUME NEW t \in Tasks, Releases(t)
      PROVE  LeaseInv' /\ [L!LeaseNext]_(L!leaseVars)
  <2>1. Release(t) /\ mode' = mode /\ worker[t].pc # "idle"
    BY <1>2 DEF Releases, Release, schedulerVars, At
  <2> QED
    BY <1>0, <1>a, <2>1, ReleaseLeases DEF DownIdle
<1>3. ASSUME NEW r \in 1 .. MaxRuns, Asks(r) \/ Awaits(r)
      PROVE  LeaseInv' /\ [L!LeaseNext]_(L!leaseVars)
  BY <1>0, <1>3, <1>a, CallLeases
<1>4. ASSUME NEW r \in 1 .. MaxRuns, OrphanExits(r)
      PROVE  LeaseInv' /\ [L!LeaseNext]_(L!leaseVars)
  <2>1. UNCHANGED <<runs, worker, sched, mode>> /\ alive' \subseteq alive
    BY <1>4 DEF OrphanExits, storeVars, schedulerVars
  <2>2. SameRuns
    BY <2>1 DEF SameRuns
  <2>3. RowsOK' /\ L!LeaseNext
    BY <1>0, <2>1, <2>2, ElsewhereQuiet, QuietStep
  <2> QED
    BY <1>0, <2>1, <2>3 DEF LeaseInv, DownIdle
<1>5. ASSUME NEW c \in Clients, Demands(c) \/ Handles(c)
      PROVE  LeaseInv' /\ [L!LeaseNext]_(L!leaseVars)
  <2>1. \/ UserBegins(c) \/ (\E q \in 1 .. Len(requests) : SettleChecks(c, q))
        \/ HandlerStep(c) \/ ReplyStep(c)
    BY <1>5 DEF Demands, Handles
  <2> QED
    BY <1>0, <1>a, <2>1, UserLeases, HandlerLeases
<1>6. CASE Ticks
  BY <1>0, <1>6, TickLeases DEF Ticks, LeaseInv
<1>7. CASE Stops \/ Signalled
  <2>1. /\ UNCHANGED <<runs, alive>> /\ mode # "down" /\ mode' # "down"
        /\ \E S : CancelEvery(S, "shutdown")
    BY <1>7 DEF Stops, Signalled, CancelAll, Terminate, storeVars
  <2>2. RowsOK' /\ L!LeaseNext
    BY <1>0, <2>1, CancelQuiet, QuietStep
  <2> QED
    BY <1>a, <2>1, <2>2
<1>8. CASE Crash \/ Exit
  <2>1. Forgotten /\ mode # "down"
    BY <1>0, <1>8 DEF Crash, Exit, DownIdle
  <2>2. /\ worker' = [t \in Tasks |-> NoWorker] /\ sched' = Resting /\ mode' = "down"
        /\ UNCHANGED <<runs, alive>>
        /\ NoWorker.pc = "idle" /\ NoWorker.run = 0 /\ Resting.pc = "idle"
    BY <2>1 DEF Forgotten, storeVars, NoWorker, Resting
  <2>3. LeaseInv'
    BY <1>0, <2>2 DEF LeaseInv, RowsOK, DownIdle, Early
  <2>4. Inflight' = {} /\ Rows' = [t \in Tasks |-> 0] /\ Log' = Log
    BY <2>2 DEF Inflight, At, Rows, RunOf, Log
  <2>5. L!Down
    BY <2>1, <2>2, <2>4 DEF L!Down, Rows, Log
  <2> QED
    BY <2>3, <2>5 DEF L!LeaseNext
<1>9. CASE Restart
  <2>1. UNCHANGED <<runs, worker, alive>> /\ mode' = "up"
    BY <1>9 DEF Restart, runnerVars
  <2>2. RowsOK'
    BY <1>0, <2>1 DEF RowsOK
  <2>3. L!Up
    BY <2>1 DEF L!Up, Inflight, At, RunOf
  <2> QED
    BY <1>a, <2>1, <2>2, <2>3 DEF L!LeaseNext
<1>10. CASE UNCHANGED vars
  <2>1. UNCHANGED <<runs, worker, alive, sched, mode>>
    BY <1>10 DEF vars, storeVars, runnerVars, schedulerVars
  <2> QED
    BY <1>0, <2>1 DEF LeaseInv, RowsOK, DownIdle, L!leaseVars, Inflight, At, RunOf
<1>11. CASE Stopped
  <2>1. UNCHANGED <<runs, worker, alive, mode>> /\ mode # "down"
    BY <1>0, <1>11 DEF Stopped, LoopEnds, Drained, DownIdle, storeVars, runnerVars
  <2> QED
    BY <1>0, <2>1 DEF LeaseInv, RowsOK, DownIdle, L!leaseVars, Inflight, At, RunOf
<1> QED
  BY <1>1, <1>2, <1>3, <1>4, <1>5, <1>6, <1>7, <1>8, <1>9, <1>10, <1>11 DEF Next

\* Through launches by tick and by hand, cancels, crashes, restarts and the
\* burial of what they left, the daemon is one of leases: a task is worked on
\* by one worker at a time, whose one row is the only one claude is started
\* for, and a worker that is released leaves no claude behind.
THEOREM LeasesImplemented == Spec => ImplementsLeases
<1>1. Init => TypeInv /\ LeaseInv /\ L!LeaseInit
  BY TypeInvInit, LeaseInvInit
<1>2. TypeInv /\ [Next]_vars => TypeInv'
  BY TypeInvNext
<1>3. TypeInv /\ TypeInv' /\ LeaseInv /\ [Next]_vars
         => LeaseInv' /\ [L!LeaseNext]_(L!leaseVars)
  BY LeaseInvNext
<1> QED
  BY <1>1, <1>2, <1>3, PTL DEF Spec, ImplementsLeases, L!LeaseSpec
=============================================================================
