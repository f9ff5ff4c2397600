---------------------------- MODULE DaemonTypes ----------------------------
(***************************************************************************)
(* The daemon is well typed.  By itself TypeOK is not inductive: a worker  *)
(* writes to the run row it created, a tick to the row it is looking at, a *)
(* long poll to its request, so the proof carries along that those ids are *)
(* valid where the program counters say they are used.                     *)
(***************************************************************************)
EXTENDS Daemon, PolicyProofs

-----------------------------------------------------------------------------
(* The store: every statement keeps its tables well typed, and none of     *)
(* them removes a row, so that ids handed out stay valid.                  *)

\* Assigning to one element of a sequence, in range or not.
LEMMA ElementAssigned ==
    ASSUME NEW S, NEW s \in Seq(S), NEW i, NEW e, i \in 1 .. Len(s) => e \in S
    PROVE  /\ [s EXCEPT ![i] = e] \in Seq(S)
           /\ Len([s EXCEPT ![i] = e]) = Len(s)
<1>1. s \in [1 .. Len(s) -> S] /\ Len(s) \in Nat
  OBVIOUS
<1>2. [s EXCEPT ![i] = e] \in [1 .. Len(s) -> S]
  BY <1>1
<1> QED
  BY <1>1, <1>2

\* The newest run of a task is a run, or 0.
LEMMA LatestRunIsRun ==
    ASSUME runs \in Seq(RunRow), NEW t
    PROVE  /\ LatestRunForTask(t) \in 0 .. Len(runs)
           /\ LatestRunForTask(t) # 0 => LatestRunForTask(t) \in RunsOf(t)
           /\ \A r \in RunsOf(t) : r <= LatestRunForTask(t)
<1> DEFINE S == RunsOf(t) \cup {0}
<1>1. Len(runs) \in Nat /\ S \subseteq 0 .. Len(runs) /\ S # {}
  BY DEF RunsOf
<1>2. \E x \in S : \A y \in S : y <= x
  BY <1>1, LargestNatural
<1>3. \E x \in S : \A y \in S : x >= y
  BY <1>1, <1>2
<1>4. Max(S) \in S /\ \A y \in S : Max(S) >= y
  BY <1>3 DEF Max
<1> QED
  BY <1>1, <1>4 DEF LatestRunForTask

LEMMA SetTaskStatusTypes ==
    ASSUME status \in [Tasks -> TaskStatus \cup Missing],
           NEW t, NEW s \in TaskStatus \cup Missing, SetTaskStatus(t, s)
    PROVE  status' \in [Tasks -> TaskStatus \cup Missing]
BY DEF SetTaskStatus

LEMMA ResetTaskAttemptsTypes ==
    ASSUME resetAt \in [Tasks -> Nat], runs \in Seq(RunRow), NEW t,
           ResetTaskAttempts(t)
    PROVE  resetAt' \in [Tasks -> Nat]
<1>1. CASE t \in Tasks
  <2> DEFINE S == {resetAt[t], LatestRunForTask(t)}
  <2>1. LatestRunForTask(t) \in Nat /\ resetAt[t] \in Nat
    BY <1>1, LatestRunIsRun
  <2>2. Max(S) \in S
    <3>1. \E x \in S : \A y \in S : x >= y
      BY <2>1
    <3> QED
      BY <3>1 DEF Max
  <2> QED
    BY <2>1, <2>2 DEF ResetTaskAttempts
<1>2. CASE t \notin Tasks
  BY <1>2 DEF ResetTaskAttempts
<1> QED
  BY <1>1, <1>2

LEMMA EffectiveAttemptTypes ==
    ASSUME resetAt \in [Tasks -> Nat], runs \in Seq(RunRow), NEW t \in Tasks
    PROVE  EffectiveAttempt(resetAt[t], LatestRunForTask(t)) \in Nat
<1> DEFINE r == LatestRunForTask(t)
<1>1. r \in 0 .. Len(runs) /\ Len(runs) \in Nat /\ resetAt[t] \in Nat
  BY LatestRunIsRun
<1>2. r > resetAt[t] => runs[r] \in RunRow
  BY <1>1
<1>3. r > resetAt[t] => runs[r].attempt \in Nat
  BY <1>2 DEF RunRow
<1> QED
  BY <1>1, <1>3 DEF EffectiveAttempt

LEMMA CreateRunTypes ==
    ASSUME runs \in Seq(RunRow), NEW t \in Tasks, NEW n \in Nat, CreateRun(t, n)
    PROVE  runs' \in Seq(RunRow) /\ Len(runs') = Len(runs) + 1
BY DEF CreateRun, RunRow, ActiveStatus

LEMMA FinishRunTypes ==
    ASSUME runs \in Seq(RunRow), NEW r, NEW s \in EndStatus, FinishRun(r, s)
    PROVE  runs' \in Seq(RunRow) /\ Len(runs') = Len(runs)
<1>0. r \in 1 .. Len(runs) => runs[r] \in RunRow
  OBVIOUS
<1>1. r \in 1 .. Len(runs) => [runs[r] EXCEPT !.status = s] \in RunRow
  BY <1>0 DEF RunRow
<1> QED
  BY <1>1, ElementAssigned DEF FinishRun

LEMMA AddCommentTypes ==
    ASSUME comments \in Seq(CommentRow), NEW t \in Tasks, AddComment(t)
    PROVE  comments' \in Seq(CommentRow)
BY DEF AddComment, CommentRow

LEMMA MarkCommentsConsumedTypes ==
    ASSUME comments \in Seq(CommentRow), NEW t, MarkCommentsConsumed(t)
    PROVE  comments' \in Seq(CommentRow)
<1>1. /\ Len(comments) \in Nat
      /\ \A m \in 1 .. Len(comments) : comments[m] \in CommentRow
  OBVIOUS
<1>2. \A m \in 1 .. Len(comments) :
         [comments[m] EXCEPT !.consumed = @ \/ comments[m].task = t] \in CommentRow
  BY <1>1 DEF CommentRow
<1>3. comments' \in [1 .. Len(comments) -> CommentRow]
  BY <1>2 DEF MarkCommentsConsumed
<1> QED
  BY <1>1, <1>3

LEMMA MarkCommentConsumedTypes ==
    ASSUME comments \in Seq(CommentRow), NEW m, MarkCommentConsumed(m)
    PROVE  comments' \in Seq(CommentRow)
<1>0. m \in 1 .. Len(comments) => comments[m] \in CommentRow
  OBVIOUS
<1>1. m \in 1 .. Len(comments) => [comments[m] EXCEPT !.consumed = TRUE] \in CommentRow
  BY <1>0 DEF CommentRow
<1> QED
  BY <1>1, ElementAssigned DEF MarkCommentConsumed

LEMMA CreateHumanRequestTypes ==
    ASSUME requests \in Seq(RequestRow), NEW t \in Tasks, NEW r \in Nat,
           CreateHumanRequest(t, r)
    PROVE  requests' \in Seq(RequestRow) /\ Len(requests') = Len(requests) + 1
BY DEF CreateHumanRequest, RequestRow, RequestStatus

LEMMA SetHumanRequestStatusTypes ==
    ASSUME requests \in Seq(RequestRow), NEW q, NEW s \in RequestStatus,
           SetHumanRequestStatus(q, s)
    PROVE  requests' \in Seq(RequestRow) /\ Len(requests') = Len(requests)
<1>0. q \in 1 .. Len(requests) => requests[q] \in RequestRow
  OBVIOUS
<1>1. q \in 1 .. Len(requests) => [requests[q] EXCEPT !.status = s] \in RequestRow
  BY <1>0 DEF RequestRow
<1> QED
  BY <1>1, ElementAssigned DEF SetHumanRequestStatus

LEMMA SetHumanRequestLiveTypes ==
    ASSUME requests \in Seq(RequestRow), NEW q, NEW on \in BOOLEAN,
           SetHumanRequestLive(q, on)
    PROVE  requests' \in Seq(RequestRow) /\ Len(requests') = Len(requests)
<1>0. q \in 1 .. Len(requests) => requests[q] \in RequestRow
  OBVIOUS
<1>1. q \in 1 .. Len(requests) => [requests[q] EXCEPT !.live = on] \in RequestRow
  BY <1>0 DEF RequestRow
<1> QED
  BY <1>1, ElementAssigned DEF SetHumanRequestLive

LEMMA SetHumanRequestResponseTypes ==
    ASSUME requests \in Seq(RequestRow), NEW q, NEW m \in Nat,
           SetHumanRequestResponse(q, m)
    PROVE  requests' \in Seq(RequestRow) /\ Len(requests') = Len(requests)
<1> DEFINE row == [requests[q] EXCEPT !.status = "answered", !.reply = m]
<1>0. q \in 1 .. Len(requests) => requests[q] \in RequestRow
  OBVIOUS
<1>1. q \in 1 .. Len(requests) => row \in RequestRow
  BY <1>0 DEF RequestRow, RequestStatus
<1>2. requests' = [requests EXCEPT ![q] = row]
  BY DEF SetHumanRequestResponse
<1> HIDE DEF row
<1> QED
  BY <1>1, <1>2, ElementAssigned

LEMMA CancelTaskRequestsTypes ==
    ASSUME requests \in Seq(RequestRow), NEW t, CancelTaskRequests(t)
    PROVE  requests' \in Seq(RequestRow) /\ Len(requests') = Len(requests)
<1>1. /\ Len(requests) \in Nat
      /\ \A q \in 1 .. Len(requests) : requests[q] \in RequestRow
  OBVIOUS
<1>2. \A q \in 1 .. Len(requests) :
         [requests[q] EXCEPT !.status = "canceled"] \in RequestRow
  BY <1>1 DEF RequestRow, RequestStatus
<1>3. requests' \in [1 .. Len(requests) -> RequestRow]
  BY <1>1, <1>2 DEF CancelTaskRequests
<1> QED
  BY <1>1, <1>3

LEMMA ClearHumanRequestLiveTypes ==
    ASSUME requests \in Seq(RequestRow), ClearHumanRequestLive
    PROVE  requests' \in Seq(RequestRow) /\ Len(requests') = Len(requests)
<1>1. /\ Len(requests) \in Nat
      /\ \A q \in 1 .. Len(requests) : requests[q] \in RequestRow
  OBVIOUS
<1>2. \A q \in 1 .. Len(requests) : [requests[q] EXCEPT !.live = FALSE] \in RequestRow
  BY <1>1 DEF RequestRow
<1>3. requests' \in [1 .. Len(requests) -> RequestRow]
  BY <1>2 DEF ClearHumanRequestLive
<1> QED
  BY <1>1, <1>3

-----------------------------------------------------------------------------
(* What holds where an id is used.                                         *)

\* A worker past StartRun has its run row, and past Classify its outcome.
Rowless == {"idle", "start", "workspace", "preflight", "done"}

WorkerOK ==
    \A t \in Tasks :
        /\ worker[t].pc \notin Rowless => worker[t].run \in 1 .. Len(runs)
        /\ worker[t].pc = "finish" => worker[t].exit \in Outcomes

\* A reconcile that acts has a row left; launches are positions of the list.
SchedOK ==
    /\ sched.pc \in {"killing", "settling"} => sched.list # <<>>
    /\ sched.launch \subseteq 1 .. Len(sched.cands)
    /\ sched.pc # "act" => sched.launch = {}

\* A tool call is about a request there is.
CallOK ==
    \A r \in 1 .. MaxRuns : call[r].at # "none" => call[r].req \in 1 .. Len(requests)

\* The statuses a handler may give a task.
Writable == TaskStatus \ {"running"}

\* A handler at work is about a task, and what it will write is a status of
\* the table it will write to; none writes "running".
GoodOps ==
    {o \in Op : /\ o.at # "idle" => o.task \in Tasks
                /\ o.at \in {"write", "retire"} => o.to \in Writable
                /\ o.at = "decide" => o.to \in RequestStatus}

ServicesInv == op \in [Clients -> GoodOps]

RunnerInv == StoreTypeOK /\ RunnerTypeOK /\ WorkerOK

TypeInv == TypeOK /\ WorkerOK /\ SchedOK /\ ServicesInv /\ CallOK

-----------------------------------------------------------------------------
(* The runner.                                                             *)

\* Changing one worker's record keeps the others' ids valid, since no step
\* removes a run row.
LEMMA WorkerAssigned ==
    ASSUME RunnerInv, NEW t \in Tasks, NEW w \in Worker,
           worker' = [worker EXCEPT ![t] = w],
           Len(runs') \in Nat, Len(runs') >= Len(runs),
           w.pc \notin Rowless => w.run \in 1 .. Len(runs'),
           w.pc = "finish" => w.exit \in Outcomes
    PROVE  worker' \in [Tasks -> Worker] /\ WorkerOK'
<1>1. worker \in [Tasks -> Worker] /\ Len(runs) \in Nat
  BY DEF RunnerInv, RunnerTypeOK, StoreTypeOK
<1>2. worker' \in [Tasks -> Worker]
  BY <1>1
<1>3. ASSUME NEW u \in Tasks
      PROVE  /\ worker'[u].pc \notin Rowless => worker'[u].run \in 1 .. Len(runs')
             /\ worker'[u].pc = "finish" => worker'[u].exit \in Outcomes
  <2>1. CASE u = t
    BY <1>1, <2>1
  <2>2. CASE u # t
    BY <1>1, <2>2 DEF RunnerInv, WorkerOK
  <2> QED
    BY <2>1, <2>2
<1> QED
  BY <1>2, <1>3 DEF WorkerOK

\* Steps that touch nothing but one worker's program counter.
LEMMA GotoTypes ==
    ASSUME RunnerInv, NEW t \in Tasks, NEW pc \in Places, Goto(t, pc),
           Len(runs') \in Nat, Len(runs') >= Len(runs),
           pc \notin Rowless => worker[t].run \in 1 .. Len(runs),
           pc # "finish"
    PROVE  worker' \in [Tasks -> Worker] /\ WorkerOK'
<1> DEFINE w == [worker[t] EXCEPT !.pc = pc]
<1>1. worker[t] \in Worker /\ Len(runs) \in Nat
  BY DEF RunnerInv, RunnerTypeOK, StoreTypeOK
<1>2. w \in Worker /\ w.pc = pc /\ w.run = worker[t].run
  BY <1>1 DEF Worker
<1>3. worker' = [worker EXCEPT ![t] = w]
  BY DEF Goto
<1>4. w.pc \notin Rowless => w.run \in 1 .. Len(runs')
  BY <1>1, <1>2
<1> HIDE DEF w
<1> QED
  BY <1>2, <1>3, <1>4, WorkerAssigned

\* One field of a run row is assigned.
LEMMA RunFieldTypes ==
    ASSUME runs \in Seq(RunRow), NEW r, NEW row, r \in 1 .. Len(runs) => row \in RunRow,
           runs' = [runs EXCEPT ![r] = row]
    PROVE  /\ runs' \in Seq(RunRow)
           /\ Len(runs') = Len(runs) /\ Len(runs) \in Nat /\ Len(runs') \in Nat
BY ElementAssigned

LEMMA RunnerStepTypes ==
    ASSUME RunnerInv, NEW t \in Tasks, RunnerStep(t) \/ SessionInit(t)
    PROVE  RunnerInv'
<1> DEFINE w == worker[t]
<1>0. /\ w \in Worker
      /\ worker \in [Tasks -> Worker]
      /\ status \in [Tasks -> TaskStatus \cup Missing]
      /\ resetAt \in [Tasks -> Nat]
      /\ runs \in Seq(RunRow)
      /\ comments \in Seq(CommentRow)
      /\ requests \in Seq(RequestRow)
      /\ alive \subseteq 1 .. Len(runs)
      /\ heard \subseteq Nat
      /\ Len(runs) \in Nat
  BY DEF RunnerInv, RunnerTypeOK, StoreTypeOK
<1>r. /\ w.pc \notin Rowless => w.run \in 1 .. Len(runs)
      /\ w.pc = "finish" => w.exit \in Outcomes
  BY DEF RunnerInv, WorkerOK
<1>w. /\ w.run \in Nat /\ w.resume \in Nat /\ w.attempt \in Nat
      /\ w.continues \in Nat /\ w.exit \in Exits \cup Outcomes
      /\ w.read \in SUBSET Nat /\ w.cause \in Causes /\ w.manual \in BOOLEAN
  BY <1>0 DEF Worker
\* A step that leaves the store alone and moves one worker.
<1>a. ASSUME UNCHANGED storeVars, alive' \subseteq 1 .. Len(runs), heard' \subseteq Nat,
             worker' \in [Tasks -> Worker], WorkerOK'
      PROVE  RunnerInv'
  BY <1>0, <1>a DEF RunnerInv, RunnerTypeOK, StoreTypeOK, storeVars
\* A step that rewrites the runs table and moves one worker.
<1>b. ASSUME UNCHANGED <<status, resetAt, comments, requests>>, heard' = heard,
             runs' \in Seq(RunRow), Len(runs') \in Nat, Len(runs') >= Len(runs),
             alive' \subseteq alive,
             worker' \in [Tasks -> Worker], WorkerOK'
      PROVE  RunnerInv'
  <2>1. alive' \subseteq 1 .. Len(runs')
    BY <1>0, <1>b
  <2> QED
    BY <1>0, <1>b, <2>1 DEF RunnerInv, RunnerTypeOK, StoreTypeOK
<1>c. ASSUME UNCHANGED <<resetAt, runs, comments, requests, alive, heard>>,
             status' \in [Tasks -> TaskStatus \cup Missing],
             worker' \in [Tasks -> Worker], WorkerOK'
      PROVE  RunnerInv'
  BY <1>0, <1>c DEF RunnerInv, RunnerTypeOK, StoreTypeOK
<1>1. CASE ReadComments(t)
  <2> DEFINE v == [w EXCEPT !.pc = "workspace", !.read = UnconsumedComments(t)]
  <2>1. UnconsumedComments(t) \subseteq Nat
    BY <1>0 DEF UnconsumedComments
  <2>2. v \in Worker /\ v.pc = "workspace"
    BY <1>0, <1>w, <2>1 DEF Worker, Places
  <2>3. worker' = [worker EXCEPT ![t] = v] /\ UNCHANGED <<storeVars, alive, heard>>
    BY <1>1 DEF ReadComments
  <2>4. runs' = runs
    BY <2>3 DEF storeVars
  <2> HIDE DEF v
  <2>5. worker' \in [Tasks -> Worker] /\ WorkerOK'
    <3>1. /\ Len(runs') \in Nat /\ Len(runs') >= Len(runs)
          /\ v.pc \in Rowless /\ v.pc # "finish"
      BY <1>0, <2>2, <2>4 DEF Rowless
    <3> QED
      BY <2>2, <2>3, <3>1, WorkerAssigned
  <2> QED
    BY <1>0, <1>a, <2>3, <2>5
<1>2. CASE WorkspaceFails(t)
  <2>1. Goto(t, "preflight") /\ UNCHANGED <<storeVars, alive, heard>> /\ runs' = runs
    BY <1>2 DEF WorkspaceFails, storeVars
  <2>2. worker' \in [Tasks -> Worker] /\ WorkerOK'
    BY <1>0, <2>1, GotoTypes DEF Places, Rowless
  <2> QED
    BY <1>0, <1>a, <2>1, <2>2
<1>3. CASE StartRun(t)
  <2> DEFINE pc == IF w.resume # 0 THEN "carry" ELSE "mark"
             v == [w EXCEPT !.run = Len(runs) + 1, !.pc = pc]
  <2>1. CreateRun(t, w.attempt) /\ worker' = [worker EXCEPT ![t] = v]
        /\ UNCHANGED <<status, resetAt, comments, requests, alive, heard>>
    BY <1>3 DEF StartRun
  <2>2. v \in Worker /\ v.run = Len(runs) + 1 /\ v.pc \in {"carry", "mark"}
    <3>1. pc \in {"carry", "mark"}
      OBVIOUS
    <3>2. pc \in Places /\ Len(runs) + 1 \in Nat
      BY <1>0, <3>1 DEF Places
    <3> HIDE DEF pc
    <3> QED
      BY <1>0, <3>1, <3>2 DEF Worker
  <2>3. runs' \in Seq(RunRow) /\ Len(runs') = Len(runs) + 1
    BY <1>0, <1>w, <2>1, CreateRunTypes
  <2> HIDE DEF v
  <2>4. worker' \in [Tasks -> Worker] /\ WorkerOK'
    <3>1. /\ Len(runs') \in Nat /\ Len(runs') >= Len(runs)
          /\ v.run \in 1 .. Len(runs') /\ v.pc # "finish"
      BY <1>0, <2>2, <2>3
    <3> QED
      BY <2>1, <2>2, <3>1, WorkerAssigned
  <2> QED
    BY <1>0, <1>b, <2>1, <2>3, <2>4
<1>4. CASE NoTaskToRun(t)
  <2>1. Goto(t, "done") /\ UNCHANGED <<storeVars, alive, heard>> /\ runs' = runs
    BY <1>4 DEF NoTaskToRun, storeVars
  <2>2. worker' \in [Tasks -> Worker] /\ WorkerOK'
    BY <1>0, <2>1, GotoTypes DEF Places, Rowless
  <2> QED
    BY <1>0, <1>a, <2>1, <2>2
<1>5. CASE PreflightRun(t)
  <2> DEFINE n == EffectiveAttempt(resetAt[t], LatestRunForTask(t)) + 1
             v == [w EXCEPT !.pc = "prefinish", !.run = Len(runs) + 1, !.attempt = n]
  <2>1. CreateRun(t, n) /\ worker' = [worker EXCEPT ![t] = v]
        /\ UNCHANGED <<status, resetAt, comments, requests, alive, heard>>
    BY <1>5 DEF PreflightRun
  <2>2. n \in Nat
    BY <1>0, EffectiveAttemptTypes
  <2> HIDE DEF n
  <2>3. v \in Worker /\ v.run = Len(runs) + 1 /\ v.pc = "prefinish"
    <3>1. "prefinish" \in Places /\ Len(runs) + 1 \in Nat
      BY <1>0 DEF Places
    <3> QED
      BY <1>0, <2>2, <3>1 DEF Worker
  <2>4. runs' \in Seq(RunRow) /\ Len(runs') = Len(runs) + 1
    BY <1>0, <2>1, <2>2, CreateRunTypes
  <2> HIDE DEF v
  <2>5. worker' \in [Tasks -> Worker] /\ WorkerOK'
    <3>1. /\ Len(runs') \in Nat /\ Len(runs') >= Len(runs)
          /\ v.run \in 1 .. Len(runs') /\ v.pc # "finish"
      BY <1>0, <2>3, <2>4
    <3> QED
      BY <2>1, <2>3, <3>1, WorkerAssigned
  <2> QED
    BY <1>0, <1>b, <2>1, <2>4, <2>5
<1>6. CASE PreflightFinish(t)
  <2>1. FinishRun(w.run, "errored") /\ Goto(t, "presettle") /\ w.pc = "prefinish"
        /\ UNCHANGED <<status, resetAt, comments, requests, alive, heard>>
    BY <1>6 DEF PreflightFinish, RunOf, At
  <2>2. runs' \in Seq(RunRow) /\ Len(runs') = Len(runs)
    BY <1>0, <2>1, FinishRunTypes DEF EndStatus
  <2>3. worker' \in [Tasks -> Worker] /\ WorkerOK'
    BY <1>0, <1>r, <2>1, <2>2, GotoTypes DEF Places, Rowless
  <2> QED
    BY <1>0, <1>b, <2>1, <2>2, <2>3
<1>7. CASE PreflightSettle(t)
  <2> DEFINE s == IF w.attempt >= MaxAttempts THEN "failed" ELSE "queued"
  <2>1. SetTaskStatus(t, s) /\ Goto(t, "done")
        /\ UNCHANGED <<resetAt, runs, comments, requests, alive, heard>>
    BY <1>7 DEF PreflightSettle
  <2>2. s \in TaskStatus \cup Missing
    BY DEF TaskStatus
  <2> HIDE DEF s
  <2>3. status' \in [Tasks -> TaskStatus \cup Missing]
    BY <1>0, <2>1, <2>2, SetTaskStatusTypes
  <2>4. worker' \in [Tasks -> Worker] /\ WorkerOK'
    BY <1>0, <2>1, GotoTypes DEF Places, Rowless
  <2> QED
    BY <1>c, <2>1, <2>3, <2>4
<1>8. CASE CarrySession(t)
  <2> DEFINE row == [runs[w.run] EXCEPT !.session = TRUE, !.status = "resuming"]
  <2>1. runs' = [runs EXCEPT ![w.run] = row] /\ Goto(t, "mark") /\ w.pc = "carry"
        /\ UNCHANGED <<status, resetAt, comments, requests, alive, heard>>
    BY <1>8 DEF CarrySession, RunOf, At
  <2>2. w.run \in 1 .. Len(runs)
    BY <1>r, <2>1 DEF Rowless
  <2>3. row \in RunRow
    <3>1. runs[w.run] \in RunRow
      BY <1>0, <2>2
    <3> QED
      BY <3>1 DEF RunRow, ActiveStatus
  <2> HIDE DEF row
  <2>4. runs' \in Seq(RunRow) /\ Len(runs') = Len(runs)
    BY <1>0, <2>1, <2>3, RunFieldTypes
  <2>5. worker' \in [Tasks -> Worker] /\ WorkerOK'
    BY <1>0, <2>1, <2>2, <2>4, GotoTypes DEF Places
  <2> QED
    BY <1>0, <1>b, <2>1, <2>4, <2>5
<1>9. CASE MarkRunning(t)
  <2>1. SetTaskStatus(t, "running") /\ Goto(t, "token") /\ w.pc = "mark"
        /\ UNCHANGED <<resetAt, runs, comments, requests, alive, heard>>
    BY <1>9 DEF MarkRunning, At
  <2>2. status' \in [Tasks -> TaskStatus \cup Missing]
    BY <1>0, <2>1, SetTaskStatusTypes DEF TaskStatus
  <2>3. worker' \in [Tasks -> Worker] /\ WorkerOK'
    BY <1>0, <1>r, <2>1, GotoTypes DEF Places, Rowless
  <2> QED
    BY <1>c, <2>1, <2>2, <2>3
<1>10. CASE TokenFails(t)
  <2>1. FinishRun(w.run, "errored") /\ Goto(t, "tokensettle") /\ w.pc = "token"
        /\ UNCHANGED <<status, resetAt, comments, requests, alive, heard>>
    BY <1>10 DEF TokenFails, RunOf, At
  <2>2. runs' \in Seq(RunRow) /\ Len(runs') = Len(runs)
    BY <1>0, <2>1, FinishRunTypes DEF EndStatus
  <2>3. worker' \in [Tasks -> Worker] /\ WorkerOK'
    BY <1>0, <1>r, <2>1, <2>2, GotoTypes DEF Places, Rowless
  <2> QED
    BY <1>0, <1>b, <2>1, <2>2, <2>3
<1>11. CASE TokenSettle(t)
  <2> DEFINE s == IF w.resume # 0 THEN "resumable" ELSE "queued"
  <2>1. SetTaskStatus(t, s) /\ Goto(t, "done")
        /\ UNCHANGED <<resetAt, runs, comments, requests, alive, heard>>
    BY <1>11 DEF TokenSettle
  <2>2. s \in TaskStatus \cup Missing
    BY DEF TaskStatus
  <2> HIDE DEF s
  <2>3. status' \in [Tasks -> TaskStatus \cup Missing]
    BY <1>0, <2>1, <2>2, SetTaskStatusTypes
  <2>4. worker' \in [Tasks -> Worker] /\ WorkerOK'
    BY <1>0, <2>1, GotoTypes DEF Places, Rowless
  <2> QED
    BY <1>c, <2>1, <2>3, <2>4
<1>12. CASE Begin(t)
  <2> DEFINE row == [runs[w.run] EXCEPT !.status = "running"]
  <2>1. runs' = [runs EXCEPT ![w.run] = row] /\ Goto(t, "invoke") /\ w.pc = "token"
        /\ UNCHANGED <<status, resetAt, comments, requests, alive, heard>>
    BY <1>12 DEF Begin, RunOf, At
  <2>2. w.run \in 1 .. Len(runs)
    BY <1>r, <2>1 DEF Rowless
  <2>3. row \in RunRow
    <3>1. runs[w.run] \in RunRow
      BY <1>0, <2>2
    <3> QED
      BY <3>1 DEF RunRow, ActiveStatus
  <2> HIDE DEF row
  <2>4. runs' \in Seq(RunRow) /\ Len(runs') = Len(runs)
    BY <1>0, <2>1, <2>3, RunFieldTypes
  <2>5. worker' \in [Tasks -> Worker] /\ WorkerOK'
    BY <1>0, <2>1, <2>2, <2>4, GotoTypes DEF Places
  <2> QED
    BY <1>0, <1>b, <2>1, <2>4, <2>5
<1>13. CASE Spawn(t)
  <2>1. alive' = alive \cup {w.run} /\ heard' = heard \cup w.read
        /\ Goto(t, "spawned") /\ w.pc = "invoke" /\ UNCHANGED storeVars
    BY <1>13 DEF Spawn, RunOf, At
  <2>2. w.run \in 1 .. Len(runs) /\ runs' = runs
    BY <1>r, <2>1 DEF Rowless, storeVars
  <2>3. worker' \in [Tasks -> Worker] /\ WorkerOK'
    BY <1>0, <2>1, <2>2, GotoTypes DEF Places
  <2> QED
    BY <1>0, <1>a, <1>w, <2>1, <2>2, <2>3
<1>14. CASE SpawnFails(t)
  <2> DEFINE v == [w EXCEPT !.pc = "exited", !.exit = "error"]
  <2>1. worker' = [worker EXCEPT ![t] = v] /\ w.pc = "invoke"
        /\ UNCHANGED <<storeVars, alive, heard>> /\ runs' = runs
    BY <1>14 DEF SpawnFails, At, storeVars
  <2>2. v \in Worker /\ v.pc = "exited" /\ v.run = w.run
    BY <1>0 DEF Worker, Places, Exits
  <2>3. w.run \in 1 .. Len(runs)
    BY <1>r, <2>1 DEF Rowless
  <2> HIDE DEF v
  <2>4. worker' \in [Tasks -> Worker] /\ WorkerOK'
    <3>1. /\ Len(runs') \in Nat /\ Len(runs') >= Len(runs)
          /\ v.run \in 1 .. Len(runs') /\ v.pc # "finish"
      BY <1>0, <2>1, <2>2, <2>3
    <3> QED
      BY <2>1, <2>2, <3>1, WorkerAssigned
  <2> QED
    BY <1>0, <1>a, <2>1, <2>4
<1>15. CASE RecordPid(t)
  <2> DEFINE row == [runs[w.run] EXCEPT !.pid = TRUE]
  <2>1. runs' = [runs EXCEPT ![w.run] = row] /\ Goto(t, "working") /\ w.pc = "spawned"
        /\ UNCHANGED <<status, resetAt, comments, requests, alive, heard>>
    BY <1>15 DEF RecordPid, RunOf, At
  <2>2. w.run \in 1 .. Len(runs)
    BY <1>r, <2>1 DEF Rowless
  <2>3. row \in RunRow
    <3>1. runs[w.run] \in RunRow
      BY <1>0, <2>2
    <3> QED
      BY <3>1 DEF RunRow
  <2> HIDE DEF row
  <2>4. runs' \in Seq(RunRow) /\ Len(runs') = Len(runs)
    BY <1>0, <2>1, <2>3, RunFieldTypes
  <2>5. worker' \in [Tasks -> Worker] /\ WorkerOK'
    BY <1>0, <2>1, <2>2, <2>4, GotoTypes DEF Places
  <2> QED
    BY <1>0, <1>b, <2>1, <2>4, <2>5
<1>16. CASE SessionInit(t)
  <2> DEFINE row == [runs[w.run] EXCEPT !.session = TRUE]
  <2>1. runs' = [runs EXCEPT ![w.run] = row] /\ w.pc = "working"
        /\ UNCHANGED <<status, resetAt, comments, requests, worker, alive, heard>>
    BY <1>16 DEF SessionInit, RunOf, At
  <2>2. w.run \in 1 .. Len(runs)
    BY <1>r, <2>1 DEF Rowless
  <2>3. row \in RunRow
    <3>1. runs[w.run] \in RunRow
      BY <1>0, <2>2
    <3> QED
      BY <3>1 DEF RunRow
  <2> HIDE DEF row
  <2>4. runs' \in Seq(RunRow) /\ Len(runs') = Len(runs)
    BY <1>0, <2>1, <2>3, RunFieldTypes
  <2>5. worker' \in [Tasks -> Worker] /\ WorkerOK'
    BY <1>0, <2>1, <2>4 DEF RunnerInv, WorkerOK
  <2> QED
    BY <1>0, <1>b, <2>1, <2>4, <2>5
\* The two ways claude is started again in the same run.
<1>d. ASSUME NEW row, NEW v, w.pc = "working", v \in Worker, v.pc = "invoke",
             v.run = w.run, worker' = [worker EXCEPT ![t] = v],
             runs[w.run] \in RunRow => row \in RunRow,
             runs' = [runs EXCEPT ![w.run] = row], alive' = alive \ {w.run},
             UNCHANGED <<status, resetAt, comments, requests, heard>>
      PROVE  RunnerInv'
  <2>1. w.run \in 1 .. Len(runs) /\ runs[w.run] \in RunRow
    BY <1>0, <1>r, <1>d DEF Rowless
  <2>2. runs' \in Seq(RunRow) /\ Len(runs') = Len(runs)
    BY <1>0, <1>d, <2>1, RunFieldTypes
  <2>3. /\ Len(runs') \in Nat /\ Len(runs') >= Len(runs)
        /\ v.run \in 1 .. Len(runs') /\ v.pc # "finish"
    BY <1>0, <1>d, <2>1, <2>2
  <2>4. worker' \in [Tasks -> Worker] /\ WorkerOK'
    BY <1>d, <2>3, WorkerAssigned
  <2> QED
    BY <1>0, <1>b, <1>d, <2>2, <2>4
<1>17. CASE AutoContinue(t)
  <2> DEFINE row == [runs[w.run] EXCEPT !.status = "resuming", !.pid = FALSE]
             v == [w EXCEPT !.pc = "invoke", !.continues = @ + 1]
  <2>1. v \in Worker /\ v.pc = "invoke" /\ v.run = w.run
    <3>1. w.continues + 1 \in Nat /\ "invoke" \in Places
      BY <1>w DEF Places
    <3> QED
      BY <1>0, <3>1 DEF Worker
  <2>2. runs[w.run] \in RunRow => row \in RunRow
    BY DEF RunRow, ActiveStatus
  <2>3. /\ w.pc = "working" /\ worker' = [worker EXCEPT ![t] = v]
        /\ runs' = [runs EXCEPT ![w.run] = row] /\ alive' = alive \ {w.run}
        /\ UNCHANGED <<status, resetAt, comments, requests, heard>>
    BY <1>17 DEF AutoContinue, At, RunOf
  <2> HIDE DEF row, v
  <2> QED
    BY <1>d, <2>1, <2>2, <2>3
<1>18. CASE SessionMissing(t)
  <2> DEFINE row == [runs[w.run] EXCEPT !.session = FALSE, !.status = "running",
                                        !.pid = FALSE]
             v == [w EXCEPT !.pc = "invoke", !.resume = 0, !.continues = 0]
  <2>1. v \in Worker /\ v.pc = "invoke" /\ v.run = w.run
    BY <1>0, <1>w DEF Worker, Places
  <2>2. runs[w.run] \in RunRow => row \in RunRow
    BY DEF RunRow, ActiveStatus
  <2>3. /\ w.pc = "working" /\ worker' = [worker EXCEPT ![t] = v]
        /\ runs' = [runs EXCEPT ![w.run] = row] /\ alive' = alive \ {w.run}
        /\ UNCHANGED <<status, resetAt, comments, requests, heard>>
    BY <1>18 DEF SessionMissing, At, RunOf
  <2> HIDE DEF row, v
  <2> QED
    BY <1>d, <2>1, <2>2, <2>3
<1>19. CASE ClaudeExits(t)
  <2>1. PICK e \in PossibleExits(t) :
           worker' = [worker EXCEPT ![t].pc = "exited", ![t].exit = e]
    BY <1>19 DEF ClaudeExits
  <2> DEFINE v == [w EXCEPT !.pc = "exited", !.exit = e]
  <2>2. /\ worker' = [worker EXCEPT ![t] = v] /\ w.pc = "working"
        /\ alive' = alive \ {w.run} /\ UNCHANGED <<storeVars, heard>> /\ runs' = runs
    BY <1>19, <2>1 DEF ClaudeExits, At, RunOf, storeVars
  <2>3. e \in Exits
    BY DEF PossibleExits, Exits
  <2>4. v \in Worker /\ v.pc = "exited" /\ v.run = w.run
    BY <1>0, <2>3 DEF Worker, Places
  <2>5. w.run \in 1 .. Len(runs)
    BY <1>r, <2>2 DEF Rowless
  <2> HIDE DEF v
  <2>6. /\ Len(runs') \in Nat /\ Len(runs') >= Len(runs)
        /\ v.run \in 1 .. Len(runs') /\ v.pc # "finish"
    BY <1>0, <2>2, <2>4, <2>5
  <2>7. worker' \in [Tasks -> Worker] /\ WorkerOK'
    BY <2>2, <2>4, <2>6, WorkerAssigned
  <2> QED
    BY <1>0, <1>a, <2>2, <2>7
<1>20. CASE Classify(t)
  <2> DEFINE row == [runs[w.run] EXCEPT !.pid = FALSE]
             v == [w EXCEPT !.pc = "finish", !.exit = Outcome(t)]
  <2>1. /\ w.pc = "exited" /\ worker' = [worker EXCEPT ![t] = v]
        /\ runs' = [runs EXCEPT ![w.run] = row]
        /\ UNCHANGED <<status, resetAt, comments, requests, alive, heard>>
    BY <1>20 DEF Classify, At, RunOf
  <2>2. Outcome(t) \in Outcomes
    BY <1>w DEF Outcome, Outcomes, Exits
  <2>3. v \in Worker /\ v.pc = "finish" /\ v.exit \in Outcomes /\ v.run = w.run
    BY <1>0, <2>2 DEF Worker, Places
  <2>4. w.run \in 1 .. Len(runs)
    BY <1>r, <2>1 DEF Rowless
  <2>5. row \in RunRow
    <3>1. runs[w.run] \in RunRow
      BY <1>0, <2>4
    <3> QED
      BY <3>1 DEF RunRow
  <2> HIDE DEF row, v
  <2>6. runs' \in Seq(RunRow) /\ Len(runs') = Len(runs)
    BY <1>0, <2>1, <2>5, RunFieldTypes
  <2>7. /\ Len(runs') \in Nat /\ Len(runs') >= Len(runs)
        /\ v.run \in 1 .. Len(runs')
    BY <1>0, <2>3, <2>4, <2>6
  <2>8. worker' \in [Tasks -> Worker] /\ WorkerOK'
    BY <2>1, <2>3, <2>7, WorkerAssigned
  <2> QED
    BY <1>0, <1>b, <2>1, <2>6, <2>8
<1>21. CASE Finish(t)
  <2> DEFINE pc == IF w.exit \in {"success", "parked"} THEN "consume" ELSE "settle"
             s == RunStatusFor[w.exit]
  <2>1. /\ w.pc = "finish" /\ FinishRun(w.run, s) /\ Goto(t, pc)
        /\ UNCHANGED <<status, resetAt, comments, requests, alive, heard>>
    BY <1>21 DEF Finish, At, RunOf
  <2>2. s \in EndStatus
    BY <1>r, <2>1 DEF RunStatusFor, EndStatus, Outcomes
  <2>3. pc \in Places /\ pc # "finish"
    BY DEF Places
  <2>4. w.run \in 1 .. Len(runs)
    BY <1>r, <2>1 DEF Rowless
  <2> HIDE DEF pc, s
  <2>5. runs' \in Seq(RunRow) /\ Len(runs') = Len(runs)
    BY <1>0, <2>1, <2>2, FinishRunTypes
  <2>6. worker' \in [Tasks -> Worker] /\ WorkerOK'
    BY <1>0, <2>1, <2>3, <2>4, <2>5, GotoTypes
  <2> QED
    BY <1>0, <1>b, <2>1, <2>5, <2>6
<1>22. CASE Consume(t)
  <2>1. MarkCommentsConsumed(t) /\ Goto(t, "settle") /\ w.pc = "consume"
        /\ UNCHANGED <<status, resetAt, runs, requests, alive, heard>>
    BY <1>22 DEF Consume, At
  <2>2. comments' \in Seq(CommentRow)
    BY <1>0, <2>1, MarkCommentsConsumedTypes
  <2>3. worker' \in [Tasks -> Worker] /\ WorkerOK'
    BY <1>0, <1>r, <2>1, GotoTypes DEF Places, Rowless
  <2> QED
    BY <1>0, <2>1, <2>2, <2>3 DEF RunnerInv, RunnerTypeOK, StoreTypeOK
<1>23. CASE Settle(t)
  <2> DEFINE pc == IF w.exit = "answered" THEN "reset" ELSE "done"
             s == TaskStatusFor(t)
  <2>1. /\ w.pc = "settle" /\ SetTaskStatus(t, s) /\ Goto(t, pc)
        /\ UNCHANGED <<resetAt, runs, comments, requests, alive, heard>>
    BY <1>23 DEF Settle, At
  <2>2. s \in TaskStatus \cup Missing
    BY DEF TaskStatusFor, TaskStatusAfterInterruption, TaskStatus
  <2>3. pc \in Places /\ pc # "finish"
    BY DEF Places
  <2>4. w.run \in 1 .. Len(runs)
    BY <1>r, <2>1 DEF Rowless
  <2> HIDE DEF pc, s
  <2>5. status' \in [Tasks -> TaskStatus \cup Missing]
    BY <1>0, <2>1, <2>2, SetTaskStatusTypes
  <2>6. worker' \in [Tasks -> Worker] /\ WorkerOK'
    BY <1>0, <2>1, <2>3, <2>4, GotoTypes
  <2> QED
    BY <1>c, <2>1, <2>5, <2>6
<1>24. CASE ResetAfterAnswer(t)
  <2>1. ResetTaskAttempts(t) /\ Goto(t, "done")
        /\ UNCHANGED <<status, runs, comments, requests, alive, heard>>
    BY <1>24 DEF ResetAfterAnswer
  <2>2. resetAt' \in [Tasks -> Nat]
    BY <1>0, <2>1, ResetTaskAttemptsTypes
  <2>3. worker' \in [Tasks -> Worker] /\ WorkerOK'
    BY <1>0, <2>1, GotoTypes DEF Places, Rowless
  <2> QED
    BY <1>0, <2>1, <2>2, <2>3 DEF RunnerInv, RunnerTypeOK, StoreTypeOK
<1> QED
  BY <1>1, <1>2, <1>3, <1>4, <1>5, <1>6, <1>7, <1>8, <1>9, <1>10, <1>11, <1>12,
     <1>13, <1>14, <1>15, <1>16, <1>17, <1>18, <1>19, <1>20, <1>21, <1>22, <1>23,
     <1>24 DEF RunnerStep

-----------------------------------------------------------------------------
(* The scheduler.                                                          *)

\* An ordering of a finite set is a sequence of its elements.
LEMMA OrderingsAreSequences ==
    ASSUME NEW S, IsFiniteSet(S), NEW o \in Orderings(S)
    PROVE  o \in Seq(S) /\ Len(o) \in Nat /\ DOMAIN o = 1 .. Len(o)
<1>1. Cardinality(S) \in Nat
  BY FS_CardinalityType
<1>2. o \in [1 .. Cardinality(S) -> S]
  BY DEF Orderings
<1> QED
  BY <1>1, <1>2

\* What a query returns for each task of a set is finite.
LEMMA FiniteRows ==
    ASSUME NEW U, U \subseteq Tasks, NEW C, NEW f \in [U -> C]
    PROVE  IsFiniteSet({f[t] : t \in U})
<1> DEFINE T == {f[t] : t \in U}
<1>1. f \in Surjection(U, T)
  BY DEF Surjection
<1>2. IsFiniteSet(U)
  BY StoreAssumption, FS_Subset
<1> QED
  BY <1>1, <1>2, FS_Surjection

LEMMA ResumableRunsTypes ==
    ASSUME resetAt \in [Tasks -> Nat], runs \in Seq(RunRow)
    PROVE  IsFiniteSet(ResumableRuns) /\ ResumableRuns \subseteq Candidate
<1> DEFINE U == {u \in Tasks : /\ status[u] = "resumable"
                               /\ HasSession(LatestRunForTask(u))}
           Row(t) == [task |-> t, resume |-> LatestRunForTask(t),
                      attempt |-> EffectiveAttempt(resetAt[t], LatestRunForTask(t))]
           f == [t \in U |-> Row(t)]
<1>1. \A t \in U : Row(t) \in Candidate
  <2>1. \A t \in Tasks : /\ LatestRunForTask(t) \in Nat
                         /\ EffectiveAttempt(resetAt[t], LatestRunForTask(t)) \in Nat
    BY LatestRunIsRun, EffectiveAttemptTypes
  <2> QED
    BY <2>1 DEF Candidate
<1>2. ResumableRuns = {Row(t) : t \in U}
  BY DEF ResumableRuns
<1> HIDE DEF U, Row
<1>3. f \in [U -> Candidate] /\ ResumableRuns = {f[t] : t \in U}
  BY <1>1, <1>2
<1>4. U \subseteq Tasks
  BY DEF U
<1> HIDE DEF f
<1>5. IsFiniteSet({f[t] : t \in U})
  BY <1>3, <1>4, FiniteRows
<1>6. {f[t] : t \in U} \subseteq Candidate
  BY <1>3
<1> QED
  BY <1>3, <1>5, <1>6

LEMMA QueuedTasksTypes ==
    IsFiniteSet(QueuedTasks) /\ QueuedTasks \subseteq Candidate
<1> DEFINE U == {u \in Tasks : status[u] = "queued"}
           Row(t) == [task |-> t, resume |-> 0, attempt |-> 0]
           f == [t \in U |-> Row(t)]
<1>1. \A t \in U : Row(t) \in Candidate
  BY DEF Candidate
<1>2. QueuedTasks = {Row(t) : t \in U}
  BY DEF QueuedTasks
<1> HIDE DEF U, Row
<1>3. f \in [U -> Candidate] /\ QueuedTasks = {f[t] : t \in U}
  BY <1>1, <1>2
<1>4. U \subseteq Tasks
  BY DEF U
<1> HIDE DEF f
<1> QED
  BY <1>3, <1>4, FiniteRows

\* Starting a worker for a candidate.
LEMMA LaunchTypes ==
    ASSUME RunnerInv, NEW c, c.task \in Tasks, c.resume \in Nat, c.attempt \in Nat,
           NEW manual \in BOOLEAN, Launch(c, manual), runs' = runs
    PROVE  worker' \in [Tasks -> Worker] /\ WorkerOK'
<1> DEFINE w == NewWorker(c, manual)
<1>1. NoWorker \in Worker
  BY DEF NoWorker, Worker, Places, Causes, Exits
<1>2. w \in Worker /\ w.pc = "start"
  <2> DEFINE n == IF c.resume # 0 THEN c.attempt + 1 ELSE 1
             k == IF ~manual /\ mode = "stopping" THEN "shutdown" ELSE "none"
  <2>1. n \in Nat /\ k \in Causes /\ "start" \in Places
    BY DEF Causes, Places
  <2>2. w = [NoWorker EXCEPT !.pc = "start", !.resume = c.resume, !.attempt = n,
                             !.manual = manual, !.cause = k]
    BY DEF NewWorker
  <2> HIDE DEF n, k, w
  <2> QED
    BY <1>1, <2>1, <2>2 DEF Worker
<1> HIDE DEF w
<1>3. CASE worker' = [worker EXCEPT ![c.task] = w]
  <2>1. Len(runs') \in Nat /\ Len(runs') >= Len(runs)
    BY DEF RunnerInv, StoreTypeOK
  <2> QED
    BY <1>2, <1>3, <2>1, WorkerAssigned DEF Rowless
<1>4. CASE worker' = worker
  BY <1>4 DEF RunnerInv, RunnerTypeOK, WorkerOK
<1> QED
  BY <1>3, <1>4 DEF Launch, w

\* Cancelling workers.
LEMMA CancelledTypes ==
    ASSUME NEW w \in Worker, NEW cause \in Causes
    PROVE  /\ Cancelled(w, cause) \in Worker
           /\ Cancelled(w, cause).pc = w.pc
           /\ Cancelled(w, cause).run = w.run
           /\ Cancelled(w, cause).exit = w.exit
BY DEF Cancelled, Worker

LEMMA CancelEveryTypes ==
    ASSUME RunnerInv, NEW S, NEW cause \in Causes, CancelEvery(S, cause),
           runs' = runs
    PROVE  worker' \in [Tasks -> Worker] /\ WorkerOK'
<1>1. worker \in [Tasks -> Worker]
  BY DEF RunnerInv, RunnerTypeOK
<1>2. \A t \in Tasks : /\ worker'[t] \in Worker
                       /\ worker'[t].pc = worker[t].pc
                       /\ worker'[t].run = worker[t].run
                       /\ worker'[t].exit = worker[t].exit
  BY <1>1, CancelledTypes DEF CancelEvery
<1>3. worker' \in [Tasks -> Worker]
  BY <1>2 DEF CancelEvery
<1> QED
  BY <1>2, <1>3 DEF RunnerInv, WorkerOK

LEMMA CancelTypes ==
    ASSUME RunnerInv, NEW t, NEW cause \in Causes, Cancel(t, cause), runs' = runs
    PROVE  worker' \in [Tasks -> Worker] /\ WorkerOK'
<1>1. worker \in [Tasks -> Worker]
  BY DEF RunnerInv, RunnerTypeOK
<1>2. \A u \in Tasks : /\ worker'[u] \in Worker
                       /\ worker'[u].pc = worker[u].pc
                       /\ worker'[u].run = worker[u].run
                       /\ worker'[u].exit = worker[u].exit
  BY <1>1, CancelledTypes DEF Cancel
<1>3. worker' \in [Tasks -> Worker]
  BY <1>1, <1>2 DEF Cancel
<1> QED
  BY <1>2, <1>3 DEF RunnerInv, WorkerOK

\* The row kept for a planned task is one of the plan's candidates.
LEMMA RowForIsCandidate ==
    ASSUME sched.cands \in Seq(Candidate), NEW i \in 1 .. Len(sched.cands)
    PROVE  RowFor(sched.cands[i].task) \in Candidate
<1> DEFINE S == {j \in 1 .. Len(sched.cands) : sched.cands[j].task = sched.cands[i].task}
<1>1. Len(sched.cands) \in Nat /\ S \subseteq 0 .. Len(sched.cands) /\ S # {}
  OBVIOUS
<1>2. \E x \in S : \A y \in S : x >= y
  <2>1. \E x \in S : \A y \in S : y <= x
    BY <1>1, LargestNatural
  <2> QED
    BY <1>1, <2>1
<1>3. Max(S) \in S
  BY <1>2 DEF Max
<1>4. RowFor(sched.cands[i].task) = sched.cands[Max(S)]
  BY DEF RowFor
<1>5. Max(S) \in 1 .. Len(sched.cands)
  BY <1>3
<1>6. \A m \in 1 .. Len(sched.cands) : sched.cands[m] \in Candidate
  OBVIOUS
<1> HIDE DEF S
<1> QED
  BY <1>4, <1>5, <1>6

LEMMA TickStepTypes ==
    ASSUME RunnerInv, SchedulerTypeOK, SchedOK, TickStep
    PROVE  RunnerInv' /\ SchedulerTypeOK' /\ SchedOK' /\ Len(runs') = Len(runs)
           /\ Len(requests') = Len(requests)
<1>0. /\ worker \in [Tasks -> Worker]
      /\ status \in [Tasks -> TaskStatus \cup Missing]
      /\ resetAt \in [Tasks -> Nat]
      /\ runs \in Seq(RunRow)
      /\ comments \in Seq(CommentRow)
      /\ requests \in Seq(RequestRow)
      /\ alive \subseteq 1 .. Len(runs)
      /\ heard \subseteq Nat
      /\ Len(runs) \in Nat
  BY DEF RunnerInv, RunnerTypeOK, StoreTypeOK
<1>1. /\ sched \in Sched
      /\ mode \in {"up", "stopping", "down"}
  BY DEF SchedulerTypeOK
<1>2. /\ sched.list \in Seq(ActiveRun) /\ sched.cands \in Seq(Candidate)
      /\ sched.suspend \in SUBSET Tasks /\ sched.fail \in SUBSET Nat
      /\ sched.launch \in SUBSET Nat /\ Len(sched.cands) \in Nat
      /\ sched.launch \subseteq 1 .. Len(sched.cands)
      /\ sched.pc # "act" => sched.launch = {}
  BY <1>1 DEF Sched, SchedOK
\* The loop moves on and nothing else does.
<1>a. ASSUME UNCHANGED <<storeVars, runnerVars, mode>>, sched' \in Sched, SchedOK'
      PROVE  RunnerInv' /\ SchedulerTypeOK' /\ SchedOK' /\ Len(runs') = Len(runs)
             /\ Len(requests') = Len(requests)
  BY <1>1, <1>a DEF RunnerInv, RunnerTypeOK, StoreTypeOK, WorkerOK, storeVars,
     runnerVars, SchedulerTypeOK
<1>3. CASE ListActiveRuns
  <2>1. PICK o \in Orderings(ActiveRuns) :
           sched' = [sched EXCEPT !.pc = "listed",
                                  !.list = [i \in DOMAIN o |-> Snapshot(o[i])]]
    BY <1>3 DEF ListActiveRuns
  <2> DEFINE list == [i \in DOMAIN o |-> Snapshot(o[i])]
  <2>2. ActiveRuns \subseteq 1 .. Len(runs) /\ IsFiniteSet(1 .. Len(runs))
    BY <1>0, FS_Interval DEF ActiveRuns
  <2>3. o \in Seq(ActiveRuns) /\ Len(o) \in Nat /\ DOMAIN o = 1 .. Len(o)
    BY <2>2, FS_Subset, OrderingsAreSequences
  <2>4. \A r \in ActiveRuns : Snapshot(r) \in ActiveRun
    <3>1. \A r \in ActiveRuns : runs[r] \in RunRow /\ r \in Nat
      BY <1>0, <2>2
    <3> QED
      BY <3>1 DEF Snapshot, ActiveRun, RunRow
  <2>5. list \in [1 .. Len(o) -> ActiveRun]
    <3> HIDE DEF list
    <3>1. \A i \in 1 .. Len(o) : o[i] \in ActiveRuns
      BY <2>3
    <3> QED
      BY <2>3, <2>4, <3>1 DEF list
  <2> HIDE DEF list
  <2>6. list \in Seq(ActiveRun)
    BY <2>3, <2>5
  <2>7. sched' = [sched EXCEPT !.pc = "listed", !.list = list]
    BY <2>1 DEF list
  <2>8. sched' \in Sched /\ sched'.pc = "listed" /\ sched'.launch = sched.launch
        /\ sched'.cands = sched.cands
    BY <1>1, <2>6, <2>7 DEF Sched, Stages
  <2>9. SchedOK'
    BY <1>2, <1>3, <2>8 DEF SchedOK, ListActiveRuns
  <2> QED
    BY <1>3, <1>a, <2>8, <2>9 DEF ListActiveRuns
<1>4. CASE LockForReconcile
  <2>1. sched' = [sched EXCEPT !.pc = "burying"] /\ UNCHANGED <<storeVars, runnerVars, mode>>
    BY <1>4 DEF LockForReconcile, Step
  <2>2. sched' \in Sched /\ SchedOK'
    BY <1>1, <1>2, <1>4, <2>1 DEF Sched, Stages, SchedOK, LockForReconcile
  <2> QED
    BY <1>a, <2>1, <2>2
<1>5. CASE SkipTracked
  <2>1. /\ sched' = [sched EXCEPT !.list = Tail(@)] /\ sched.list # <<>>
        /\ sched.pc = "burying" /\ UNCHANGED <<storeVars, runnerVars, mode>>
    BY <1>5 DEF SkipTracked
  <2>2. Tail(sched.list) \in Seq(ActiveRun)
    BY <1>2, <2>1
  <2>3. sched' \in Sched /\ SchedOK'
    BY <1>1, <1>2, <2>1, <2>2 DEF Sched, Stages, SchedOK
  <2> QED
    BY <1>a, <2>1, <2>3
<1>6. CASE UnlockToKill
  <2>1. sched' = [sched EXCEPT !.pc = "killing"] /\ sched.list # <<>>
        /\ UNCHANGED <<storeVars, runnerVars, mode>>
    BY <1>6 DEF UnlockToKill, Step
  <2>2. sched' \in Sched /\ SchedOK'
    BY <1>1, <1>2, <1>6, <2>1 DEF Sched, Stages, SchedOK, UnlockToKill
  <2> QED
    BY <1>a, <2>1, <2>2
\* A row is closed and the loop goes on to settle its task.
<1>b. ASSUME FinishRun(Found.id, "errored"), Step("settling"), sched.list # <<>>,
             sched.pc \in {"burying", "killing"},
             alive' \subseteq alive,
             UNCHANGED <<status, resetAt, comments, requests, worker, heard, mode>>
      PROVE  RunnerInv' /\ SchedulerTypeOK' /\ SchedOK' /\ Len(runs') = Len(runs)
             /\ Len(requests') = Len(requests)
  <2>1. runs' \in Seq(RunRow) /\ Len(runs') = Len(runs)
    BY <1>0, <1>b, FinishRunTypes DEF EndStatus
  <2>2. WorkerOK'
    BY <1>b, <2>1 DEF RunnerInv, WorkerOK
  <2>3. sched' \in Sched /\ SchedOK'
    BY <1>1, <1>2, <1>b DEF Sched, Stages, SchedOK, Step
  <2> QED
    BY <1>0, <1>1, <1>b, <2>1, <2>2, <2>3
    DEF RunnerInv, RunnerTypeOK, StoreTypeOK, SchedulerTypeOK
<1>7. CASE KillOrphan
  BY <1>7, <1>b DEF KillOrphan, SchedOK
<1>8. CASE BuryRun
  BY <1>8, <1>b DEF BuryRun, runnerVars
<1>9. CASE SettleBuried
  <2>1. /\ SetTaskStatus(Found.task, TaskStatusAfterInterruption(Found.session))
        /\ sched' = [sched EXCEPT !.pc = "burying", !.list = Tail(@)]
        /\ sched.pc = "settling"
        /\ UNCHANGED <<resetAt, runs, comments, requests, runnerVars, mode>>
    BY <1>9 DEF SettleBuried
  <2>2. TaskStatusAfterInterruption(Found.session) \in TaskStatus \cup Missing
    BY DEF TaskStatusAfterInterruption, TaskStatus
  <2>3. status' \in [Tasks -> TaskStatus \cup Missing]
    BY <1>0, <2>1, <2>2, SetTaskStatusTypes
  <2>4. Tail(sched.list) \in Seq(ActiveRun)
    BY <1>2, <2>1 DEF SchedOK
  <2>5. sched' \in Sched /\ SchedOK'
    BY <1>1, <1>2, <2>1, <2>4 DEF Sched, Stages, SchedOK
  <2> QED
    BY <1>0, <1>1, <2>1, <2>3, <2>5
    DEF RunnerInv, RunnerTypeOK, StoreTypeOK, WorkerOK, runnerVars, SchedulerTypeOK
<1>10. CASE UnlockReconciled
  <2>1. sched' = [sched EXCEPT !.pc = "fetch"] /\ UNCHANGED <<storeVars, runnerVars, mode>>
    BY <1>10 DEF UnlockReconciled, Step
  <2>2. sched' \in Sched /\ SchedOK'
    BY <1>1, <1>2, <1>10, <2>1 DEF Sched, Stages, SchedOK, UnlockReconciled
  <2> QED
    BY <1>a, <2>1, <2>2
<1>11. CASE FetchResumable
  <2>1. PICK o \in Orderings(ResumableRuns) :
           sched' = [sched EXCEPT !.pc = "fetchqueued", !.cands = o]
    BY <1>11 DEF FetchResumable
  <2>2. o \in Seq(Candidate)
    BY <1>0, ResumableRunsTypes, OrderingsAreSequences
  <2>3. sched' \in Sched /\ SchedOK'
    BY <1>1, <1>2, <1>11, <2>1, <2>2 DEF Sched, Stages, SchedOK, FetchResumable
  <2> QED
    BY <1>11, <1>a, <2>3 DEF FetchResumable
<1>12. CASE FetchQueued
  <2>1. PICK o \in Orderings(QueuedTasks) :
           sched' = [sched EXCEPT !.pc = "decide", !.cands = @ \o o]
    BY <1>12 DEF FetchQueued
  <2>2. o \in Seq(Candidate)
    BY <1>0, QueuedTasksTypes, OrderingsAreSequences
  <2>3. sched.cands \o o \in Seq(Candidate)
    BY <1>2, <2>2
  <2>4. sched' \in Sched /\ SchedOK'
    BY <1>1, <1>2, <1>12, <2>1, <2>3 DEF Sched, Stages, SchedOK, FetchQueued
  <2> QED
    BY <1>12, <1>a, <2>4 DEF FetchQueued
<1>13. CASE Decide
  <2>1. PICK gate \in Gates :
           sched' = [sched EXCEPT
                      !.pc = "act",
                      !.suspend = Suspends(Inflight, gate),
                      !.fail = Failures(sched.cands, Inflight),
                      !.launch = Launches(sched.cands, Inflight, {}, gate)]
    BY <1>13 DEF Decide
  <2>2. Suspends(Inflight, gate) \in SUBSET Tasks
    BY DEF Suspends, Inflight
  <2>3. Failures(sched.cands, Inflight) \in SUBSET Nat
    BY <1>2 DEF Failures
  <2>4. /\ Launches(sched.cands, Inflight, {}, gate) \in SUBSET Nat
        /\ Launches(sched.cands, Inflight, {}, gate) \subseteq 1 .. Len(sched.cands)
    BY <1>2 DEF Launches, Scheduled, ByHand
  <2>5. sched' \in Sched /\ SchedOK'
    BY <1>1, <2>1, <2>2, <2>3, <2>4 DEF Sched, Stages, SchedOK
  <2> QED
    BY <1>13, <1>a, <2>5 DEF Decide
<1>14. CASE Suspend
  <2>1. PICK t \in sched.suspend :
           Cancel(t, "suspended") /\ sched' = [sched EXCEPT !.suspend = @ \ {t}]
    BY <1>14 DEF Suspend
  <2>2. runs' = runs /\ UNCHANGED <<storeVars, alive, heard, mode>>
    BY <1>14 DEF Suspend, storeVars
  <2>3. worker' \in [Tasks -> Worker] /\ WorkerOK'
    BY <2>1, <2>2, CancelTypes DEF Causes
  <2>4. sched' \in Sched /\ SchedOK'
    BY <1>1, <1>2, <2>1 DEF Sched, SchedOK
  <2> QED
    BY <1>0, <1>1, <2>2, <2>3, <2>4
    DEF RunnerInv, RunnerTypeOK, StoreTypeOK, storeVars, SchedulerTypeOK
<1>15. CASE Fail
  <2>1. PICK i \in sched.fail :
           /\ SetTaskStatus(sched.cands[i].task, "failed")
           /\ sched' = [sched EXCEPT !.fail = @ \ {i}]
    BY <1>15 DEF Fail
  <2>2. UNCHANGED <<resetAt, runs, comments, requests, runnerVars, mode>>
    BY <1>15 DEF Fail
  <2>3. status' \in [Tasks -> TaskStatus \cup Missing]
    BY <1>0, <2>1, SetTaskStatusTypes DEF TaskStatus
  <2>4. sched' \in Sched /\ SchedOK'
    BY <1>1, <1>2, <2>1 DEF Sched, SchedOK
  <2> QED
    BY <1>0, <1>1, <2>2, <2>3, <2>4
    DEF RunnerInv, RunnerTypeOK, StoreTypeOK, WorkerOK, runnerVars, SchedulerTypeOK
<1>16. CASE LaunchPlanned
  <2>1. PICK i \in sched.launch :
           /\ Launch(RowFor(sched.cands[i].task), FALSE)
           /\ sched' = [sched EXCEPT !.launch = @ \ {i}]
    BY <1>16 DEF LaunchPlanned
  <2>2. runs' = runs /\ UNCHANGED <<storeVars, alive, heard, mode>>
    BY <1>16 DEF LaunchPlanned, storeVars
  <2>3. RowFor(sched.cands[i].task) \in Candidate
    BY <1>2, <2>1, RowForIsCandidate
  <2>4. worker' \in [Tasks -> Worker] /\ WorkerOK'
    BY <2>1, <2>2, <2>3, LaunchTypes DEF Candidate
  <2>5. sched' \in Sched /\ SchedOK'
    BY <1>1, <1>2, <2>1 DEF Sched, SchedOK
  <2> QED
    BY <1>0, <1>1, <2>2, <2>4, <2>5
    DEF RunnerInv, RunnerTypeOK, StoreTypeOK, storeVars, SchedulerTypeOK
<1>17. CASE EndTick
  <2>1. Resting \in Sched
    BY DEF Resting, Sched, Stages
  <2>2. sched' \in Sched /\ SchedOK'
    BY <1>17, <2>1 DEF EndTick, SchedOK, Resting
  <2> QED
    BY <1>17, <1>a, <2>2 DEF EndTick
<1> QED
  BY <1>3, <1>4, <1>5, <1>6, <1>7, <1>8, <1>9, <1>10, <1>11, <1>12, <1>13, <1>14,
     <1>15, <1>16, <1>17 DEF TickStep

-----------------------------------------------------------------------------
(* The user's requests.                                                    *)

\* A handler's record is well typed, so its next one is.
LEMMA OpAssigned ==
    ASSUME ServicesInv, NEW c \in Clients, NEW o \in GoodOps, op' = [op EXCEPT ![c] = o]
    PROVE  ServicesInv'
BY DEF ServicesInv

LEMMA NoOpTypes == NoOp \in GoodOps
BY DEF NoOp, GoodOps, Op, OpPlaces, Writable, TaskStatus, RequestStatus

LEMMA UserBeginsTypes ==
    ASSUME RunnerInv, ServicesInv, NEW c \in Clients, UserBegins(c)
    PROVE  /\ RunnerInv' /\ ServicesInv'
           /\ Len(runs') = Len(runs) /\ Len(requests') = Len(requests)
           /\ UNCHANGED <<alive, schedulerVars>>
<1>0. /\ status \in [Tasks -> TaskStatus \cup Missing]
      /\ resetAt \in [Tasks -> Nat]
      /\ runs \in Seq(RunRow)
      /\ NoOp \in GoodOps
  BY NoOpTypes DEF RunnerInv, StoreTypeOK
\* A request that only begins.
<1>a. ASSUME NEW next \in GoodOps, Begins(c, next)
      PROVE  /\ RunnerInv' /\ ServicesInv'
             /\ Len(runs') = Len(runs) /\ Len(requests') = Len(requests)
             /\ UNCHANGED <<alive, schedulerVars>>
  <2>1. ServicesInv'
    BY <1>a, OpAssigned DEF Begins
  <2> QED
    BY <1>a, <2>1 DEF Begins, Elsewhere, storeVars, RunnerInv, StoreTypeOK,
       RunnerTypeOK, WorkerOK
<1>b. "queued" \in Writable /\ "resumable" \in Writable /\ "paused" \in Writable
      /\ UserTargets \subseteq Writable
  BY DEF Writable, TaskStatus, UserTargets
<1>1. ASSUME NEW t \in Tasks, CreateTask(c, t)
      PROVE  /\ RunnerInv' /\ ServicesInv'
             /\ Len(runs') = Len(runs) /\ Len(requests') = Len(requests)
             /\ UNCHANGED <<alive, schedulerVars>>
  <2>1. status' \in [Tasks -> TaskStatus \cup Missing]
    BY <1>0, <1>1 DEF CreateTask, TaskStatus
  <2> QED
    BY <1>1, <2>1 DEF CreateTask, Elsewhere, RunnerInv, StoreTypeOK, RunnerTypeOK,
       WorkerOK, ServicesInv
<1>2. ASSUME NEW t \in Tasks, EditTask(c, t)
      PROVE  /\ RunnerInv' /\ ServicesInv'
             /\ Len(runs') = Len(runs) /\ Len(requests') = Len(requests)
             /\ UNCHANGED <<alive, schedulerVars>>
  <2>1. resetAt' \in [Tasks -> Nat]
    BY <1>0, <1>2, ResetTaskAttemptsTypes DEF EditTask
  <2> QED
    BY <1>2, <2>1 DEF EditTask, Elsewhere, RunnerInv, StoreTypeOK, RunnerTypeOK,
       WorkerOK, ServicesInv
<1>3. ASSUME NEW t \in Tasks,
             DeleteChecks(c, t) \/ PauseChecks(c, t) \/ ResumeChecks(c, t)
                 \/ CommentChecks(c, t)
      PROVE  \E next \in GoodOps : Begins(c, next)
  <2>1. CASE DeleteChecks(c, t)
    <3>1. [NoOp EXCEPT !.at = "delete", !.task = t] \in GoodOps
      BY <1>0 DEF GoodOps, Op, OpPlaces, Writable
    <3> QED
      BY <2>1, <3>1 DEF DeleteChecks
  <2>2. CASE PauseChecks(c, t)
    <3>1. [NoOp EXCEPT !.at = "write", !.task = t, !.to = "paused"] \in GoodOps
      BY <1>0, <1>b DEF GoodOps, Op, OpPlaces, Writable
    <3> QED
      BY <2>2, <3>1 DEF PauseChecks
  <2>3. CASE ResumeChecks(c, t)
    <3> DEFINE s == IF Interrupted(LatestRunForTask(t)) THEN "resumable" ELSE "queued"
    <3>1. s \in Writable
      BY <1>b
    <3>2. Begins(c, [NoOp EXCEPT !.at = "write", !.task = t, !.reset = TRUE, !.to = s])
      BY <2>3 DEF ResumeChecks
    <3> HIDE DEF s
    <3>3. [NoOp EXCEPT !.at = "write", !.task = t, !.reset = TRUE, !.to = s] \in GoodOps
      BY <1>0, <3>1 DEF GoodOps, Op, OpPlaces, Writable
    <3> QED
      BY <3>2, <3>3
  <2>4. CASE CommentChecks(c, t)
    <3> DEFINE b == status[t] # "backlog"
    <3>1. b \in BOOLEAN
      OBVIOUS
    <3>2. Begins(c, [NoOp EXCEPT !.at = "comment", !.task = t, !.reset = b])
      BY <2>4 DEF CommentChecks
    <3> HIDE DEF b
    <3>3. [NoOp EXCEPT !.at = "comment", !.task = t, !.reset = b] \in GoodOps
      BY <1>0, <3>1 DEF GoodOps, Op, OpPlaces, Writable
    <3> QED
      BY <3>2, <3>3
  <2> QED
    BY <1>3, <2>1, <2>2, <2>3, <2>4
<1>4. ASSUME NEW t \in Tasks, SetChecks(c, t)
      PROVE  \E next \in GoodOps : Begins(c, next)
  <2>1. PICK s \in UserTargets :
          LET session == HasSession(LatestRunForTask(t))
              final == IF s = "queued" /\ status[t] = "backlog" /\ session
                       THEN "resumable" ELSE s
          IN  Begins(c, [NoOp EXCEPT
                    !.at = IF s \in {"done", "dismissed"} THEN "retire" ELSE "write",
                    !.task = t, !.to = final, !.reset = final \in Schedulable])
    BY <1>4 DEF SetChecks
  <2> DEFINE final == IF s = "queued" /\ status[t] = "backlog"
                            /\ HasSession(LatestRunForTask(t))
                      THEN "resumable" ELSE s
             at == IF s \in {"done", "dismissed"} THEN "retire" ELSE "write"
             b == final \in Schedulable
  <2>2. final \in Writable /\ at \in {"retire", "write"} /\ b \in BOOLEAN
    BY <1>b
  <2>3. Begins(c, [NoOp EXCEPT !.at = at, !.task = t, !.to = final, !.reset = b])
    BY <2>1
  <2> HIDE DEF final, at, b
  <2>4. [NoOp EXCEPT !.at = at, !.task = t, !.to = final, !.reset = b] \in GoodOps
    BY <1>0, <2>2 DEF GoodOps, Op, OpPlaces, Writable
  <2> QED
    BY <2>3, <2>4
<1>5. ASSUME NEW t \in Tasks, RunNowChecks(c, t)
      PROVE  \E next \in GoodOps : Begins(c, next)
  <2>1. PICK k \in ResumableRuns \cup QueuedTasks :
          Begins(c, [NoOp EXCEPT !.at = "launch", !.task = t,
                                 !.id = k.resume, !.attempt = k.attempt])
    BY <1>5 DEF RunNowChecks
  <2>2. k \in Candidate
    BY <1>0, ResumableRunsTypes, QueuedTasksTypes
  <2>3. [NoOp EXCEPT !.at = "launch", !.task = t, !.id = k.resume,
                     !.attempt = k.attempt] \in GoodOps
    BY <1>0, <2>2 DEF GoodOps, Op, OpPlaces, Writable, Candidate
  <2> QED
    BY <2>1, <2>3
<1>6. ASSUME NEW r \in 1 .. Len(runs), CancelChecks(c, r)
      PROVE  \E next \in GoodOps : Begins(c, next)
  <2>1. runs[r] \in RunRow /\ r \in Nat
    BY <1>0
  <2>2. runs[r].task \in Tasks
    BY <2>1 DEF RunRow
  <2>3. [NoOp EXCEPT !.at = "signal", !.task = runs[r].task, !.id = r] \in GoodOps
    BY <1>0, <2>1, <2>2 DEF GoodOps, Op, OpPlaces, Writable
  <2> QED
    BY <1>6, <2>3 DEF CancelChecks
<1> QED
  BY <1>a, <1>1, <1>2, <1>3, <1>4, <1>5, <1>6 DEF UserBegins

\* What a handler's step leaves behind.
HandlerEffect ==
    /\ RunnerInv' /\ ServicesInv'
    /\ Len(runs') = Len(runs) /\ Len(requests') = Len(requests)
    /\ UNCHANGED <<alive, schedulerVars>>

LEMMA HandlerStepTypes ==
    ASSUME RunnerInv, ServicesInv, NEW c \in Clients, HandlerStep(c)
    PROVE  HandlerEffect
<1> DEFINE o == op[c]
<1>0. /\ status \in [Tasks -> TaskStatus \cup Missing]
      /\ resetAt \in [Tasks -> Nat]
      /\ runs \in Seq(RunRow)
      /\ comments \in Seq(CommentRow)
      /\ requests \in Seq(RequestRow)
      /\ NoOp \in GoodOps
  BY NoOpTypes DEF RunnerInv, StoreTypeOK
<1>1. o \in GoodOps
  BY DEF ServicesInv
<1>2. /\ o.id \in Nat /\ o.attempt \in Nat /\ o.comment \in Nat
      /\ o.at # "idle" => o.task \in Tasks
      /\ o.at \in {"write", "retire"} => o.to \in Writable
  BY <1>1 DEF GoodOps, Op
<1>a. ASSUME NEW next \in GoodOps, op' = [op EXCEPT ![c] = next]
      PROVE  ServicesInv'
  BY <1>a, OpAssigned
<1>b. "queued" \in Writable /\ "resumable" \in Writable /\ "paused" \in Writable
  BY DEF Writable, TaskStatus
<1>3. CASE DeletesRow(c)
  <2>1. status' \in [Tasks -> TaskStatus \cup Missing]
    BY <1>0, <1>3 DEF DeletesRow, Missing
  <2>2. ServicesInv'
    BY <1>0, <1>3, <1>a DEF DeletesRow, Answered
  <2> QED
    BY <1>3, <2>1, <2>2 DEF HandlerEffect, DeletesRow, Elsewhere, RunnerInv,
       StoreTypeOK, RunnerTypeOK, WorkerOK
<1>4. CASE RetiresRequests(c)
  <2>1. requests' \in Seq(RequestRow) /\ Len(requests') = Len(requests)
    BY <1>0, <1>4, CancelTaskRequestsTypes DEF RetiresRequests
  <2>2. [o EXCEPT !.at = "write"] \in GoodOps
    BY <1>1, <1>2, <1>4 DEF GoodOps, Op, OpPlaces, Writable, RetiresRequests, OpAt
  <2>3. op' = [op EXCEPT ![c] = [o EXCEPT !.at = "write"]]
    BY <1>4 DEF RetiresRequests
  <2>4. ServicesInv'
    BY <1>a, <2>2, <2>3
  <2> QED
    BY <1>4, <2>1, <2>4 DEF HandlerEffect, RetiresRequests, Elsewhere, RunnerInv,
       StoreTypeOK, RunnerTypeOK, WorkerOK
<1>5. CASE WritesStatus(c)
  <2>1. o.to \in Writable /\ o.task \in Tasks
    BY <1>2, <1>5 DEF WritesStatus, OpAt
  <2>2. status' \in [Tasks -> TaskStatus \cup Missing]
    BY <1>0, <1>5, <2>1, SetTaskStatusTypes DEF WritesStatus, Writable
  <2>3. [NoOp EXCEPT !.at = "reset", !.task = o.task] \in GoodOps
    BY <1>0, <2>1 DEF GoodOps, Op, OpPlaces, Writable
  <2>4. ServicesInv'
    <3>1. CASE o.reset
      BY <1>5, <1>a, <2>3, <3>1 DEF WritesStatus
    <3>2. CASE ~o.reset
      BY <1>0, <1>5, <1>a, <3>2 DEF WritesStatus
    <3> QED
      BY <3>1, <3>2
  <2> QED
    BY <1>5, <2>2, <2>4 DEF HandlerEffect, WritesStatus, Elsewhere, RunnerInv,
       StoreTypeOK, RunnerTypeOK, WorkerOK
<1>6. CASE ForgetsAttempts(c)
  <2>1. resetAt' \in [Tasks -> Nat]
    BY <1>0, <1>6, ResetTaskAttemptsTypes DEF ForgetsAttempts
  <2>2. ServicesInv'
    BY <1>0, <1>6, <1>a DEF ForgetsAttempts, Answered
  <2> QED
    BY <1>6, <2>1, <2>2 DEF HandlerEffect, ForgetsAttempts, Elsewhere, RunnerInv,
       StoreTypeOK, RunnerTypeOK, WorkerOK
<1>7. CASE InsertsComment(c)
  <2> DEFINE s == IF Interrupted(LatestRunForTask(o.task)) THEN "resumable" ELSE "queued"
             next == [NoOp EXCEPT !.at = "write", !.task = o.task, !.reset = TRUE,
                                  !.to = s]
  <2>1. o.task \in Tasks
    BY <1>2, <1>7 DEF InsertsComment, OpAt
  <2>2. s \in Writable
    BY <1>b
  <2>3. op' = [op EXCEPT ![c] = next] \/ op' = [op EXCEPT ![c] = NoOp]
    BY <1>7 DEF InsertsComment
  <2>4. comments' \in Seq(CommentRow)
    <3>1. [task |-> o.task, consumed |-> FALSE] \in CommentRow
      BY <2>1 DEF CommentRow
    <3> QED
      BY <1>0, <1>7, <3>1 DEF InsertsComment
  <2> HIDE DEF s
  <2>5. next \in GoodOps
    BY <1>0, <2>1, <2>2 DEF GoodOps, Op, OpPlaces, Writable
  <2>6. ServicesInv'
    BY <1>0, <1>a, <2>3, <2>5
  <2> QED
    BY <1>7, <2>4, <2>6 DEF HandlerEffect, InsertsComment, Elsewhere, RunnerInv,
       StoreTypeOK, RunnerTypeOK, WorkerOK
<1>8. CASE RunNowLaunches(c)
  <2> DEFINE k == [task |-> o.task, resume |-> o.id, attempt |-> o.attempt]
  <2>1. Launch(k, TRUE) \/ worker' = worker
    BY <1>8 DEF RunNowLaunches
  <2>2. runs' = runs /\ UNCHANGED <<storeVars, Elsewhere>>
    BY <1>8 DEF RunNowLaunches, storeVars
  <2>3. o.task \in Tasks
    BY <1>2, <1>8 DEF RunNowLaunches, OpAt
  <2>4. k.task \in Tasks /\ k.resume \in Nat /\ k.attempt \in Nat
    BY <1>2, <2>3
  <2>5. worker' \in [Tasks -> Worker] /\ WorkerOK'
    <3>1. CASE Launch(k, TRUE)
      <4> HIDE DEF k
      <4> QED
        BY <2>2, <2>4, <3>1, LaunchTypes
    <3>2. CASE worker' = worker
      BY <2>2, <3>2 DEF RunnerInv, RunnerTypeOK, WorkerOK
    <3> QED
      BY <2>1, <3>1, <3>2
  <2>6. ServicesInv'
    BY <1>0, <1>8, <1>a DEF RunNowLaunches, Answered
  <2> QED
    BY <2>2, <2>5, <2>6 DEF HandlerEffect, Elsewhere, storeVars, RunnerInv,
       StoreTypeOK, RunnerTypeOK
<1>9. CASE CancelSignals(c)
  <2>1. Cancel(o.task, "cancelled") /\ runs' = runs /\ UNCHANGED <<storeVars, Elsewhere>>
    BY <1>9 DEF CancelSignals, storeVars
  <2>2. worker' \in [Tasks -> Worker] /\ WorkerOK'
    BY <2>1, CancelTypes DEF Causes
  <2>3. o.at = "signal" /\ o.task \in Tasks
    BY <1>2, <1>9 DEF CancelSignals, OpAt
  <2>4. [o EXCEPT !.at = "abandon"] \in GoodOps
    BY <1>1, <2>3 DEF GoodOps, Op, OpPlaces, Writable
  <2>5. op' = [op EXCEPT ![c] = NoOp] \/ op' = [op EXCEPT ![c] = [o EXCEPT !.at = "abandon"]]
    BY <1>9 DEF CancelSignals
  <2>6. ServicesInv'
    BY <1>0, <1>a, <2>4, <2>5
  <2> QED
    BY <2>1, <2>2, <2>6 DEF HandlerEffect, Elsewhere, storeVars, RunnerInv,
       StoreTypeOK, RunnerTypeOK
<1>10. CASE CancelAbandons(c)
  <2>1. runs' \in Seq(RunRow) /\ Len(runs') = Len(runs)
    BY <1>0, <1>10, FinishRunTypes DEF CancelAbandons, EndStatus
  <2>2. o.task \in Tasks
    BY <1>2, <1>10 DEF CancelAbandons, OpAt
  <2>3. [NoOp EXCEPT !.at = "write", !.task = o.task, !.to = "paused"] \in GoodOps
    BY <1>0, <1>b, <2>2 DEF GoodOps, Op, OpPlaces, Writable
  <2>4. ServicesInv'
    BY <1>10, <1>a, <2>3 DEF CancelAbandons
  <2> QED
    BY <1>10, <2>1, <2>4 DEF HandlerEffect, CancelAbandons, Elsewhere, RunnerInv,
       StoreTypeOK, RunnerTypeOK, WorkerOK
<1> QED
  BY <1>3, <1>4, <1>5, <1>6, <1>7, <1>8, <1>9, <1>10 DEF HandlerStep
=============================================================================
