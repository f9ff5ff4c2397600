---------------------------- MODULE DaemonProofs ----------------------------
(***************************************************************************)
(* The whole daemon: TypeOK and WorkerCap hold of every behaviour, for any *)
(* tasks, clients, worker budget, attempt cap, faults and bounds.          *)
(***************************************************************************)
EXTENDS Correctness, DaemonTypes, FiniteSetTheorems

-----------------------------------------------------------------------------
(* The human loop.                                                         *)

HumanOK == HumanTypeOK /\ CallOK

\* One agent's call changes, and no request disappears.
LEMMA CallAssigned ==
    ASSUME HumanOK, requests \in Seq(RequestRow), NEW r \in 1 .. MaxRuns, NEW k \in Calls,
           call' = [call EXCEPT ![r] = k], told' \subseteq Nat,
           Len(requests') \in Nat, Len(requests') >= Len(requests),
           k.at # "none" => k.req \in 1 .. Len(requests')
    PROVE  HumanOK'
<1>1. call \in [1 .. MaxRuns -> Calls] /\ Len(requests) \in Nat
  BY DEF HumanOK, HumanTypeOK
<1>2. call' \in [1 .. MaxRuns -> Calls]
  BY <1>1
<1>3. ASSUME NEW u \in 1 .. MaxRuns, call'[u].at # "none"
      PROVE  call'[u].req \in 1 .. Len(requests')
  <2>1. CASE u = r
    BY <1>1, <1>3, <2>1
  <2>2. CASE u # r
    <3>1. call'[u] = call[u]
      BY <1>1, <2>2
    <3>2. call[u].req \in 1 .. Len(requests)
      BY <1>3, <3>1 DEF HumanOK, CallOK
    <3> QED
      BY <1>1, <3>1, <3>2
  <2> QED
    BY <2>1, <2>2
<1> QED
  BY <1>2, <1>3 DEF HumanOK, HumanTypeOK, CallOK

LEMMA NoCallTypes == NoCall \in Calls /\ NoCall.at = "none"
BY DEF NoCall, Calls

\* What a step of an agent's call leaves behind.
CallEffect ==
    /\ RunnerInv' /\ HumanOK'
    /\ UNCHANGED <<runs, runnerVars, schedulerVars, op>>

LEMMA AskTypes ==
    ASSUME RunnerInv, HumanOK, NEW r \in 1 .. MaxRuns, Ask(r) \/ AskAgain(r)
    PROVE  CallEffect
<1>0. /\ runs \in Seq(RunRow) /\ requests \in Seq(RequestRow)
      /\ alive \subseteq 1 .. Len(runs) /\ told \subseteq Nat
  BY DEF RunnerInv, StoreTypeOK, RunnerTypeOK, HumanOK, HumanTypeOK
<1>1. CASE Ask(r)
  <2> DEFINE k == [NoCall EXCEPT !.at = "check", !.req = Len(requests) + 1]
  <2>1. /\ r \in alive /\ CreateHumanRequest(runs[r].task, r)
        /\ call' = [call EXCEPT ![r] = k] /\ told' = told
    BY <1>1 DEF Ask
  <2>2. runs[r] \in RunRow /\ r \in Nat
    BY <1>0, <2>1
  <2>3. runs[r].task \in Tasks
    BY <2>2 DEF RunRow
  <2>4. requests' \in Seq(RequestRow) /\ Len(requests') = Len(requests) + 1
    BY <1>0, <2>1, <2>2, <2>3, CreateHumanRequestTypes
  <2>5. k \in Calls /\ k.at = "check" /\ k.req = Len(requests) + 1
    <3>1. Len(requests) + 1 \in Nat /\ NoCall \in Calls
      BY <1>0, NoCallTypes
    <3> QED
      BY <3>1 DEF Calls
  <2> HIDE DEF k
  <2>6. /\ Len(requests') \in Nat /\ Len(requests') >= Len(requests)
        /\ k.req \in 1 .. Len(requests') /\ told' \subseteq Nat
    BY <1>0, <2>1, <2>4, <2>5
  <2>7. HumanOK'
    BY <1>0, <2>1, <2>5, <2>6, CallAssigned
  <2> QED
    BY <1>1, <2>4, <2>7 DEF CallEffect, Ask, RunnerInv, StoreTypeOK, RunnerTypeOK,
       WorkerOK, runnerVars
<1>2. CASE AskAgain(r)
  <2>1. PICK q \in 1 .. Len(requests) :
          call' = [call EXCEPT ![r] = [NoCall EXCEPT !.at = "check", !.req = q]]
    BY <1>2 DEF AskAgain
  <2> DEFINE k == [NoCall EXCEPT !.at = "check", !.req = q]
  <2>2. k \in Calls /\ k.req = q
    <3>1. q \in Nat /\ NoCall \in Calls
      BY <1>0, <2>1, NoCallTypes
    <3> QED
      BY <3>1 DEF Calls
  <2>3. requests' = requests /\ told' = told
    BY <1>2 DEF AskAgain, storeVars
  <2>4. call' = [call EXCEPT ![r] = k]
    BY <2>1
  <2> HIDE DEF k
  <2>5. /\ Len(requests') \in Nat /\ Len(requests') >= Len(requests)
        /\ k.req \in 1 .. Len(requests') /\ told' \subseteq Nat
    BY <1>0, <2>1, <2>2, <2>3
  <2>6. HumanOK'
    BY <1>0, <2>2, <2>4, <2>5, CallAssigned
  <2> QED
    BY <1>2, <2>6 DEF CallEffect, AskAgain, RunnerInv, StoreTypeOK, RunnerTypeOK,
       WorkerOK, runnerVars, storeVars
<1> QED
  BY <1>1, <1>2

LEMMA CallStepTypes ==
    ASSUME RunnerInv, HumanOK, NEW r \in 1 .. MaxRuns, CallStep(r)
    PROVE  CallEffect
<1> DEFINE k == call[r]
<1>0. /\ runs \in Seq(RunRow) /\ requests \in Seq(RequestRow) /\ told \subseteq Nat
      /\ Len(requests) \in Nat
      /\ k \in Calls /\ k.reply \in Nat /\ k.req \in Nat
      /\ k.at # "none" => k.req \in 1 .. Len(requests)
      /\ NoCall \in Calls /\ NoCall.at = "none"
  BY NoCallTypes DEF RunnerInv, StoreTypeOK, HumanOK, HumanTypeOK, CallOK, Calls
<1>1. k.at # "none" => requests[k.req] \in RequestRow
  BY <1>0
<1>2. k.at # "none" => requests[k.req].reply \in Nat
  BY <1>1 DEF RequestRow
\* Steps that leave the requests alone.
<1>a. ASSUME NEW v \in Calls, call' = [call EXCEPT ![r] = v], told' \subseteq Nat,
             v.at # "none" => v.req \in 1 .. Len(requests),
             UNCHANGED <<storeVars, runnerVars, schedulerVars, op>>
      PROVE  CallEffect
  <2>1. requests' = requests
    BY <1>a DEF storeVars
  <2>2. /\ Len(requests') \in Nat /\ Len(requests') >= Len(requests)
        /\ v.at # "none" => v.req \in 1 .. Len(requests')
    BY <1>0, <1>a, <2>1
  <2>3. HumanOK'
    BY <1>0, <1>a, <2>2, CallAssigned
  <2> QED
    BY <1>a, <2>3 DEF CallEffect, RunnerInv, StoreTypeOK, RunnerTypeOK, WorkerOK,
       runnerVars, storeVars
\* Steps that set or clear live.
<1>b. ASSUME NEW v \in Calls, call' = [call EXCEPT ![r] = v], told' \subseteq Nat,
             v.at # "none" => v.req \in 1 .. Len(requests),
             NEW on \in BOOLEAN, SetHumanRequestLive(k.req, on),
             UNCHANGED <<status, resetAt, runs, comments, runnerVars, schedulerVars, op>>
      PROVE  CallEffect
  <2>1. requests' \in Seq(RequestRow) /\ Len(requests') = Len(requests)
    BY <1>0, <1>b, SetHumanRequestLiveTypes
  <2>2. /\ Len(requests') \in Nat /\ Len(requests') >= Len(requests)
        /\ v.at # "none" => v.req \in 1 .. Len(requests')
    BY <1>0, <1>b, <2>1
  <2>3. HumanOK'
    BY <1>0, <1>b, <2>2, CallAssigned
  <2> QED
    BY <1>b, <2>1, <2>3 DEF CallEffect, RunnerInv, StoreTypeOK, RunnerTypeOK, WorkerOK,
       runnerVars
<1>3. CASE AwaitFinds(r)
  <2>1. CASE Pending(k.req)
    <3>1. /\ call' = [call EXCEPT ![r] = [k EXCEPT !.at = "mark"]] /\ told' = told
          /\ k.at = "check"
          /\ UNCHANGED <<storeVars, runnerVars, schedulerVars, op>>
      BY <1>3, <2>1 DEF AwaitFinds, CallAt
    <3>2. /\ [k EXCEPT !.at = "mark"] \in Calls
          /\ [k EXCEPT !.at = "mark"].req = k.req
      BY <1>0 DEF Calls
    <3> QED
      BY <1>0, <1>a, <3>1, <3>2
  <2>2. CASE ~Pending(k.req)
    <3>1. /\ call' = [call EXCEPT ![r] = NoCall] /\ Tell(r, requests[k.req].reply)
          /\ k.at = "check"
          /\ UNCHANGED <<storeVars, runnerVars, schedulerVars, op>>
      BY <1>3, <2>2 DEF AwaitFinds, CallAt, Asked
    <3>2. told' \subseteq Nat
      BY <1>0, <1>2, <3>1 DEF Tell
    <3> QED
      BY <1>0, <1>a, <3>1, <3>2
  <2> QED
    BY <2>1, <2>2
<1>4. CASE AwaitGoesLive(r)
  <2> DEFINE v == [k EXCEPT !.at = "waiting"]
  <2>1. /\ call' = [call EXCEPT ![r] = v] /\ told' = told /\ k.at = "mark"
        /\ SetHumanRequestLive(k.req, TRUE)
        /\ UNCHANGED <<status, resetAt, runs, comments, runnerVars, schedulerVars, op>>
    BY <1>4 DEF AwaitGoesLive, CallAt
  <2>2. v \in Calls /\ v.req = k.req
    BY <1>0 DEF Calls
  <2> HIDE DEF v
  <2> QED
    BY <1>0, <1>b, <2>1, <2>2
<1>5. CASE AwaitEnds(r)
  <2> DEFINE v == [k EXCEPT !.at = "off", !.reply = requests[k.req].reply]
  <2>1. /\ call' = [call EXCEPT ![r] = v] /\ told' = told /\ k.at = "waiting"
        /\ UNCHANGED <<storeVars, runnerVars, schedulerVars, op>>
    BY <1>5 DEF AwaitEnds, CallAt, Asked
  <2>2. v \in Calls /\ v.req = k.req
    BY <1>0, <1>2, <2>1 DEF Calls
  <2> HIDE DEF v
  <2> QED
    BY <1>0, <1>a, <2>1, <2>2
<1>6. CASE AwaitReturns(r)
  <2>1. /\ call' = [call EXCEPT ![r] = NoCall] /\ Tell(r, k.reply)
        /\ SetHumanRequestLive(k.req, FALSE)
        /\ UNCHANGED <<status, resetAt, runs, comments, runnerVars, schedulerVars, op>>
    BY <1>6 DEF AwaitReturns
  <2>2. told' \subseteq Nat
    BY <1>0, <2>1 DEF Tell
  <2> QED
    BY <1>0, <1>b, <2>1, <2>2
<1> QED
  BY <1>3, <1>4, <1>5, <1>6 DEF CallStep

\* What a step of a human's request leaves behind.
ReplyEffect ==
    /\ RunnerInv' /\ ServicesInv'
    /\ Len(requests') = Len(requests)
    /\ UNCHANGED <<runs, runnerVars, schedulerVars, humanVars>>

LEMMA SettleChecksTypes ==
    ASSUME RunnerInv, ServicesInv, NEW c \in Clients,
           NEW q \in 1 .. Len(requests), SettleChecks(c, q)
    PROVE  ReplyEffect
<1>1. PICK kind \in {"respond", "approve", "deny"} :
         Begins(c, [NoOp EXCEPT
                !.at = IF kind = "respond" THEN "reply" ELSE "decide",
                !.task = requests[q].task, !.id = q, !.live = requests[q].live,
                !.to = IF kind = "deny" THEN "denied" ELSE "answered"])
  BY DEF SettleChecks
<1>2. requests[q] \in RequestRow /\ q \in Nat
  BY DEF RunnerInv, StoreTypeOK
<1> DEFINE at == IF kind = "respond" THEN "reply" ELSE "decide"
           to == IF kind = "deny" THEN "denied" ELSE "answered"
           next == [NoOp EXCEPT !.at = at, !.task = requests[q].task, !.id = q,
                                !.live = requests[q].live, !.to = to]
<1>3. /\ requests[q].task \in Tasks /\ requests[q].live \in BOOLEAN
      /\ at \in {"reply", "decide"} /\ to \in RequestStatus
  BY <1>2 DEF RequestRow, RequestStatus
<1>4. Begins(c, next)
  BY <1>1
<1> HIDE DEF at, to
<1>5. next \in GoodOps
  BY <1>2, <1>3, NoOpTypes DEF GoodOps, Op, OpPlaces, Writable
<1> HIDE DEF next
<1>6. ServicesInv'
  BY <1>4, <1>5, OpAssigned DEF Begins
<1> QED
  BY <1>4, <1>6 DEF SettleChecks, ReplyEffect, Begins, Elsewhere, storeVars, runnerVars,
     RunnerInv, StoreTypeOK, RunnerTypeOK, WorkerOK

LEMMA ReplyStepTypes ==
    ASSUME RunnerInv, ServicesInv, NEW c \in Clients, ReplyStep(c)
    PROVE  ReplyEffect
<1> DEFINE o == op[c]
<1>0. /\ runs \in Seq(RunRow)
      /\ comments \in Seq(CommentRow) /\ Len(comments) + 1 \in Nat
      /\ requests \in Seq(RequestRow)
      /\ NoOp \in GoodOps
  BY NoOpTypes DEF RunnerInv, StoreTypeOK
<1>1. o \in GoodOps
  BY DEF ServicesInv
<1>2. /\ o.id \in Nat /\ o.comment \in Nat
      /\ o.at # "idle" => o.task \in Tasks
      /\ o.at = "decide" => o.to \in RequestStatus
  BY <1>1 DEF GoodOps, Op
<1>3. CASE Decides(c)
  <2>1. requests' \in Seq(RequestRow) /\ Len(requests') = Len(requests)
    BY <1>0, <1>2, <1>3, SetHumanRequestStatusTypes DEF Decides, OpAt
  <2>2. ServicesInv'
    BY <1>0, <1>3, OpAssigned DEF Decides, Answered
  <2> QED
    BY <1>3, <2>1, <2>2 DEF ReplyEffect, Decides, Elsewhere, runnerVars, RunnerInv,
       StoreTypeOK, RunnerTypeOK, WorkerOK
<1>4. CASE Replies(c)
  <2> DEFINE m == Len(comments) + 1
             next == [o EXCEPT !.at = "answer", !.comment = m]
  <2>1. /\ o.at = "reply" /\ AddComment(o.task)
        /\ op' = [op EXCEPT ![c] = next]
    BY <1>4 DEF Replies, OpAt
  <2>2. comments' \in Seq(CommentRow)
    BY <1>0, <1>2, <2>1, AddCommentTypes
  <2>3. m \in Nat
    BY <1>0
  <2> HIDE DEF m
  <2>4. next \in GoodOps
    BY <1>1, <2>1, <2>3 DEF GoodOps, Op, OpPlaces, Writable
  <2> HIDE DEF next
  <2>5. ServicesInv'
    BY <2>1, <2>4, OpAssigned
  <2> QED
    BY <1>4, <2>2, <2>5 DEF ReplyEffect, Replies, Elsewhere, runnerVars, RunnerInv,
       StoreTypeOK, RunnerTypeOK, WorkerOK
<1>5. CASE Answers(c)
  <2> DEFINE at == IF o.live THEN "deliver" ELSE "wake"
             next == [o EXCEPT !.at = at]
  <2>1. /\ o.at = "answer" /\ SetHumanRequestResponse(o.id, o.comment)
        /\ op' = [op EXCEPT ![c] = next]
    BY <1>5 DEF Answers, OpAt
  <2>2. requests' \in Seq(RequestRow) /\ Len(requests') = Len(requests)
    BY <1>0, <1>2, <2>1, SetHumanRequestResponseTypes
  <2>3. at \in {"deliver", "wake"}
    OBVIOUS
  <2> HIDE DEF at
  <2>4. next \in GoodOps
    BY <1>1, <2>1, <2>3 DEF GoodOps, Op, OpPlaces, Writable
  <2> HIDE DEF next
  <2>5. ServicesInv'
    BY <2>1, <2>4, OpAssigned
  <2> QED
    BY <1>5, <2>2, <2>5 DEF ReplyEffect, Answers, Elsewhere, runnerVars, RunnerInv,
       StoreTypeOK, RunnerTypeOK, WorkerOK
<1>6. CASE Delivers(c)
  <2> DEFINE next == [o EXCEPT !.at = "wake"]
  <2>1. /\ o.at = "deliver" /\ MarkCommentConsumed(o.comment)
        /\ op' = [op EXCEPT ![c] = next]
    BY <1>6 DEF Delivers, OpAt
  <2>2. comments' \in Seq(CommentRow)
    BY <1>0, <2>1, MarkCommentConsumedTypes
  <2>3. next \in GoodOps
    BY <1>1, <2>1 DEF GoodOps, Op, OpPlaces, Writable
  <2> HIDE DEF next
  <2>4. ServicesInv'
    BY <2>1, <2>3, OpAssigned
  <2> QED
    BY <1>6, <2>2, <2>4 DEF ReplyEffect, Delivers, Elsewhere, runnerVars, RunnerInv,
       StoreTypeOK, RunnerTypeOK, WorkerOK
<1>7. CASE Wakes(c)
  <2> DEFINE s == IF HasSession(LatestRunForTask(o.task)) THEN "resumable" ELSE "queued"
             next == [NoOp EXCEPT !.at = "write", !.task = o.task, !.reset = TRUE,
                                  !.to = s]
  <2>1. /\ o.at = "wake"
        /\ op' = [op EXCEPT ![c] = next] \/ op' = [op EXCEPT ![c] = NoOp]
    BY <1>7 DEF Wakes, OpAt
  <2>2. s \in Writable
    BY DEF Writable, TaskStatus
  <2> HIDE DEF s
  <2>3. next \in GoodOps
    BY <1>0, <1>2, <2>1, <2>2 DEF GoodOps, Op, OpPlaces, Writable
  <2> HIDE DEF next
  <2>4. ServicesInv'
    BY <1>0, <2>1, <2>3, OpAssigned
  <2> QED
    BY <1>7, <2>4 DEF ReplyEffect, Wakes, Elsewhere, storeVars, runnerVars, RunnerInv,
       StoreTypeOK, RunnerTypeOK, WorkerOK
<1> QED
  BY <1>3, <1>4, <1>5, <1>6, <1>7 DEF ReplyStep

-----------------------------------------------------------------------------
(* The daemon.                                                             *)

\* A run never touches a request.
LEMMA RunnerKeepsRequests ==
    ASSUME NEW t \in Tasks, RunnerStep(t) \/ SessionInit(t)
    PROVE  requests' = requests
BY DEF RunnerStep, storeVars, ReadComments, WorkspaceFails, StartRun, NoTaskToRun,
   PreflightRun, PreflightFinish, PreflightSettle, CarrySession, MarkRunning,
   TokenFails, TokenSettle, Begin, Spawn, SpawnFails, RecordPid, SessionInit,
   AutoContinue, SessionMissing, ClaudeExits, Classify, Finish, Consume, Settle,
   ResetAfterAnswer

LEMMA TypeInvInit == Init => TypeInv
<1> SUFFICES ASSUME Init PROVE TypeInv
  OBVIOUS
<1>1. StoreTypeOK /\ Len(runs) = 0
  BY DEF Init, StoreInit, StoreTypeOK, TaskStatus, Missing
<1>2. NoWorker \in Worker /\ NoWorker.pc = "idle"
  BY DEF NoWorker, Worker, Places, Causes, Exits
<1>3. RunnerTypeOK /\ WorkerOK
  BY <1>2 DEF Init, RunnerInit, RunnerTypeOK, WorkerOK, Rowless
<1>4. SchedulerTypeOK /\ SchedOK
  BY DEF Init, SchedulerInit, SchedulerTypeOK, SchedOK, Resting, Sched, Stages
<1>5. ServicesInv /\ ServicesTypeOK
  BY NoOpTypes DEF Init, ServicesInit, ServicesInv, ServicesTypeOK, GoodOps
<1>6. HumanTypeOK /\ CallOK
  BY NoCallTypes DEF Init, HumanInit, HumanTypeOK, CallOK
<1>7. lives \in 0 .. Lives
  BY DaemonAssumption DEF Init
<1> QED
  BY <1>1, <1>3, <1>4, <1>5, <1>6, <1>7 DEF TypeInv, TypeOK

\* The invariant in the parts the lemmas are about.
LEMMA TypeInvHas ==
    ASSUME TypeInv
    PROVE  /\ RunnerInv /\ SchedulerTypeOK /\ SchedOK /\ ServicesInv /\ HumanOK
           /\ lives \in 0 .. Lives /\ requests \in Seq(RequestRow)
           /\ Len(runs) \in Nat /\ Len(requests) \in Nat
BY DEF TypeInv, TypeOK, RunnerInv, HumanOK, StoreTypeOK

LEMMA TypeInvHolds ==
    ASSUME RunnerInv', SchedulerTypeOK', SchedOK', ServicesInv', HumanOK',
           (lives \in 0 .. Lives)'
    PROVE  TypeInv'
BY DEF TypeInv, TypeOK, RunnerInv, HumanOK, ServicesInv, ServicesTypeOK, GoodOps

\* Components nobody's step touched.
LEMMA SchedulerKept ==
    ASSUME SchedulerTypeOK, SchedOK, UNCHANGED schedulerVars
    PROVE  SchedulerTypeOK' /\ SchedOK'
BY DEF SchedulerTypeOK, SchedOK, schedulerVars

LEMMA HumanKept ==
    ASSUME HumanOK, requests \in Seq(RequestRow), UNCHANGED humanVars,
           Len(requests') = Len(requests)
    PROVE  HumanOK'
BY DEF HumanOK, HumanTypeOK, CallOK, humanVars

LEMMA ServicesKept ==
    ASSUME ServicesInv, op' = op
    PROVE  ServicesInv'
BY DEF ServicesInv

LEMMA TypeInvNext ==
    ASSUME TypeInv, [Next]_vars
    PROVE  TypeInv'
<1>0. /\ RunnerInv /\ SchedulerTypeOK /\ SchedOK /\ ServicesInv /\ HumanOK
      /\ lives \in 0 .. Lives /\ requests \in Seq(RequestRow)
      /\ Len(runs) \in Nat /\ Len(requests) \in Nat
  BY TypeInvHas
<1>1. ASSUME NEW t \in Tasks, Works(t) \/ NamesSession(t)
      PROVE  TypeInv'
  <2>1. /\ RunnerStep(t) \/ SessionInit(t)
        /\ UNCHANGED <<schedulerVars, op, humanVars, lives>>
    BY <1>1 DEF Works, NamesSession, WorkerStep
  <2>2. RunnerInv' /\ requests' = requests
    BY <1>0, <2>1, RunnerStepTypes, RunnerKeepsRequests
  <2>3. SchedulerTypeOK' /\ SchedOK' /\ ServicesInv' /\ HumanOK'
    BY <1>0, <2>1, <2>2, SchedulerKept, HumanKept, ServicesKept
  <2> QED
    BY <1>0, <2>1, <2>2, <2>3, TypeInvHolds
<1>2. ASSUME NEW t \in Tasks, Releases(t)
      PROVE  TypeInv'
  <2>1. /\ worker' = [worker EXCEPT ![t] = NoWorker]
        /\ UNCHANGED <<storeVars, alive, heard, schedulerVars, op, humanVars, lives>>
    BY <1>2 DEF Releases, Release
  <2>2. NoWorker \in Worker /\ NoWorker.pc = "idle"
    BY DEF NoWorker, Worker, Places, Causes, Exits
  <2>3. runs' = runs /\ requests' = requests
    BY <2>1 DEF storeVars
  <2>4. /\ Len(runs') \in Nat /\ Len(runs') >= Len(runs)
        /\ NoWorker.pc \in Rowless /\ NoWorker.pc # "finish"
    BY <1>0, <2>2, <2>3 DEF Rowless
  <2>5. worker' \in [Tasks -> Worker] /\ WorkerOK'
    BY <1>0, <2>1, <2>2, <2>4, WorkerAssigned
  <2>6. RunnerInv'
    BY <1>0, <2>1, <2>5 DEF RunnerInv, StoreTypeOK, RunnerTypeOK, storeVars
  <2>7. SchedulerTypeOK' /\ SchedOK' /\ ServicesInv' /\ HumanOK'
    BY <1>0, <2>1, <2>3, SchedulerKept, HumanKept, ServicesKept
  <2> QED
    BY <1>0, <2>1, <2>6, <2>7, TypeInvHolds
<1>3. ASSUME NEW r \in 1 .. MaxRuns, Asks(r) \/ Awaits(r)
      PROVE  TypeInv'
  <2>1. CallEffect /\ lives' = lives
    BY <1>0, <1>3, AskTypes, CallStepTypes DEF Asks, Awaits
  <2>2. SchedulerTypeOK' /\ SchedOK' /\ ServicesInv'
    BY <1>0, <2>1, SchedulerKept, ServicesKept DEF CallEffect
  <2> QED
    BY <1>0, <2>1, <2>2, TypeInvHolds DEF CallEffect
<1>4. ASSUME NEW r \in 1 .. MaxRuns, OrphanExits(r)
      PROVE  TypeInv'
  <2>1. /\ alive' \subseteq alive
        /\ UNCHANGED <<storeVars, worker, heard, schedulerVars, op, humanVars, lives>>
    BY <1>4 DEF OrphanExits
  <2>2. RunnerInv' /\ requests' = requests
    BY <1>0, <2>1 DEF RunnerInv, StoreTypeOK, RunnerTypeOK, WorkerOK, storeVars
  <2>3. SchedulerTypeOK' /\ SchedOK' /\ ServicesInv' /\ HumanOK'
    BY <1>0, <2>1, <2>2, SchedulerKept, HumanKept, ServicesKept
  <2> QED
    BY <1>0, <2>1, <2>2, <2>3, TypeInvHolds
<1>5. ASSUME NEW c \in Clients, Demands(c) \/ Handles(c)
      PROVE  TypeInv'
  <2>1. CASE (UserBegins(c) \/ HandlerStep(c)) /\ UNCHANGED <<humanVars, lives>>
    <3>1. /\ RunnerInv' /\ ServicesInv' /\ Len(requests') = Len(requests)
          /\ UNCHANGED schedulerVars
      BY <1>0, <2>1, UserBeginsTypes, HandlerStepTypes DEF HandlerEffect
    <3>2. SchedulerTypeOK' /\ SchedOK' /\ HumanOK'
      BY <1>0, <2>1, <3>1, SchedulerKept, HumanKept
    <3> QED
      BY <1>0, <2>1, <3>1, <3>2, TypeInvHolds
  <2>2. CASE ((\E q \in 1 .. Len(requests) : SettleChecks(c, q)) \/ ReplyStep(c))
             /\ UNCHANGED lives
    <3>1. ReplyEffect
      BY <1>0, <2>2, SettleChecksTypes, ReplyStepTypes
    <3>2. SchedulerTypeOK' /\ SchedOK' /\ HumanOK'
      BY <1>0, <3>1, SchedulerKept, HumanKept DEF ReplyEffect
    <3> QED
      BY <1>0, <2>2, <3>1, <3>2, TypeInvHolds DEF ReplyEffect
  <2> QED
    BY <1>5, <2>1, <2>2 DEF Demands, Handles
<1>6. CASE Ticks
  <2>1. /\ RunnerInv' /\ SchedulerTypeOK' /\ SchedOK' /\ Len(requests') = Len(requests)
        /\ UNCHANGED <<op, humanVars, lives>>
    BY <1>0, <1>6, TickStepTypes DEF Ticks
  <2>2. ServicesInv' /\ HumanOK'
    BY <1>0, <2>1, HumanKept, ServicesKept
  <2> QED
    BY <1>0, <2>1, <2>2, TypeInvHolds
<1>7. CASE Stops \/ Signalled
  <2>1. PICK S : CancelEvery(S, "shutdown")
    BY <1>7 DEF Stops, Signalled, CancelAll, Terminate
  <2>2. /\ UNCHANGED <<storeVars, alive, heard, op, humanVars, lives>>
        /\ sched' = sched \/ sched' = [sched EXCEPT !.pc = "waiting"]
        /\ sched' # sched => sched.pc = "idle"
        /\ mode' \in {mode, "stopping"}
    BY <1>7 DEF Stops, Signalled, CancelAll, Terminate, Step
  <2>3. runs' = runs /\ requests' = requests
    BY <2>2 DEF storeVars
  <2>4. worker' \in [Tasks -> Worker] /\ WorkerOK'
    BY <1>0, <2>1, <2>3, CancelEveryTypes DEF Causes
  <2>5. RunnerInv'
    BY <1>0, <2>2, <2>4 DEF RunnerInv, StoreTypeOK, RunnerTypeOK, storeVars
  <2>6. SchedulerTypeOK' /\ SchedOK'
    BY <1>0, <2>2 DEF SchedulerTypeOK, SchedOK, Sched, Stages
  <2>7. ServicesInv' /\ HumanOK'
    BY <1>0, <2>2, <2>3, HumanKept, ServicesKept
  <2> QED
    BY <1>0, <2>2, <2>5, <2>6, <2>7, TypeInvHolds
<1>8. CASE Crash \/ Exit
  <2>1. Forgotten
    BY <1>8 DEF Crash, Exit
  <2>2. RunnerInv'
    <3>1. NoWorker \in Worker /\ NoWorker.pc = "idle"
      BY DEF NoWorker, Worker, Places, Causes, Exits
    <3> QED
      BY <1>0, <2>1, <3>1 DEF Forgotten, RunnerInv, StoreTypeOK, RunnerTypeOK,
         WorkerOK, storeVars, Rowless
  <2>3. SchedulerTypeOK' /\ SchedOK'
    <3>1. /\ Resting \in Sched /\ Resting.pc = "idle" /\ Resting.launch = {}
      BY DEF Resting, Sched, Stages
    <3> QED
      BY <2>1, <3>1 DEF Forgotten, SchedulerTypeOK, SchedOK
  <2>4. ServicesInv'
    BY <2>1, NoOpTypes DEF Forgotten, ServicesInv
  <2>5. HumanOK'
    BY <1>0, <2>1, NoCallTypes DEF Forgotten, HumanOK, HumanTypeOK, CallOK
  <2> QED
    BY <1>0, <2>1, <2>2, <2>3, <2>4, <2>5, TypeInvHolds DEF Forgotten
<1>9. CASE Restart
  <2>1. requests' \in Seq(RequestRow) /\ Len(requests') = Len(requests)
    BY <1>0, <1>9, ClearHumanRequestLiveTypes DEF Restart
  <2>2. RunnerInv'
    BY <1>0, <1>9, <2>1 DEF Restart, RunnerInv, StoreTypeOK, RunnerTypeOK, WorkerOK,
       runnerVars
  <2>3. SchedulerTypeOK' /\ SchedOK'
    BY <1>0, <1>9 DEF Restart, SchedulerTypeOK, SchedOK
  <2>4. ServicesInv' /\ HumanOK'
    BY <1>0, <1>9, <2>1, HumanKept, ServicesKept DEF Restart
  <2>5. lives' \in 0 .. Lives
    BY <1>0, <1>9, DaemonAssumption DEF Restart
  <2> QED
    BY <2>2, <2>3, <2>4, <2>5, TypeInvHolds
<1>10. CASE UNCHANGED vars
  <2>1. /\ UNCHANGED <<storeVars, runnerVars, schedulerVars, op, humanVars, lives>>
        /\ requests' = requests
    BY <1>10 DEF vars, storeVars
  <2>2. RunnerInv'
    BY <1>0, <2>1 DEF RunnerInv, StoreTypeOK, RunnerTypeOK, WorkerOK, storeVars,
       runnerVars
  <2>3. SchedulerTypeOK' /\ SchedOK' /\ ServicesInv' /\ HumanOK'
    BY <1>0, <2>1, SchedulerKept, HumanKept, ServicesKept
  <2> QED
    BY <1>0, <2>1, <2>2, <2>3, TypeInvHolds
<1>11. CASE Stopped
  <2>1. /\ UNCHANGED <<storeVars, runnerVars, op, humanVars, lives, mode>>
        /\ sched' = [sched EXCEPT !.pc = "stopped"] /\ sched.pc = "waiting"
        /\ runs' = runs /\ requests' = requests
    BY <1>11 DEF Stopped, LoopEnds, Drained, Step, storeVars
  <2>2. RunnerInv'
    BY <1>0, <2>1 DEF RunnerInv, StoreTypeOK, RunnerTypeOK, WorkerOK, storeVars, runnerVars
  <2>3. SchedulerTypeOK' /\ SchedOK'
    BY <1>0, <2>1 DEF SchedulerTypeOK, SchedOK, Sched, Stages
  <2>4. ServicesInv' /\ HumanOK'
    BY <1>0, <2>1, HumanKept, ServicesKept DEF runnerVars
  <2> QED
    BY <1>0, <2>1, <2>2, <2>3, <2>4, TypeInvHolds
<1> QED
  BY <1>1, <1>2, <1>3, <1>4, <1>5, <1>6, <1>7, <1>8, <1>9, <1>10, <1>11 DEF Next

\* Every behaviour of the daemon keeps every table, worker, plan, handler and
\* call well typed: no status is written that the schema does not know, and no
\* component uses the id of a row that is not there.
THEOREM TypeCorrect == Spec => []TypeOK
<1>1. Init => TypeInv
  BY TypeInvInit
<1>2. TypeInv /\ [Next]_vars => TypeInv'
  BY TypeInvNext
<1>3. TypeInv => TypeOK
  BY DEF TypeInv
<1> QED
  BY <1>1, <1>2, <1>3, PTL DEF Spec

-----------------------------------------------------------------------------
(* The worker budget.  Between the plan and the launches it leads to the   *)
(* registry changes under the scheduler's feet; what makes the plan safe   *)
(* to act on is that nobody but the plan adds a scheduled worker, so every *)
(* launch still planned keeps the slot the plan counted for it.            *)

ScheduledWorkers == {t \in Inflight : ~worker[t].manual}

CapInv ==
    /\ Cardinality(ScheduledWorkers) <= Workers
    /\ sched.launch # {} =>
          Cardinality(ScheduledWorkers) + Cardinality(sched.launch) <= Workers

\* A step that starts no scheduled worker.
NoneStarted == ScheduledWorkers' \subseteq ScheduledWorkers

LEMMA FiniteWorkers ==
    ASSUME TypeInv
    PROVE  /\ IsFiniteSet(Inflight) /\ IsFiniteSet(ScheduledWorkers)
           /\ ScheduledWorkers \subseteq Inflight
           /\ IsFiniteSet(sched.launch)
<1>1. Inflight \subseteq Tasks /\ ScheduledWorkers \subseteq Inflight
  BY DEF Inflight, ScheduledWorkers
<1>2. IsFiniteSet(Inflight) /\ IsFiniteSet(ScheduledWorkers)
  BY <1>1, StoreAssumption, FS_Subset
<1>3. sched.launch \subseteq 1 .. Len(sched.cands) /\ sched.cands \in Seq(Candidate)
  BY TypeInvHas DEF SchedOK, SchedulerTypeOK, Sched
<1>4. IsFiniteSet(1 .. Len(sched.cands))
  BY <1>3, FS_Interval
<1> QED
  BY <1>1, <1>2, <1>3, <1>4, FS_Subset

LEMMA CapKept ==
    ASSUME TypeInv, CapInv, NoneStarted, sched'.launch \subseteq sched.launch
    PROVE  CapInv'
<1>1. /\ IsFiniteSet(ScheduledWorkers) /\ IsFiniteSet(sched.launch)
  BY FiniteWorkers
<1>2. /\ Cardinality(ScheduledWorkers') <= Cardinality(ScheduledWorkers)
      /\ Cardinality(sched'.launch) <= Cardinality(sched.launch)
      /\ IsFiniteSet(ScheduledWorkers') /\ IsFiniteSet(sched'.launch)
  BY <1>1, FS_Subset DEF NoneStarted
<1>3. /\ Cardinality(ScheduledWorkers) \in Nat /\ Cardinality(ScheduledWorkers') \in Nat
      /\ Cardinality(sched.launch) \in Nat /\ Cardinality(sched'.launch) \in Nat
      /\ Workers \in Nat
  BY <1>1, <1>2, FS_CardinalityType, PolicyAssumption
<1>4. sched'.launch # {} => sched.launch # {}
  OBVIOUS
<1> QED
  BY <1>2, <1>3, <1>4 DEF CapInv

\* A run never changes who launched its worker, nor revives an idle one.
LEMMA RunnerKeepsLaunch ==
    ASSUME worker \in [Tasks -> Worker], NEW t \in Tasks, RunnerStep(t) \/ SessionInit(t)
    PROVE  /\ worker[t].pc # "idle"
           /\ \A u \in Tasks : worker'[u].manual = worker[u].manual
           /\ \A u \in Tasks : u # t => worker'[u].pc = worker[u].pc
<1>1. CASE ReadComments(t) \/ WorkspaceFails(t) \/ NoTaskToRun(t)
             \/ PreflightFinish(t) \/ PreflightSettle(t) \/ CarrySession(t)
  BY <1>1 DEF Worker, At, Goto, ReadComments, WorkspaceFails, NoTaskToRun,
     PreflightFinish, PreflightSettle, CarrySession
<1>4. CASE StartRun(t)
  <2> DEFINE pc == IF worker[t].resume # 0 THEN "carry" ELSE "mark"
             v == [worker[t] EXCEPT !.run = Len(runs) + 1, !.pc = pc]
  <2>1. worker' = [worker EXCEPT ![t] = v] /\ worker[t].pc = "workspace"
    BY <1>4 DEF StartRun, At
  <2>2. v.manual = worker[t].manual
    BY DEF Worker
  <2> QED
    BY <2>1, <2>2
<1>5. CASE PreflightRun(t)
  <2> DEFINE n == EffectiveAttempt(resetAt[t], LatestRunForTask(t)) + 1
             v == [worker[t] EXCEPT !.pc = "prefinish", !.run = Len(runs) + 1,
                                    !.attempt = n]
  <2>1. worker' = [worker EXCEPT ![t] = v] /\ worker[t].pc = "preflight"
    BY <1>5 DEF PreflightRun, At
  <2>2. v.manual = worker[t].manual
    BY DEF Worker
  <2> QED
    BY <2>1, <2>2
<1>2. CASE MarkRunning(t) \/ TokenFails(t) \/ TokenSettle(t) \/ Begin(t) \/ Spawn(t)
             \/ SpawnFails(t) \/ RecordPid(t) \/ SessionInit(t)
  BY <1>2 DEF Worker, At, Goto, MarkRunning, TokenFails, TokenSettle, Begin, Spawn,
     SpawnFails, RecordPid, SessionInit
<1>3. CASE AutoContinue(t) \/ SessionMissing(t) \/ ClaudeExits(t) \/ Classify(t)
             \/ Finish(t) \/ Consume(t) \/ Settle(t) \/ ResetAfterAnswer(t)
  BY <1>3 DEF Worker, At, Goto, AutoContinue, SessionMissing, ClaudeExits, Classify,
     Finish, Consume, Settle, ResetAfterAnswer
<1> QED
  BY <1>1, <1>2, <1>3, <1>4, <1>5 DEF RunnerStep

LEMMA RunnerStartsNone ==
    ASSUME worker \in [Tasks -> Worker], NEW t \in Tasks, RunnerStep(t) \/ SessionInit(t)
    PROVE  NoneStarted
BY RunnerKeepsLaunch DEF NoneStarted, ScheduledWorkers, Inflight, At

LEMMA CancelStartsNone ==
    ASSUME worker \in [Tasks -> Worker],
           (\E t, cause : Cancel(t, cause)) \/ (\E S, cause : CancelEvery(S, cause))
    PROVE  NoneStarted
<1>1. \A u \in Tasks : /\ worker'[u].pc = worker[u].pc
                       /\ worker'[u].manual = worker[u].manual
  BY DEF Cancel, CancelEvery, Cancelled, Worker
<1> QED
  BY <1>1 DEF NoneStarted, ScheduledWorkers, Inflight, At

\* A launch by hand is not a scheduled one, a planned launch is one at most.
LEMMA LaunchStarts ==
    ASSUME worker \in [Tasks -> Worker], NEW k, k.task \in Tasks,
           NEW manual \in BOOLEAN, Launch(k, manual)
    PROVE  ScheduledWorkers' \subseteq
              ScheduledWorkers \cup (IF manual THEN {} ELSE {k.task})
<1>1. NewWorker(k, manual).manual = manual
  BY DEF NewWorker, NoWorker
<1>2. \A u \in Tasks : u # k.task => worker'[u] = worker[u]
  BY DEF Launch
<1>3. worker'[k.task] = worker[k.task] \/ worker'[k.task] = NewWorker(k, manual)
  BY DEF Launch
<1> QED
  BY <1>1, <1>2, <1>3 DEF ScheduledWorkers, Inflight, At

LEMMA TickCap ==
    ASSUME TypeInv, CapInv, TickStep
    PROVE  CapInv'
<1>0. worker \in [Tasks -> Worker] /\ sched \in Sched /\ SchedOK
  BY TypeInvHas DEF RunnerInv, RunnerTypeOK, SchedulerTypeOK
<1>a. ASSUME worker' = worker, sched'.launch \subseteq sched.launch
      PROVE  CapInv'
  <2>1. NoneStarted
    BY <1>a DEF NoneStarted, ScheduledWorkers, Inflight, At
  <2> QED
    BY <1>a, <2>1, CapKept
<1>1. CASE ListActiveRuns \/ LockForReconcile \/ SkipTracked \/ UnlockToKill
             \/ KillOrphan \/ BuryRun \/ SettleBuried \/ UnlockReconciled
             \/ FetchResumable \/ FetchQueued
  <2>1. worker' = worker
    BY <1>1 DEF ListActiveRuns, LockForReconcile, SkipTracked, UnlockToKill, KillOrphan,
       BuryRun, SettleBuried, UnlockReconciled, FetchResumable, FetchQueued, runnerVars
  <2>2. sched'.launch = sched.launch
    BY <1>0, <1>1 DEF Sched, Step, ListActiveRuns, LockForReconcile, SkipTracked,
       UnlockToKill, KillOrphan, BuryRun, SettleBuried, UnlockReconciled,
       FetchResumable, FetchQueued
  <2> QED
    BY <1>a, <2>1, <2>2
<1>2. CASE Fail \/ EndTick
  <2>1. worker' = worker
    BY <1>2 DEF Fail, EndTick, runnerVars
  <2>2. sched'.launch \subseteq sched.launch
    BY <1>0, <1>2 DEF Sched, Fail, EndTick, Resting
  <2> QED
    BY <1>a, <2>1, <2>2
<1>3. CASE Suspend
  <2>1. NoneStarted
    BY <1>0, <1>3, CancelStartsNone DEF Suspend
  <2>2. sched'.launch = sched.launch
    BY <1>0, <1>3 DEF Suspend, Sched
  <2> QED
    BY <2>1, <2>2, CapKept
<1>4. CASE Decide
  <2> DEFINE n == Cardinality(ScheduledWorkers)
  <2>1. PICK gate \in Gates :
          sched'.launch = Launches(sched.cands, Inflight, {}, gate)
    BY <1>0, <1>4 DEF Decide, Sched
  <2>2. sched'.launch = Scheduled(sched.cands, Inflight, {}, gate)
    BY <2>1 DEF Launches, ByHand
  <2>3. IsFiniteSet(Inflight) /\ ScheduledWorkers \subseteq Inflight
    BY FiniteWorkers
  <2>4. Len(sched.cands) \in Nat
    BY <1>0 DEF Sched
  <2>5. /\ IsFiniteSet(sched'.launch)
        /\ sched'.launch # {} =>
              Cardinality(sched'.launch) <= Workers - Cardinality(Inflight)
    BY <2>2, <2>3, <2>4, ScheduledWithinFree
  <2>6. n <= Cardinality(Inflight)
    BY <2>3, FS_Subset
  <2>7. /\ n \in Nat /\ Cardinality(Inflight) \in Nat
        /\ Cardinality(sched'.launch) \in Nat /\ Workers \in Nat
    BY <2>3, <2>5, FiniteWorkers, FS_CardinalityType, PolicyAssumption
  <2>8. ScheduledWorkers' = ScheduledWorkers
    BY <1>4 DEF Decide, runnerVars, ScheduledWorkers, Inflight, At
  <2> QED
    BY <2>5, <2>6, <2>7, <2>8 DEF CapInv
<1>5. CASE LaunchPlanned
  <2> DEFINE n == Cardinality(ScheduledWorkers)
             m == Cardinality(sched.launch)
  <2>1. PICK i \in sched.launch :
          /\ Launch(RowFor(sched.cands[i].task), FALSE)
          /\ sched' = [sched EXCEPT !.launch = @ \ {i}]
    BY <1>5 DEF LaunchPlanned
  <2> DEFINE k == RowFor(sched.cands[i].task)
  <2>2. k.task \in Tasks
    <3>1. i \in 1 .. Len(sched.cands) /\ sched.cands \in Seq(Candidate)
      BY <1>0, <2>1 DEF SchedOK, Sched
    <3>2. k \in Candidate
      BY <3>1, RowForIsCandidate
    <3> QED
      BY <3>2 DEF Candidate
  <2> HIDE DEF k
  <2>3. ScheduledWorkers' \subseteq ScheduledWorkers \cup {k.task}
    <3>1. Launch(k, FALSE)
      BY <2>1 DEF k
    <3> QED
      BY <1>0, <2>2, <3>1, LaunchStarts
  <2>4. IsFiniteSet(ScheduledWorkers) /\ IsFiniteSet(sched.launch)
    BY FiniteWorkers
  <2>5. /\ IsFiniteSet(ScheduledWorkers \cup {k.task})
        /\ Cardinality(ScheduledWorkers \cup {k.task}) <= n + 1
    <3> DEFINE x == k.task
    <3>1. /\ IsFiniteSet(ScheduledWorkers \cup {x})
          /\ Cardinality(ScheduledWorkers \cup {x})
                = IF x \in ScheduledWorkers THEN n ELSE n + 1
      BY <2>4, FS_AddElement
    <3>2. n \in Nat
      BY <2>4, FS_CardinalityType
    <3> QED
      BY <3>1, <3>2
  <2>6. /\ IsFiniteSet(ScheduledWorkers')
        /\ Cardinality(ScheduledWorkers') <= Cardinality(ScheduledWorkers \cup {k.task})
    BY <2>3, <2>5, FS_Subset
  <2>7. /\ sched'.launch = sched.launch \ {i}
        /\ IsFiniteSet(sched'.launch) /\ Cardinality(sched'.launch) = m - 1
    <3>1. sched'.launch = sched.launch \ {i}
      BY <1>0, <2>1 DEF Sched
    <3> QED
      BY <2>1, <2>4, <3>1, FS_RemoveElement
  <2>8. /\ n \in Nat /\ m \in Nat /\ Cardinality(ScheduledWorkers') \in Nat
        /\ Cardinality(ScheduledWorkers \cup {k.task}) \in Nat
        /\ Cardinality(sched'.launch) \in Nat /\ Workers \in Nat
    BY <2>4, <2>5, <2>6, <2>7, FS_CardinalityType, PolicyAssumption
  <2>9. n + m <= Workers
    BY <2>1 DEF CapInv
  <2> QED
    BY <2>5, <2>6, <2>7, <2>8, <2>9 DEF CapInv
<1> QED
  BY <1>1, <1>2, <1>3, <1>4, <1>5 DEF TickStep

LEMMA CapNext ==
    ASSUME TypeInv, CapInv, [Next]_vars
    PROVE  CapInv'
<1>0. /\ worker \in [Tasks -> Worker] /\ sched \in Sched /\ ServicesInv
  BY TypeInvHas DEF RunnerInv, RunnerTypeOK, SchedulerTypeOK
<1>a. ASSUME NoneStarted, sched' = sched
      PROVE  CapInv'
  BY <1>a, CapKept
\* The steps that leave the workers alone.
<1>b. ASSUME worker' = worker, sched' = sched
      PROVE  CapInv'
  BY <1>a, <1>b DEF NoneStarted, ScheduledWorkers, Inflight, At
<1>1. ASSUME NEW t \in Tasks, Works(t) \/ NamesSession(t)
      PROVE  CapInv'
  <2>1. (RunnerStep(t) \/ SessionInit(t)) /\ sched' = sched
    BY <1>1 DEF Works, NamesSession, WorkerStep, schedulerVars
  <2> QED
    BY <1>0, <1>a, <2>1, RunnerStartsNone
<1>2. ASSUME NEW t \in Tasks, Releases(t)
      PROVE  CapInv'
  <2>1. worker' = [worker EXCEPT ![t] = NoWorker] /\ sched' = sched
    BY <1>2 DEF Releases, Release, schedulerVars
  <2>2. NoWorker.pc = "idle"
    BY DEF NoWorker
  <2>3. NoneStarted
    BY <1>0, <2>1, <2>2 DEF NoneStarted, ScheduledWorkers, Inflight, At
  <2> QED
    BY <1>a, <2>1, <2>3
<1>3. ASSUME NEW r \in 1 .. MaxRuns, Asks(r) \/ Awaits(r) \/ OrphanExits(r)
      PROVE  CapInv'
  <2>1. worker' = worker /\ sched' = sched
    <3>1. CASE Asks(r)
      BY <3>1 DEF Asks, Ask, AskAgain, runnerVars, schedulerVars
    <3>2. CASE Awaits(r)
      BY <3>2 DEF Awaits, CallStep, AwaitFinds, AwaitGoesLive, AwaitEnds, AwaitReturns,
         runnerVars, schedulerVars
    <3>3. CASE OrphanExits(r)
      BY <3>3 DEF OrphanExits, schedulerVars
    <3> QED
      BY <1>3, <3>1, <3>2, <3>3
  <2> QED
    BY <1>b, <2>1
<1>4. ASSUME NEW c \in Clients, Demands(c) \/ Handles(c)
      PROVE  CapInv'
  <2>1. CASE Demands(c)
    <3>1. worker' = worker /\ sched' = sched
      <4>1. CASE UserBegins(c)
        BY <4>1 DEF UserBegins, CreateTask, EditTask, DeleteChecks, PauseChecks,
           ResumeChecks, SetChecks, CommentChecks, RunNowChecks, CancelChecks, Begins,
           Elsewhere, schedulerVars
      <4>2. CASE \E q \in 1 .. Len(requests) : SettleChecks(c, q)
        BY <4>2 DEF SettleChecks, Begins, Elsewhere, schedulerVars
      <4> QED
        BY <2>1, <4>1, <4>2 DEF Demands
    <3> QED
      BY <1>b, <3>1
  <2>2. CASE ReplyStep(c)
    <3>1. worker' = worker /\ sched' = sched
      BY <2>2 DEF ReplyStep, Decides, Replies, Answers, Delivers, Wakes, Elsewhere,
         schedulerVars
    <3> QED
      BY <1>b, <3>1
  <2>3. CASE DeletesRow(c) \/ RetiresRequests(c) \/ WritesStatus(c)
               \/ ForgetsAttempts(c) \/ InsertsComment(c) \/ CancelAbandons(c)
    <3>1. worker' = worker /\ sched' = sched
      BY <2>3 DEF DeletesRow, RetiresRequests, WritesStatus, ForgetsAttempts,
         InsertsComment, CancelAbandons, Elsewhere, schedulerVars
    <3> QED
      BY <1>b, <3>1
  <2>4. CASE RunNowLaunches(c)
    <3> DEFINE k == [task |-> op[c].task, resume |-> op[c].id,
                     attempt |-> op[c].attempt]
    <3>1. (Launch(k, TRUE) \/ worker' = worker) /\ sched' = sched
      BY <2>4 DEF RunNowLaunches, Elsewhere, schedulerVars
    <3>2. k.task \in Tasks
      BY <1>0, <2>4 DEF RunNowLaunches, OpAt, ServicesInv, GoodOps
    <3> HIDE DEF k
    <3>3. CASE Launch(k, TRUE)
      <4>1. NoneStarted
        BY <1>0, <3>2, <3>3, LaunchStarts DEF NoneStarted
      <4> QED
        BY <1>a, <3>1, <4>1
    <3> QED
      BY <1>b, <3>1, <3>3
  <2>5. CASE CancelSignals(c)
    <3>1. Cancel(op[c].task, "cancelled") /\ sched' = sched
      BY <2>5 DEF CancelSignals, Elsewhere, schedulerVars
    <3> QED
      BY <1>0, <1>a, <3>1, CancelStartsNone
  <2> QED
    BY <1>4, <2>1, <2>2, <2>3, <2>4, <2>5 DEF Handles, HandlerStep
<1>5. CASE Ticks
  BY <1>5, TickCap DEF Ticks
<1>6. CASE Stops \/ Signalled
  <2>1. PICK S : CancelEvery(S, "shutdown")
    BY <1>6 DEF Stops, Signalled, CancelAll, Terminate
  <2>2. sched'.launch = sched.launch
    BY <1>0, <1>6 DEF Stops, Signalled, CancelAll, Terminate, Step, Sched
  <2>3. NoneStarted
    BY <1>0, <2>1, CancelStartsNone
  <2> QED
    BY <2>2, <2>3, CapKept
<1>7. CASE Crash \/ Exit
  <2>1. Forgotten
    BY <1>7 DEF Crash, Exit
  <2>2. NoWorker.pc = "idle" /\ Resting.launch = {}
    BY DEF NoWorker, Resting
  <2>3. NoneStarted /\ sched'.launch = {}
    BY <2>1, <2>2 DEF Forgotten, NoneStarted, ScheduledWorkers, Inflight, At
  <2> QED
    BY <2>3, CapKept
<1>8. CASE Restart \/ UNCHANGED vars
  <2>1. worker' = worker /\ sched' = sched
    BY <1>8 DEF Restart, vars, runnerVars, schedulerVars
  <2> QED
    BY <1>b, <2>1
<1>9. CASE Stopped
  <2>1. worker' = worker /\ sched'.launch = sched.launch
    BY <1>0, <1>9 DEF Stopped, LoopEnds, Step, Sched, runnerVars
  <2>2. NoneStarted
    BY <2>1 DEF NoneStarted, ScheduledWorkers, Inflight, At
  <2> QED
    BY <2>1, <2>2, CapKept
<1> QED
  BY <1>1, <1>2, <1>3, <1>4, <1>5, <1>6, <1>7, <1>8, <1>9 DEF Next

LEMMA CapInit == Init => CapInv
<1> SUFFICES ASSUME Init PROVE CapInv
  OBVIOUS
<1>1. NoWorker.pc = "idle" /\ Resting.launch = {}
  BY DEF NoWorker, Resting
<1>2. ScheduledWorkers = {} /\ sched.launch = {}
  BY <1>1 DEF Init, RunnerInit, SchedulerInit, ScheduledWorkers, Inflight, At
<1> QED
  BY <1>2, FS_EmptySet, PolicyAssumption DEF CapInv

\* Whatever users launch by hand, cancel or delete, whatever fails, and however
\* often the daemon dies: parallel_n bounds the scheduled runs.  The inductive
\* invariant counts the launches still planned with the workers they will take.
THEOREM CapHolds == Spec => []WorkerCap
<1>1. Init => TypeInv /\ CapInv
  BY TypeInvInit, CapInit
<1>2. TypeInv /\ CapInv /\ [Next]_vars => TypeInv' /\ CapInv'
  BY TypeInvNext, CapNext
<1>3. CapInv => WorkerCap
  BY DEF CapInv, WorkerCap, ScheduledWorkers
<1> QED
  BY <1>1, <1>2, <1>3, PTL DEF Spec

-----------------------------------------------------------------------------
(* The live flag.                                                          *)

\* Steps that set no flag and end no wait.
LEMMA LiveKept ==
    ASSUME LiveMeansWaiting, mode' # "down" => mode # "down",
           Len(requests') = Len(requests),
           \A q \in 1 .. Len(requests) : requests'[q].live = requests[q].live,
           \A r \in 1 .. MaxRuns :
              call[r].at \in {"waiting", "off"} =>
                 call'[r].at \in {"waiting", "off"} /\ call'[r].req = call[r].req
    PROVE  LiveMeansWaiting'
BY DEF LiveMeansWaiting

\* A column other than live is assigned in one row.
LEMMA ColumnKeepsLive ==
    ASSUME requests \in Seq(RequestRow), NEW q, NEW row,
           requests' = [requests EXCEPT ![q] = row],
           q \in 1 .. Len(requests) => row.live = requests[q].live
    PROVE  /\ Len(requests') = Len(requests)
           /\ \A i \in 1 .. Len(requests) : requests'[i].live = requests[i].live
<1>1. /\ Len(requests) \in Nat /\ DOMAIN requests = 1 .. Len(requests)
      /\ DOMAIN requests' = 1 .. Len(requests)
      /\ requests \in [1 .. Len(requests) -> RequestRow]
  OBVIOUS
<1>2. Len(requests') = Len(requests)
  BY <1>1
<1> QED
  BY <1>1, <1>2

LEMMA CallLive ==
    ASSUME requests \in Seq(RequestRow), HumanOK, LiveMeansWaiting,
           NEW r \in 1 .. MaxRuns, CallStep(r)
    PROVE  LiveMeansWaiting'
<1>0. /\ call \in [1 .. MaxRuns -> Calls] /\ call[r] \in Calls
      /\ Len(requests) \in Nat /\ DOMAIN requests = 1 .. Len(requests)
      /\ requests \in [1 .. Len(requests) -> RequestRow]
  BY DEF HumanOK, HumanTypeOK
<1>1. CASE AwaitFinds(r) \/ AwaitEnds(r)
  <2>1. requests' = requests /\ mode' = mode
    BY <1>1 DEF AwaitFinds, AwaitEnds, storeVars, schedulerVars
  <2>2. \A u \in 1 .. MaxRuns \ {r} : call'[u] = call[u]
    BY <1>0, <1>1 DEF AwaitFinds, AwaitEnds
  <2>3. call[r].at \in {"waiting", "off"} =>
           call'[r].at \in {"waiting", "off"} /\ call'[r].req = call[r].req
    <3>1. CASE AwaitFinds(r)
      BY <3>1 DEF AwaitFinds, CallAt
    <3>2. CASE AwaitEnds(r)
      <4>1. call' = [call EXCEPT ![r] = [call[r] EXCEPT !.at = "off",
                                                        !.reply = Asked(r).reply]]
        BY <3>2 DEF AwaitEnds
      <4>2. call'[r] = [call[r] EXCEPT !.at = "off", !.reply = Asked(r).reply]
        BY <1>0, <4>1
      <4> QED
        BY <1>0, <4>2 DEF Calls
    <3> QED
      BY <1>1, <3>1, <3>2
  <2>4. \A u \in 1 .. MaxRuns :
           call[u].at \in {"waiting", "off"} =>
              call'[u].at \in {"waiting", "off"} /\ call'[u].req = call[u].req
    BY <2>2, <2>3
  <2> QED
    BY <2>1, <2>4, LiveKept
<1>2. CASE AwaitGoesLive(r)
  <2>1. /\ requests' = [requests EXCEPT ![call[r].req].live = TRUE]
        /\ call' = [call EXCEPT ![r].at = "waiting"] /\ mode # "down"
        /\ call[r].at = "mark"
    BY <1>2 DEF AwaitGoesLive, SetHumanRequestLive, CallAt
  <2>2. /\ call'[r].at = "waiting" /\ call'[r].req = call[r].req
        /\ \A u \in 1 .. MaxRuns \ {r} : call'[u] = call[u]
    BY <1>0, <2>1 DEF Calls
  <2>3. Len(requests') = Len(requests)
    BY <1>0, <2>1
  <2>4. \A q \in 1 .. Len(requests) : q # call[r].req => requests'[q] = requests[q]
    BY <1>0, <2>1
  <2>5. ASSUME NEW q \in 1 .. Len(requests'), requests'[q].live
        PROVE  \E u \in 1 .. MaxRuns :
                  call'[u].at \in {"waiting", "off"} /\ call'[u].req = q
    <3>1. CASE q = call[r].req
      BY <2>2, <3>1
    <3>2. CASE q # call[r].req
      <4>1. PICK u \in 1 .. MaxRuns :
               call[u].at \in {"waiting", "off"} /\ call[u].req = q
        BY <2>1, <2>3, <2>4, <2>5, <3>2 DEF LiveMeansWaiting
      <4>2. u # r
        BY <2>1, <4>1
      <4>3. call'[u] = call[u]
        BY <2>2, <4>2
      <4> QED
        BY <4>1, <4>3
    <3> QED
      BY <3>1, <3>2
  <2> QED
    BY <2>5 DEF LiveMeansWaiting
<1>3. CASE AwaitReturns(r)
  <2>1. /\ requests' = [requests EXCEPT ![call[r].req].live = FALSE]
        /\ call' = [call EXCEPT ![r] = NoCall] /\ mode # "down"
        /\ call[r].at = "off"
    BY <1>3 DEF AwaitReturns, SetHumanRequestLive, CallAt
  <2>2. Len(requests') = Len(requests)
    BY <1>0, <2>1
  <2>3. ASSUME NEW q \in 1 .. Len(requests'), requests'[q].live
        PROVE  \E u \in 1 .. MaxRuns :
                  call'[u].at \in {"waiting", "off"} /\ call'[u].req = q
    <3>1. q # call[r].req
      BY <1>0, <2>1, <2>2, <2>3 DEF RequestRow
    <3>2. requests'[q] = requests[q]
      BY <1>0, <2>1, <2>2, <3>1
    <3>3. PICK u \in 1 .. MaxRuns :
             call[u].at \in {"waiting", "off"} /\ call[u].req = q
      BY <2>1, <2>2, <2>3, <3>2 DEF LiveMeansWaiting
    <3>4. call'[u] = call[u]
      BY <1>0, <2>1, <3>1, <3>3
    <3> QED
      BY <3>3, <3>4
  <2> QED
    BY <2>3 DEF LiveMeansWaiting
<1> QED
  BY <1>1, <1>2, <1>3 DEF CallStep

\* A new request is not live, and a call that begins waits for nothing yet.
LEMMA AskLive ==
    ASSUME requests \in Seq(RequestRow), HumanOK, LiveMeansWaiting,
           NEW r \in 1 .. MaxRuns, Ask(r) \/ AskAgain(r)
    PROVE  LiveMeansWaiting'
<1>0. /\ call \in [1 .. MaxRuns -> Calls] /\ Len(requests) \in Nat
      /\ mode # "down" /\ call[r].at = "none"
      /\ \A u \in 1 .. MaxRuns \ {r} : call'[u] = call[u]
  <2>1. call \in [1 .. MaxRuns -> Calls] /\ Len(requests) \in Nat
    BY DEF HumanOK, HumanTypeOK
  <2>2. mode # "down" /\ call[r].at = "none"
    BY DEF Ask, AskAgain, Calling
  <2>3. \E k : call' = [call EXCEPT ![r] = k]
    <3>1. CASE Ask(r)
      BY <3>1 DEF Ask
    <3>2. CASE AskAgain(r)
      BY <3>2 DEF AskAgain
    <3> QED
      BY <3>1, <3>2
  <2>4. \A u \in 1 .. MaxRuns \ {r} : call'[u] = call[u]
    BY <2>1, <2>3
  <2> QED
    BY <2>1, <2>2, <2>4
<1>1. PICK more : /\ requests' = requests \/ requests' = Append(requests, more)
                  /\ ~more.live
  <2>1. CASE Ask(r)
    BY <2>1 DEF Ask, CreateHumanRequest
  <2>2. CASE AskAgain(r)
    <3>1. requests' = requests /\ ~[live |-> FALSE].live
      BY <2>2 DEF AskAgain, storeVars
    <3> QED
      BY <3>1
  <2> QED
    BY <2>1, <2>2
<1>2. \A q \in 1 .. Len(requests') : requests'[q].live =>
         q \in 1 .. Len(requests) /\ requests'[q] = requests[q]
  BY <1>0, <1>1
<1>3. ASSUME NEW q \in 1 .. Len(requests'), requests'[q].live
      PROVE  \E u \in 1 .. MaxRuns :
                call'[u].at \in {"waiting", "off"} /\ call'[u].req = q
  <2>1. PICK u \in 1 .. MaxRuns :
           call[u].at \in {"waiting", "off"} /\ call[u].req = q
    BY <1>0, <1>2, <1>3 DEF LiveMeansWaiting
  <2>2. call'[u] = call[u]
    BY <1>0, <2>1
  <2> QED
    BY <2>1, <2>2
<1> QED
  BY <1>3 DEF LiveMeansWaiting

LEMMA LiveNext ==
    ASSUME TypeInv, LiveMeansWaiting, [Next]_vars
    PROVE  LiveMeansWaiting'
<1>0. HumanOK /\ requests \in Seq(RequestRow) /\ RunnerInv
  BY TypeInvHas
<1>1. ASSUME requests' = requests, call' = call, mode' # "down" => mode # "down"
      PROVE  LiveMeansWaiting'
  BY <1>1, LiveKept
<1>2. ASSUME NEW t \in Tasks, Works(t) \/ NamesSession(t) \/ Releases(t)
      PROVE  LiveMeansWaiting'
  <2>1. UNCHANGED <<call, mode>>
    BY <1>2 DEF Works, NamesSession, Releases, WorkerStep, Release, humanVars,
       schedulerVars
  <2>2. requests' = requests
    BY <1>2, RunnerKeepsRequests DEF Works, NamesSession, Releases, WorkerStep,
       Release, storeVars
  <2> QED
    BY <1>1, <2>1, <2>2
<1>3. ASSUME NEW r \in 1 .. MaxRuns, Asks(r) \/ Awaits(r)
      PROVE  LiveMeansWaiting'
  BY <1>0, <1>3, AskLive, CallLive DEF Asks, Awaits
<1>4. ASSUME NEW r \in 1 .. MaxRuns, OrphanExits(r)
      PROVE  LiveMeansWaiting'
  BY <1>1, <1>4 DEF OrphanExits, storeVars, schedulerVars, humanVars
<1>5. ASSUME NEW c \in Clients, Demands(c) \/ Handles(c)
      PROVE  LiveMeansWaiting'
  <2>1. UNCHANGED <<call, mode>>
    BY <1>5 DEF Demands, Handles, UserBegins, SettleChecks, HandlerStep, ReplyStep,
       CreateTask, EditTask, DeleteChecks, PauseChecks, ResumeChecks, SetChecks,
       CommentChecks, RunNowChecks, CancelChecks, Begins, DeletesRow,
       RetiresRequests, WritesStatus, ForgetsAttempts, InsertsComment,
       RunNowLaunches, CancelSignals, CancelAbandons, Decides, Replies, Answers,
       Delivers, Wakes, Elsewhere, humanVars, schedulerVars
  <2>2. CASE requests' = requests
    BY <1>1, <2>1, <2>2
  <2>3. CASE \/ RetiresRequests(c) \/ Decides(c) \/ Answers(c)
    <3>1. CASE RetiresRequests(c)
      <4>1. /\ Len(requests') = Len(requests)
            /\ \A q \in 1 .. Len(requests) : requests'[q].live = requests[q].live
        BY <1>0, <3>1 DEF RetiresRequests, CancelTaskRequests, RequestRow
      <4> QED
        BY <2>1, <4>1, LiveKept
    <3>2. CASE Decides(c) \/ Answers(c)
      <4>1. PICK row : /\ requests' = [requests EXCEPT ![op[c].id] = row]
                       /\ op[c].id \in 1 .. Len(requests)
                             => row.live = requests[op[c].id].live
        <5> DEFINE old == requests[op[c].id]
                   decided == [old EXCEPT !.status = op[c].to]
                   replied == [old EXCEPT !.status = "answered", !.reply = op[c].comment]
        <5>1. \/ requests' = [requests EXCEPT ![op[c].id] = decided]
              \/ requests' = [requests EXCEPT ![op[c].id] = replied]
          BY <3>2 DEF Decides, Answers, SetHumanRequestStatus, SetHumanRequestResponse
        <5>2. op[c].id \in 1 .. Len(requests)
                 => decided.live = old.live /\ replied.live = old.live
          BY <1>0 DEF RequestRow
        <5> HIDE DEF decided, replied
        <5> QED
          BY <5>1, <5>2
      <4>2. /\ Len(requests') = Len(requests)
            /\ \A q \in 1 .. Len(requests) : requests'[q].live = requests[q].live
        BY <1>0, <4>1, ColumnKeepsLive
      <4> QED
        BY <2>1, <4>2, LiveKept
    <3> QED
      BY <2>3, <3>1, <3>2
  <2>4. requests' = requests \/ RetiresRequests(c) \/ Decides(c) \/ Answers(c)
    BY <1>5 DEF Demands, Handles, UserBegins, SettleChecks, HandlerStep, ReplyStep,
       CreateTask, EditTask, DeleteChecks, PauseChecks, ResumeChecks, SetChecks,
       CommentChecks, RunNowChecks, CancelChecks, Begins, DeletesRow, WritesStatus,
       ForgetsAttempts, InsertsComment, RunNowLaunches, CancelSignals,
       CancelAbandons, Replies, Delivers, Wakes, storeVars
  <2> QED
    BY <2>2, <2>3, <2>4
<1>6. CASE Ticks \/ Stops \/ Stopped \/ Signalled
  <2>1. UNCHANGED <<requests, call>>
    BY <1>6 DEF Ticks, TickStep, Stops, Stopped, LoopEnds, Signalled, CancelAll, Terminate,
       ListActiveRuns, LockForReconcile, SkipTracked, UnlockToKill, KillOrphan,
       BuryRun, SettleBuried, UnlockReconciled, FetchResumable, FetchQueued, Decide,
       Suspend, Fail, LaunchPlanned, EndTick, humanVars, storeVars, runnerVars
  <2>2. mode' # "down" => mode # "down"
    BY <1>6 DEF Ticks, TickStep, Stops, Stopped, LoopEnds, Signalled, CancelAll, Terminate,
       ListActiveRuns, LockForReconcile, SkipTracked, UnlockToKill, KillOrphan,
       BuryRun, SettleBuried, UnlockReconciled, FetchResumable, FetchQueued, Decide,
       Suspend, Fail, LaunchPlanned, EndTick
  <2> QED
    BY <1>1, <2>1, <2>2
<1>7. CASE Crash \/ Exit
  BY <1>7 DEF Crash, Exit, Forgotten, LiveMeansWaiting
<1>8. CASE Restart
  <2>1. \A q \in 1 .. Len(requests') : requests'[q].live = FALSE
    BY <1>0, <1>8 DEF Restart, ClearHumanRequestLive, RequestRow
  <2> QED
    BY <2>1 DEF LiveMeansWaiting
<1>9. CASE UNCHANGED vars
  BY <1>1, <1>9 DEF vars, storeVars, schedulerVars, humanVars
<1> QED
  BY <1>2, <1>3, <1>4, <1>5, <1>6, <1>7, <1>8, <1>9 DEF Next

\* With the daemon up, a request is live only while a long poll of this daemon
\* waits on it: no crash, restart or settling order leaves a flag behind that
\* would make a reply look delivered when nobody listens.
THEOREM LiveHolds == Spec => []LiveMeansWaiting
<1>1. Init => LiveMeansWaiting
  BY DEF Init, SchedulerInit, LiveMeansWaiting
<1>2. TypeInv /\ LiveMeansWaiting /\ [Next]_vars => LiveMeansWaiting'
  BY LiveNext
<1>3. Init => TypeInv
  BY TypeInvInit
<1>4. TypeInv /\ [Next]_vars => TypeInv'
  BY TypeInvNext
<1> QED
  BY <1>1, <1>2, <1>3, <1>4, PTL DEF Spec
=============================================================================
