---------------------------- MODULE TriesProofs ----------------------------
(***************************************************************************)
(* What a task remembers of its runs: the cap on its tries and the session *)
(* it resumes.  Both live in the rows, while plans, requests under way and *)
(* launches go by what they have read of them; the argument is that what   *)
(* they have read is out of date only while the task has a worker whose    *)
(* claude has not ended, and that such a worker outlasts its readers.      *)
(***************************************************************************)
EXTENDS OwnershipProofs

\* Sessions are long, and a run that has begun ends only with its claude: no
\* worktree is prepared by git, tokens resolve and claude starts.
Steady == LongRuns /\ AgentTasks = Tasks /\ Faults \subseteq {"session"}

\* No user request puts a task back into the queue.
NoRefiling == Requests \cap {"resume", "set", "comment", "respond"} = {}

-----------------------------------------------------------------------------
(* What the rows say of a task.                                            *)

Latest(t) == LatestRunForTask(t)
LastSession(t) == HasSession(Latest(t))
LastAttempt(t) == IF Latest(t) = 0 THEN 0 ELSE runs[Latest(t)].attempt

\* The tries since the last reset, and those before the newest run.
Tried(t) == {r \in RunsOf(t) : r > resetAt[t] /\ runs[r].session}
Tries(t) == Cardinality(Tried(t))
Earlier(t) == Cardinality(Tried(t) \ {Latest(t)})

\* A step that leaves all of it as it is.
SamePast(t) ==
    /\ Latest(t)' = Latest(t)
    /\ LastSession(t)' = LastSession(t) /\ LastAttempt(t)' = LastAttempt(t)
    /\ Tries(t)' = Tries(t) /\ Earlier(t)' = Earlier(t)
    /\ resetAt'[t] = resetAt[t]

LEMMA PastFacts ==
    ASSUME StoreTypeOK, NEW t \in Tasks
    PROVE  /\ Latest(t) \in 0 .. Len(runs) /\ Len(runs) \in Nat /\ resetAt[t] \in Nat
           /\ LastAttempt(t) \in Nat /\ LastSession(t) \in BOOLEAN
           /\ Tries(t) \in Nat /\ Earlier(t) \in Nat
           /\ Earlier(t) <= Tries(t) /\ Tries(t) <= Earlier(t) + 1
           /\ ~LastSession(t) => Tries(t) = Earlier(t)
           /\ Latest(t) <= resetAt[t] => Tries(t) = 0
<1>1. /\ runs \in Seq(RunRow) /\ resetAt[t] \in Nat /\ Len(runs) \in Nat
      /\ \A r \in 1 .. Len(runs) : runs[r] \in RunRow
  BY DEF StoreTypeOK
<1>2. /\ Latest(t) \in 0 .. Len(runs) /\ \A r \in RunsOf(t) : r <= Latest(t)
      /\ Latest(t) # 0 => Latest(t) \in RunsOf(t)
  BY <1>1, LatestRunIsRun DEF Latest
<1>3. LastAttempt(t) \in Nat /\ LastSession(t) \in BOOLEAN
  BY <1>1, <1>2 DEF LastAttempt, LastSession, HasSession, RunRow, RunsOf
<1>4. IsFiniteSet(Tried(t)) /\ IsFiniteSet(Tried(t) \ {Latest(t)})
  <2>1. IsFiniteSet(1 .. Len(runs)) /\ Tried(t) \subseteq 1 .. Len(runs)
    BY <1>1, FS_Interval DEF Tried, RunsOf
  <2> QED
    BY <2>1, FS_Subset
<1>5. Tries(t) \in Nat /\ Earlier(t) \in Nat
  BY <1>4, FS_CardinalityType DEF Tries, Earlier
<1>6. IF Latest(t) \in Tried(t) THEN Earlier(t) = Tries(t) - 1 ELSE Earlier(t) = Tries(t)
  <2>1. CASE Latest(t) \in Tried(t)
    BY <1>4, <2>1, FS_RemoveElement DEF Tries, Earlier
  <2>2. CASE Latest(t) \notin Tried(t)
    <3>1. Tried(t) \ {Latest(t)} = Tried(t)
      BY <2>2
    <3> QED
      BY <2>2, <3>1 DEF Tries, Earlier
  <2> QED
    BY <2>1, <2>2
<1>7. ~LastSession(t) => Latest(t) \notin Tried(t)
  BY <1>1, <1>2 DEF LastSession, HasSession, Tried, RunsOf
<1>8. Latest(t) <= resetAt[t] => Tries(t) = 0
  <2>1. Latest(t) <= resetAt[t] => Tried(t) = {}
    BY <1>1, <1>2 DEF Tried, RunsOf
  <2> QED
    BY <2>1, FS_EmptySet DEF Tries
<1> QED
  BY <1>1, <1>2, <1>3, <1>5, <1>6, <1>7, <1>8

PastOK ==
    \A t \in Tasks :
        /\ Latest(t) \in Nat /\ resetAt[t] \in Nat
        /\ LastAttempt(t) \in Nat /\ Tries(t) \in Nat /\ Earlier(t) \in Nat
        /\ Earlier(t) <= Tries(t) /\ Tries(t) <= Earlier(t) + 1
        /\ ~LastSession(t) => Tries(t) = Earlier(t)
        /\ Latest(t) <= resetAt[t] => Tries(t) = 0

LEMMA PastHolds == ASSUME StoreTypeOK PROVE PastOK
BY PastFacts DEF PastOK

\* Rows that differ in status or pid only, and the same resets.
LEMMA RowsAlike ==
    ASSUME runs \in Seq(RunRow), NEW t,
           Len(runs') = Len(runs),
           \A r \in 1 .. Len(runs) : /\ runs'[r].task = runs[r].task
                                     /\ runs'[r].session = runs[r].session
                                     /\ runs'[r].attempt = runs[r].attempt,
           resetAt'[t] = resetAt[t]
    PROVE  SamePast(t)
<1>1. RunsOf(t)' = RunsOf(t)
  BY DEF RunsOf
<1>2. Latest(t)' = Latest(t)
  BY <1>1 DEF Latest, LatestRunForTask
<1>3. Tried(t)' = Tried(t)
  BY <1>1 DEF Tried, RunsOf
<1>4. Latest(t) \in 0 .. Len(runs)
  BY LatestRunIsRun DEF Latest
<1>5. LastSession(t)' = LastSession(t) /\ LastAttempt(t)' = LastAttempt(t)
  BY <1>2, <1>4 DEF LastSession, LastAttempt, HasSession
<1> QED
  BY <1>2, <1>3, <1>5 DEF SamePast, Tries, Earlier

\* One row is written: for whose task it is the newest, and what changes.
LEMMA RowWrites ==
    ASSUME runs \in Seq(RunRow), NEW r, NEW row, runs' = [runs EXCEPT ![r] = row],
           r \in 1 .. Len(runs) => /\ row.task = runs[r].task
                                   /\ row.attempt = runs[r].attempt,
           resetAt' = resetAt
    PROVE  /\ (r \in 1 .. Len(runs) => row.session = runs[r].session)
                 => \A t : SamePast(t)
           /\ \A t : r \notin RunsOf(t) => SamePast(t)
           /\ \A t : r \in RunsOf(t) /\ r = Latest(t) =>
                 /\ Latest(t)' = Latest(t) /\ LastAttempt(t)' = LastAttempt(t)
                 /\ Earlier(t)' = Earlier(t) /\ (LastSession(t)' <=> row.session)
                 /\ resetAt'[t] = resetAt[t]
<1>1. /\ Len(runs') = Len(runs) /\ Len(runs) \in Nat
      /\ \A q \in 1 .. Len(runs) : q # r => runs'[q] = runs[q]
      /\ r \in 1 .. Len(runs) => runs'[r] = row
  BY RowAssigned
<1>2. \A t : RunsOf(t)' = RunsOf(t)
  BY <1>1 DEF RunsOf
<1>3. \A t : Latest(t)' = Latest(t)
  BY <1>2 DEF Latest, LatestRunForTask
<1>4. ASSUME r \in 1 .. Len(runs) => row.session = runs[r].session, NEW t
      PROVE  SamePast(t)
  BY <1>1, <1>4, RowsAlike
<1>5. ASSUME NEW t, r \notin RunsOf(t)
      PROVE  SamePast(t)
  <2>1. Tried(t)' = Tried(t)
    BY <1>1, <1>2, <1>5 DEF Tried, RunsOf
  <2>2. Latest(t) # 0 => Latest(t) \in RunsOf(t)
    BY LatestRunIsRun DEF Latest
  <2>3. LastSession(t)' = LastSession(t) /\ LastAttempt(t)' = LastAttempt(t)
    BY <1>1, <1>3, <1>5, <2>2 DEF LastSession, LastAttempt, HasSession, RunsOf
  <2> QED
    BY <1>3, <2>1, <2>3 DEF SamePast, Tries, Earlier
<1>6. ASSUME NEW t, r \in RunsOf(t), r = Latest(t)
      PROVE  /\ LastAttempt(t)' = LastAttempt(t)
             /\ Earlier(t)' = Earlier(t) /\ (LastSession(t)' <=> row.session)
  <2>1. r \in 1 .. Len(runs)
    BY <1>6 DEF RunsOf
  <2>2. Tried(t)' \ {r} = Tried(t) \ {r}
    BY <1>1, <1>2 DEF Tried, RunsOf
  <2>3. Earlier(t)' = Earlier(t)
    BY <1>3, <1>6, <2>2 DEF Earlier
  <2> QED
    BY <1>1, <1>3, <1>6, <2>1, <2>3 DEF LastAttempt, LastSession, HasSession
<1> QED
  BY <1>3, <1>4, <1>5, <1>6

\* A reset forgets every try so far.
LEMMA ResetForgets ==
    ASSUME StoreTypeOK, NEW t \in Tasks, ResetTaskAttempts(t), runs' = runs
    PROVE  /\ \A u \in Tasks \ {t} : SamePast(u)
           /\ Latest(t)' = Latest(t) /\ LastSession(t)' = LastSession(t)
           /\ LastAttempt(t)' = LastAttempt(t) /\ Tries(t)' = 0
           /\ Latest(t) <= resetAt'[t]
<1>1. /\ runs \in Seq(RunRow) /\ Len(runs) \in Nat /\ resetAt \in [Tasks -> Nat]
      /\ \A u : LatestRunForTask(u) \in Nat
  BY LatestRunIsRun DEF StoreTypeOK
<1>2. \A u \in Tasks \ {t} : resetAt'[u] = resetAt[u]
  BY <1>1 DEF ResetTaskAttempts
<1>3. \A u \in Tasks \ {t} : SamePast(u)
  BY <1>1, <1>2, RowsAlike
<1>4. LatestRunForTask(t) <= resetAt'[t] /\ resetAt'[t] \in Nat
  <2> DEFINE S == {resetAt[t], LatestRunForTask(t)}
  <2>1. resetAt[t] \in Nat /\ LatestRunForTask(t) \in Nat
    BY <1>1
  <2>2. \E x \in S : \A y \in S : x >= y
    BY <2>1
  <2>3. Max(S) \in S /\ \A y \in S : Max(S) >= y
    BY <2>2 DEF Max
  <2>4. resetAt'[t] = Max(S)
    BY <1>1 DEF ResetTaskAttempts
  <2> QED
    BY <2>1, <2>3, <2>4
<1>5. Latest(t)' = Latest(t) /\ LastSession(t)' = LastSession(t)
      /\ LastAttempt(t)' = LastAttempt(t)
  BY DEF Latest, LatestRunForTask, RunsOf, LastSession, HasSession, LastAttempt
<1>6. Tried(t)' = {}
  <2>1. \A r \in RunsOf(t) : r <= LatestRunForTask(t) /\ r \in Nat
    BY <1>1, LatestRunIsRun DEF RunsOf
  <2> QED
    BY <1>1, <1>4, <2>1 DEF Tried, RunsOf
<1>7. Tries(t)' = 0
  BY <1>6, FS_EmptySet DEF Tries
<1> QED
  BY <1>3, <1>4, <1>5, <1>7 DEF Latest

\* A new run is the newest of its task, and not yet a try.
LEMMA RunAdded ==
    ASSUME StoreTypeOK, NEW t \in Tasks, NEW n, CreateRun(t, n), resetAt' = resetAt
    PROVE  /\ \A u \in Tasks \ {t} : SamePast(u)
           /\ Latest(t)' = Len(runs) + 1 /\ LastAttempt(t)' = n /\ ~LastSession(t)'
           /\ Tries(t)' = Tries(t) /\ Earlier(t)' = Tries(t)
           /\ resetAt'[t] = resetAt[t]
<1> DEFINE row == [task |-> t, status |-> "starting", attempt |-> n,
                   session |-> FALSE, pid |-> FALSE]
           len == Len(runs)
<1>1. runs \in Seq(RunRow) /\ len \in Nat
  BY DEF StoreTypeOK
<1>2. /\ Len(runs') = len + 1 /\ runs'[len + 1] = row
      /\ \A r \in 1 .. len : runs'[r] = runs[r]
  BY <1>1 DEF CreateRun
<1>3. RunsOf(t)' = RunsOf(t) \cup {len + 1} /\ \A u \in Tasks \ {t} : RunsOf(u)' = RunsOf(u)
  BY <1>1, <1>2 DEF RunsOf
<1>4. \A u \in Tasks : Tried(u)' = Tried(u)
  BY <1>1, <1>2, <1>3 DEF Tried, RunsOf
<1>5. ASSUME NEW u \in Tasks \ {t}
      PROVE  SamePast(u)
  <2>1. Latest(u)' = Latest(u) /\ Latest(u) \in 0 .. len
    BY <1>1, <1>3, LatestRunIsRun DEF Latest, LatestRunForTask
  <2>2. LastSession(u)' = LastSession(u) /\ LastAttempt(u)' = LastAttempt(u)
    BY <1>1, <1>2, <2>1 DEF LastSession, LastAttempt, HasSession
  <2> QED
    BY <1>4, <2>1, <2>2 DEF SamePast, Tries, Earlier
<1>6. Latest(t)' = len + 1
  <2> DEFINE S == RunsOf(t) \cup {len + 1} \cup {0}
  <2>1. len + 1 \in S /\ \A y \in S : len + 1 >= y /\ y \in Nat
    BY <1>1 DEF RunsOf
  <2>2. Max(S) \in S /\ \A y \in S : Max(S) >= y
    <3>1. \E x \in S : \A y \in S : x >= y
      BY <2>1
    <3> QED
      BY <3>1 DEF Max
  <2>3. Max(S) = len + 1
    <3> HIDE DEF S
    <3> QED
      BY <1>1, <2>1, <2>2
  <2> QED
    BY <1>3, <2>3 DEF Latest, LatestRunForTask
<1>7. LastAttempt(t)' = n /\ ~LastSession(t)'
  BY <1>1, <1>2, <1>6 DEF LastAttempt, LastSession, HasSession
<1>8. Tries(t)' = Tries(t) /\ Earlier(t)' = Tries(t)
  <2>1. Tried(t)' \ {len + 1} = Tried(t)
    BY <1>1, <1>4 DEF Tried, RunsOf
  <2> QED
    BY <1>4, <1>6, <2>1 DEF Tries, Earlier
<1> QED
  BY <1>5, <1>6, <1>7, <1>8

-----------------------------------------------------------------------------
(* What a step of a worker does to its task.                               *)

Ready == {"start", "workspace"}
AtWork == {"carry", "mark", "token", "invoke", "spawned", "working"}
Ending == {"exited", "finish", "consume", "settle"}

\* The places of a run that nothing but its claude ends, the run its worker
\* writes to, and a task nobody has created yet.
Plain(t) ==
    /\ worker[t].pc \in Ready \cup AtWork \cup Ending \cup {"idle", "reset", "done"}
    /\ worker[t].run # 0 => worker[t].run = Latest(t)
    /\ worker[t].pc = "carry" => worker[t].resume # 0
    /\ status[t] = "none" => Latest(t) = 0 /\ worker[t].pc = "idle"

Same(t) == SamePast(t) /\ status'[t] = status[t]

\* The worker goes from one place to another.
Goes(t, from, to) ==
    /\ worker[t].pc = from /\ worker'[t].pc = to
    /\ worker'[t].attempt = worker[t].attempt

Onward(t) == worker'[t].run = worker[t].run /\ worker'[t].resume = worker[t].resume

\* It only goes on.
Proceeds(t) ==
    /\ Same(t) /\ Onward(t)
    /\ \/ Goes(t, "start", "workspace") \/ Goes(t, "workspace", "done")
       \/ Goes(t, "token", "invoke") \/ Goes(t, "invoke", "spawned")
       \/ Goes(t, "spawned", "working") \/ Goes(t, "working", "invoke")
       \/ Goes(t, "working", "exited") \/ Goes(t, "exited", "finish")
       \/ Goes(t, "finish", "consume") \/ Goes(t, "finish", "settle")
       \/ Goes(t, "consume", "settle")

\* Its run is inserted.
Inserts(t) ==
    /\ Goes(t, "workspace", IF worker[t].resume # 0 THEN "carry" ELSE "mark")
    /\ worker'[t].resume = worker[t].resume /\ worker'[t].run = Latest(t)'
    /\ status'[t] = status[t] /\ status[t] # "none"
    /\ Latest(t)' > Latest(t) /\ Latest(t)' # 0
    /\ LastAttempt(t)' = worker[t].attempt /\ ~LastSession(t)'
    /\ Tries(t)' = Tries(t) /\ Earlier(t)' = Tries(t)
    /\ resetAt'[t] = resetAt[t]

\* Its run gains a session, or loses it.
Names(t, on) ==
    /\ status'[t] = status[t] /\ worker'[t].run = worker[t].run
    /\ Latest(t)' = Latest(t) /\ LastAttempt(t)' = LastAttempt(t)
    /\ Earlier(t)' = Earlier(t) /\ resetAt'[t] = resetAt[t]
    /\ LastSession(t)' <=> on

\* Its task is marked as running, settled, or made to forget its tries.
Marks(t) ==
    /\ SamePast(t) /\ Onward(t) /\ Goes(t, "mark", "token")
    /\ SetTaskStatus(t, "running")

Settles(t) ==
    /\ SamePast(t) /\ Onward(t)
    /\ \E s \in TaskStatus :
          /\ SetTaskStatus(t, s)
          /\ \/ Goes(t, "settle", "done") /\ s # "queued"
             \/ Goes(t, "settle", "reset") /\ (s = "queued" => ~LastSession(t))

Forgets(t) ==
    /\ status'[t] = status[t] /\ Onward(t) /\ Goes(t, "reset", "done")
    /\ Latest(t)' = Latest(t) /\ LastSession(t)' = LastSession(t)
    /\ LastAttempt(t)' = LastAttempt(t) /\ Tries(t)' = 0
    /\ Latest(t)' <= resetAt'[t]

\* One of these, and nothing to the other tasks.
Moves(t) ==
    /\ \/ Proceeds(t) \/ Inserts(t) \/ Marks(t) \/ Settles(t) \/ Forgets(t)
       \/ Names(t, TRUE) /\ Onward(t)
             /\ (Goes(t, "carry", "mark") \/ Goes(t, "working", "working"))
       \/ Names(t, FALSE) /\ "session" \in Faults /\ Goes(t, "working", "invoke")
    /\ \A u \in Tasks \ {t} : Same(u) /\ worker'[u] = worker[u]

\* Steps that write to no row of runs.
LEMMA MovesAside ==
    ASSUME Steady, RunnerInv, NEW t \in Tasks, Plain(t),
           \/ ReadComments(t) \/ NoTaskToRun(t) \/ Spawn(t) \/ ClaudeExits(t)
           \/ Consume(t) \/ MarkRunning(t) \/ Settle(t)
    PROVE  Moves(t)
<1>0. /\ worker \in [Tasks -> Worker] /\ worker[t] \in Worker /\ runs \in Seq(RunRow)
      /\ status \in [Tasks -> TaskStatus \cup Missing]
      /\ worker[t].pc \notin Rowless => worker[t].run \in 1 .. Len(runs)
  BY DEF RunnerInv, RunnerTypeOK, StoreTypeOK, WorkerOK
<1>1. runs' = runs /\ resetAt' = resetAt
  BY DEF ReadComments, NoTaskToRun, Spawn, ClaudeExits, Consume, MarkRunning, Settle,
     storeVars
<1>2. \A u \in Tasks : SamePast(u)
  BY <1>0, <1>1, RowsAlike
<1>3. \A u \in Tasks \ {t} : worker'[u] = worker[u]
  BY <1>0 DEF ReadComments, NoTaskToRun, Spawn, ClaudeExits, Consume, MarkRunning,
     Settle, Goto
<1>4. CASE ReadComments(t) \/ NoTaskToRun(t) \/ Spawn(t) \/ ClaudeExits(t) \/ Consume(t)
  <2>1. status' = status
    BY <1>4 DEF ReadComments, NoTaskToRun, Spawn, ClaudeExits, Consume, storeVars
  <2>2. Onward(t)
    BY <1>0, <1>4 DEF ReadComments, NoTaskToRun, Spawn, ClaudeExits, Consume, Goto,
       Onward, Worker
  <2>3. \/ Goes(t, "start", "workspace") \/ Goes(t, "workspace", "done")
        \/ Goes(t, "invoke", "spawned") \/ Goes(t, "working", "exited")
        \/ Goes(t, "consume", "settle")
    BY <1>0, <1>4 DEF Plain, Ready, AtWork, Ending, ReadComments, NoTaskToRun, Spawn,
       ClaudeExits, Consume, Goto, At, Goes, Worker
  <2> QED
    BY <1>2, <1>3, <2>1, <2>2, <2>3 DEF Moves, Proceeds, Same
<1>5. CASE MarkRunning(t)
  <2>1. Onward(t) /\ Goes(t, "mark", "token") /\ SetTaskStatus(t, "running")
    BY <1>0, <1>5 DEF MarkRunning, Goto, At, Onward, Goes, Worker
  <2>2. \A u \in Tasks \ {t} : status'[u] = status[u]
    BY <1>0, <2>1 DEF SetTaskStatus
  <2> QED
    BY <1>2, <1>3, <2>1, <2>2 DEF Moves, Marks, Same
<1>6. CASE Settle(t)
  <2> DEFINE s == TaskStatusFor(t)
  <2>1. /\ SetTaskStatus(t, s) /\ worker[t].pc = "settle" /\ Onward(t)
        /\ Goes(t, "settle", IF worker[t].exit = "answered" THEN "reset" ELSE "done")
    BY <1>0, <1>6 DEF Settle, Goto, At, Onward, Goes, Worker
  <2>2. worker[t].run = Latest(t) /\ worker[t].run # 0
    BY <1>0, <2>1 DEF Rowless, Plain
  <2>3. LastSession(t) <=> runs[worker[t].run].session
    BY <2>2 DEF LastSession, HasSession
  <2>4. s \in TaskStatus /\ (s = "queued" => worker[t].exit = "answered" /\ ~LastSession(t))
    BY <2>3 DEF TaskStatusFor, TaskStatusAfterInterruption, TaskStatus, RunOf
  <2>5. \A u \in Tasks \ {t} : status'[u] = status[u]
    BY <1>0, <2>1 DEF SetTaskStatus
  <2> HIDE DEF s
  <2>6. Settles(t)
    BY <1>2, <2>1, <2>4 DEF Settles
  <2> QED
    BY <1>2, <1>3, <2>5, <2>6 DEF Moves, Same
<1> QED
  BY <1>4, <1>5, <1>6

\* Steps that write to the row of the worker's run.
LEMMA MovesRow ==
    ASSUME RunnerInv, RowsOK, NEW t \in Tasks, Plain(t),
           \/ CarrySession(t) \/ Begin(t) \/ RecordPid(t) \/ AutoContinue(t)
           \/ SessionMissing(t) \/ Classify(t) \/ Finish(t) \/ SessionInit(t)
    PROVE  Moves(t)
<1> DEFINE r == worker[t].run
           old == runs[r]
<1>0. /\ worker \in [Tasks -> Worker] /\ worker[t] \in Worker /\ runs \in Seq(RunRow)
      /\ worker[t].pc \notin Rowless => r \in 1 .. Len(runs)
  BY DEF RunnerInv, RunnerTypeOK, StoreTypeOK, WorkerOK
<1>1. r \in 1 .. Len(runs) /\ old \in RunRow
  BY <1>0 DEF CarrySession, Begin, RecordPid, AutoContinue, SessionMissing, Classify,
     Finish, SessionInit, At, Rowless
<1>2. r \in RunsOf(t) /\ r = Latest(t) /\ old.task = t
  BY <1>1 DEF Plain, RowsOK, RunsOf
<1>3. status' = status /\ resetAt' = resetAt
  BY DEF CarrySession, Begin, RecordPid, AutoContinue, SessionMissing, Classify, Finish,
     SessionInit
<1>4. \A u \in Tasks \ {t} : worker'[u] = worker[u]
  BY <1>0 DEF CarrySession, Begin, RecordPid, AutoContinue, SessionMissing, Classify,
     Finish, SessionInit, Goto
<1>5. worker'[t].run = r
  BY <1>0 DEF CarrySession, Begin, RecordPid, AutoContinue, SessionMissing, Classify,
     Finish, SessionInit, Goto, Worker
<1>6. \E row :
         /\ runs' = [runs EXCEPT ![r] = row]
         /\ row.task = old.task /\ row.attempt = old.attempt
         /\ \/ /\ row.session = old.session /\ worker'[t].resume = worker[t].resume
               /\ \/ Goes(t, "token", "invoke") \/ Goes(t, "spawned", "working")
                  \/ Goes(t, "working", "invoke") \/ Goes(t, "exited", "finish")
                  \/ Goes(t, "finish", "consume") \/ Goes(t, "finish", "settle")
            \/ /\ row.session = TRUE /\ worker'[t].resume = worker[t].resume
               /\ Goes(t, "carry", "mark") \/ Goes(t, "working", "working")
            \/ /\ row.session = FALSE /\ "session" \in Faults
               /\ Goes(t, "working", "invoke")
  <2> DEFINE OK(row) == <1>6!(row)
  <2>2. CASE CarrySession(t)
    <3>1. OK([old EXCEPT !.session = TRUE, !.status = "resuming"])
      BY <1>0, <1>1, <2>2 DEF CarrySession, At, Goto, Goes, RunOf, Worker, RunRow
    <3> QED
      BY <3>1
  <2>4. CASE Begin(t)
    <3>1. OK([old EXCEPT !.status = "running"])
      BY <1>0, <1>1, <2>4 DEF Begin, At, Goto, Goes, RunOf, Worker, RunRow
    <3> QED
      BY <3>1
  <2>5. CASE RecordPid(t)
    <3>1. OK([old EXCEPT !.pid = TRUE])
      BY <1>0, <1>1, <2>5 DEF RecordPid, At, Goto, Goes, RunOf, Worker, RunRow
    <3> QED
      BY <3>1
  <2>6. CASE AutoContinue(t)
    <3>1. OK([old EXCEPT !.status = "resuming", !.pid = FALSE])
      BY <1>0, <1>1, <2>6 DEF AutoContinue, At, Goes, RunOf, Worker, RunRow
    <3> QED
      BY <3>1
  <2>7. CASE SessionMissing(t)
    <3>1. OK([old EXCEPT !.session = FALSE, !.status = "running", !.pid = FALSE])
      BY <1>0, <1>1, <2>7 DEF SessionMissing, At, Goes, RunOf, Worker, RunRow
    <3> QED
      BY <3>1
  <2>8. CASE Classify(t)
    <3>1. OK([old EXCEPT !.pid = FALSE])
      BY <1>0, <1>1, <2>8 DEF Classify, At, Goes, RunOf, Worker, RunRow
    <3> QED
      BY <3>1
  <2>9. CASE Finish(t)
    <3>1. OK([old EXCEPT !.status = RunStatusFor[worker[t].exit]])
      BY <1>0, <1>1, <2>9 DEF Finish, FinishRun, At, Goto, Goes, RunOf, Worker, RunRow
    <3> QED
      BY <3>1
  <2>10. CASE SessionInit(t)
    <3>1. OK([old EXCEPT !.session = TRUE])
      BY <1>0, <1>1, <2>10 DEF SessionInit, At, Goes, RunOf, Worker, RunRow
    <3> QED
      BY <3>1
  <2> QED
    BY <2>2, <2>4, <2>5, <2>6, <2>7, <2>8, <2>9, <2>10
<1>7. PICK row : <1>6!(row)
  BY <1>6
<1> HIDE DEF r
<1>8. /\ row.session = old.session => \A u : SamePast(u)
      /\ \A u : r \notin RunsOf(u) => SamePast(u)
      /\ Latest(t)' = Latest(t) /\ LastAttempt(t)' = LastAttempt(t)
      /\ Earlier(t)' = Earlier(t) /\ (LastSession(t)' <=> row.session)
      /\ resetAt'[t] = resetAt[t]
  BY <1>0, <1>2, <1>3, <1>7, RowWrites
<1>9. \A u \in Tasks \ {t} : Same(u) /\ worker'[u] = worker[u]
  <2>1. \A u \in Tasks \ {t} : r \notin RunsOf(u)
    BY <1>2 DEF RunsOf
  <2> QED
    BY <1>3, <1>4, <1>8, <2>1 DEF Same
<1> QED
  BY <1>3, <1>5, <1>7, <1>8, <1>9 DEF Moves, Proceeds, Names, Onward, Same, r

\* The run is inserted; an answered one makes the task forget its tries.
LEMMA MovesRest ==
    ASSUME RunnerInv, RowsOK, NEW t \in Tasks, Plain(t),
           StartRun(t) \/ ResetAfterAnswer(t)
    PROVE  Moves(t)
<1>0. /\ worker \in [Tasks -> Worker] /\ worker[t] \in Worker /\ StoreTypeOK
      /\ Len(runs) \in Nat /\ Latest(t) \in 0 .. Len(runs)
  BY PastFacts DEF RunnerInv, RunnerTypeOK
<1>1. CASE StartRun(t)
  <2>1. /\ CreateRun(t, worker[t].attempt) /\ resetAt' = resetAt /\ status' = status
        /\ status[t] # "none" /\ worker[t].pc = "workspace"
    BY <1>1 DEF StartRun, Exists, Missing, At
  <2>2. /\ worker'[t].run = Len(runs) + 1 /\ worker'[t].resume = worker[t].resume
        /\ Goes(t, "workspace", IF worker[t].resume # 0 THEN "carry" ELSE "mark")
        /\ \A u \in Tasks \ {t} : worker'[u] = worker[u]
    BY <1>0, <1>1, <2>1 DEF StartRun, Worker, Goes
  <2>3. /\ \A u \in Tasks \ {t} : SamePast(u)
        /\ Latest(t)' = Len(runs) + 1 /\ LastAttempt(t)' = worker[t].attempt
        /\ ~LastSession(t)'
        /\ Tries(t)' = Tries(t) /\ Earlier(t)' = Tries(t)
        /\ resetAt'[t] = resetAt[t]
    BY <1>0, <2>1, RunAdded
  <2>4. Latest(t)' > Latest(t) /\ Latest(t)' # 0 /\ worker'[t].run = Latest(t)'
    BY <1>0, <2>2, <2>3
  <2>5. status'[t] = status[t]
    BY <2>1
  <2>6. Inserts(t)
    BY <2>1, <2>2, <2>3, <2>4, <2>5 DEF Inserts
  <2>7. \A u \in Tasks \ {t} : Same(u)
    BY <2>1, <2>3 DEF Same
  <2> QED
    BY <2>2, <2>6, <2>7 DEF Moves
<1>2. CASE ResetAfterAnswer(t)
  <2>1. /\ ResetTaskAttempts(t) /\ runs' = runs /\ status' = status
        /\ Onward(t) /\ Goes(t, "reset", "done")
        /\ \A u \in Tasks \ {t} : worker'[u] = worker[u]
    BY <1>0, <1>2 DEF ResetAfterAnswer, At, Goto, Goes, Onward, Worker
  <2>2. /\ \A u \in Tasks \ {t} : SamePast(u)
        /\ Latest(t)' = Latest(t) /\ LastSession(t)' = LastSession(t)
        /\ LastAttempt(t)' = LastAttempt(t) /\ Tries(t)' = 0
        /\ Latest(t)' <= resetAt'[t]
    BY <1>0, <2>1, ResetForgets
  <2> QED
    BY <2>1, <2>2 DEF Moves, Forgets, Same
<1> QED
  BY <1>1, <1>2

\* The other steps need a fault that is ruled out, or a place not reached.
LEMMA WorkerMoves ==
    ASSUME Steady, RunnerInv, RowsOK, NEW t \in Tasks, Plain(t),
           RunnerStep(t) \/ SessionInit(t)
    PROVE  Moves(t)
<1>1. /\ ~WorkspaceFails(t) /\ ~PreflightRun(t) /\ ~PreflightFinish(t)
      /\ ~PreflightSettle(t) /\ ~TokenFails(t) /\ ~TokenSettle(t) /\ ~SpawnFails(t)
  BY DEF Steady, Plain, Ready, AtWork, Ending, WorkspaceFails, PreflightRun,
     PreflightFinish, PreflightSettle, TokenFails, TokenSettle, SpawnFails, At
<1> QED
  BY <1>1, MovesAside, MovesRow, MovesRest DEF RunnerStep

-----------------------------------------------------------------------------
(* What any step does to a task.                                           *)

\* What a plan, or a launch by hand under way, has read of a task.
OpCand(c) == [task |-> op[c].task, resume |-> op[c].id, attempt |-> op[c].attempt]

Known ==
    {sched.cands[i] : i \in 1 .. Len(sched.cands)}
        \cup {OpCand(c) : c \in {d \in Clients : op[d].at = "launch"}}

\* A handler has requeued the task and is about to make it forget its tries.
Resetting(t) == \E c \in Clients : op[c].at = "reset" /\ op[c].task = t

SameWorker(t) ==
    /\ worker'[t].pc = worker[t].pc /\ worker'[t].run = worker[t].run
    /\ worker'[t].resume = worker[t].resume /\ worker'[t].attempt = worker[t].attempt

Still(t) == Same(t) /\ SameWorker(t)

\* At most its status is written: from "none" by the user who creates it, to
\* "queued" only then or where a reset follows.
Keeps(t) ==
    /\ SamePast(t) /\ SameWorker(t)
    /\ status'[t] = "none" => status[t] = "none"
    /\ status'[t] = "queued" => \/ status[t] \in {"none", "queued"}
                                \/ ~NoRefiling /\ Resetting(t)'

\* Its worker does what it does; its claude ends only when nobody is deciding.
Advances(t) ==
    /\ Moves(t)
    /\ Goes(t, "working", "exited") => \A k \in Known : k.task # t

\* It is launched, by a plan or by hand.
Launched(t) ==
    /\ Same(t)
    /\ worker[t].pc = "idle" /\ worker'[t].pc = "start" /\ worker'[t].run = 0
    /\ \E k \in Known :
          /\ k.task = t /\ ~Capped(k)
          /\ worker'[t].resume = k.resume
          /\ worker'[t].attempt = IF k.resume # 0 THEN k.attempt + 1 ELSE 1

\* A user has it forget its tries.
Resets(t) ==
    /\ status'[t] = status[t] /\ SameWorker(t)
    /\ Latest(t)' = Latest(t) /\ LastSession(t)' = LastSession(t)
    /\ LastAttempt(t)' = LastAttempt(t) /\ Tries(t)' = 0
    /\ Latest(t)' <= resetAt'[t]

\* Its worker is released, or the daemon is gone.
Leaves(t) ==
    /\ Same(t)
    /\ worker'[t].pc = "idle" /\ worker'[t].run = 0
    /\ worker[t].pc = "done" \/ (Signals # {} /\ Known' = {})

Effect(t) == Keeps(t) \/ Advances(t) \/ Launched(t) \/ Resets(t) \/ Leaves(t)

\* What a step does to what is known: nothing is added but by a query.
Queried == Known' \subseteq Known \cup ResumableRuns \cup QueuedTasks
               /\ \A t \in Tasks : Still(t)

Unforgotten(t) == Resetting(t) => Resetting(t)' \/ Resets(t) \/ Signals # {}

StepKind ==
    /\ \A t \in Tasks : Effect(t) /\ Unforgotten(t)
    /\ Known' \subseteq Known \/ Queried

\* What handlers and plans are made of.
OpOK(o) ==
    /\ o.at \in {"retire", "write"} /\ o.to = "queued" => o.reset
    /\ NoRefiling =>
          /\ o.at \notin {"retire", "comment", "reply", "answer", "deliver", "wake",
                          "reset"}
          /\ o.at = "write" => o.to # "queued" /\ ~o.reset

OpsOK == \A c \in Clients : OpOK(op[c])

PlanOK ==
    /\ \A i, j \in 1 .. Len(sched.cands) :
          i < j /\ sched.cands[i].task = sched.cands[j].task => sched.cands[j].resume = 0
    /\ sched.pc = "fetchqueued" =>
          \A i, j \in 1 .. Len(sched.cands) :
             i # j => sched.cands[i].task # sched.cands[j].task
    /\ \A i \in sched.launch : ~Capped(RowFor(sched.cands[i].task))

\* The loop has ended, or is about to.
Over == {"waiting", "stopped"}

StayingUp == Signals = {} => mode # "stopping" /\ sched.pc \notin Over


TasksOK ==
    /\ \A t \in Tasks : Plain(t)
    /\ \A k \in Known : k.task \in Tasks /\ status[k.task] # "none"

Ground == OpsOK /\ PlanOK /\ StayingUp

\* Nothing is known of a task that is not there, and its worker stays plain.
LEMMA TasksOKKept ==
    ASSUME TypeOK, TypeOK', TasksOK, StepKind
    PROVE  TasksOK'
<1>0. /\ worker \in [Tasks -> Worker] /\ status \in [Tasks -> TaskStatus \cup Missing]
      /\ \A t \in Tasks : worker[t] \in Worker
  BY DEF TypeOK, StoreTypeOK, RunnerTypeOK
<1>1. ASSUME NEW t \in Tasks
      PROVE  /\ Plain(t)'
             /\ status[t] # "none" => status'[t] # "none"
  <2>0. Effect(t) /\ Plain(t)
    BY DEF StepKind, TasksOK
  <2>1. CASE Keeps(t)
    BY <2>0, <2>1 DEF Keeps, SamePast, SameWorker, Plain
  <2>2. CASE Advances(t)
    <3>1. CASE Proceeds(t)
      BY <2>0, <3>1 DEF Proceeds, Onward, Goes, Same, SamePast, Plain, AtWork, Ending, Ready
    <3>2. CASE Inserts(t)
      BY <2>0, <3>2 DEF Inserts, Goes, Plain, AtWork
    <3>3. CASE Marks(t) \/ Settles(t) \/ Forgets(t)
      <4>1. status'[t] = "none" => status[t] = "none"
        BY <1>0, <3>3 DEF Marks, Settles, Forgets, SetTaskStatus, TaskStatus
      <4>2. status[t] # "none"
        BY <2>0, <3>3 DEF Plain, Marks, Settles, Forgets, Goes
      <4> QED
        BY <2>0, <3>3, <4>1, <4>2 DEF Marks, Settles, Forgets, Onward, Goes, SamePast,
           Plain, AtWork
    <3>4. CASE \E on \in BOOLEAN : Names(t, on)
                   /\ (Goes(t, "carry", "mark") \/ Goes(t, "working", "working")
                         \/ Goes(t, "working", "invoke"))
      BY <2>0, <3>4 DEF Names, Goes, Plain, AtWork
    <3> QED
      BY <2>2, <3>1, <3>2, <3>3, <3>4 DEF Advances, Moves
  <2>3. CASE Launched(t)
    BY <2>0, <2>3 DEF Launched, TasksOK, Plain, Same, SamePast, Ready
  <2>4. CASE Resets(t)
    BY <2>0, <2>4 DEF Resets, SameWorker, Plain
  <2>5. CASE Leaves(t)
    BY <2>0, <2>5 DEF Leaves, Plain, Same, SamePast
  <2> QED
    BY <2>0, <2>1, <2>2, <2>3, <2>4, <2>5 DEF Effect
<1>2. \A k \in Known' : k.task \in Tasks /\ status'[k.task] # "none"
  <2>1. CASE Known' \subseteq Known
    BY <1>1, <2>1 DEF TasksOK
  <2>2. CASE Queried
    <3>1. \A k \in ResumableRuns \cup QueuedTasks : k.task \in Tasks /\ status[k.task] # "none"
      BY DEF ResumableRuns, QueuedTasks
    <3> QED
      BY <1>1, <2>2, <3>1 DEF TasksOK, Queried
  <2> QED
    BY <2>1, <2>2 DEF StepKind
<1> QED
  BY <1>1, <1>2 DEF TasksOK

-----------------------------------------------------------------------------
(* Resume, never restart.                                                  *)

\* A task stands in the queue only if its newest run has no session, and not
\* while a claude of its own is at work or its end is being written down.
FreshAt(t) ==
    /\ status[t] = "queued" =>
          ~LastSession(t) /\ worker[t].pc \notin (AtWork \ {"mark"}) \cup Ending
    /\ worker[t].pc \in Ready \cup {"carry", "mark"} /\ worker[t].resume # 0 =>
          status[t] # "queued"
    /\ worker[t].pc \in Ready /\ worker[t].resume = 0 => ~LastSession(t)

\* A candidate without a session is one still, unless its task has a worker at
\* work; one with a session keeps it.
FreshCand(k) ==
    LET t == k.task
    IN  /\ k.resume = 0 => ~LastSession(t) \/ worker[t].pc \in AtWork
        /\ k.resume # 0 => /\ status[t] # "queued"
                           /\ worker[t].pc \in Ending => LastSession(t)

FreshInv == (\A t \in Tasks : FreshAt(t)) /\ \A k \in Known : FreshCand(k)

LEMMA FreshAtKept ==
    ASSUME NoRefiling, TypeOK, TasksOK, StepKind, FreshInv, NEW t \in Tasks
    PROVE  FreshAt(t)'
<1>0. Effect(t) /\ Plain(t) /\ FreshAt(t) /\ \A k \in Known : FreshCand(k)
  BY DEF StepKind, TasksOK, FreshInv
<1>1. CASE Keeps(t)
  <2>1. CASE status[t] = "none"
    <3>1. ~LastSession(t)
      BY <1>0, <2>1 DEF Plain, LastSession, HasSession
    <3> QED
      BY <1>0, <1>1, <2>1, <3>1 DEF Keeps, SamePast, SameWorker, Plain, FreshAt,
         AtWork, Ending, Ready
  <2>2. CASE status[t] # "none"
    BY <1>0, <1>1, <2>2 DEF Keeps, SamePast, SameWorker, FreshAt
  <2> QED
    BY <2>1, <2>2
<1>2. CASE Advances(t)
  <2>1. CASE Proceeds(t)
    BY <1>0, <2>1 DEF Proceeds, Same, SamePast, Onward, Goes, FreshAt, Ready, AtWork, Ending
  <2>2. CASE Inserts(t)
    BY <1>0, <2>2 DEF Inserts, Goes, FreshAt, Ready, AtWork, Ending
  <2>3. CASE Marks(t)
    <3>1. status'[t] # "queued"
      BY <2>3 DEF Marks, SetTaskStatus, Exists, Missing, TypeOK, StoreTypeOK
    <3> QED
      BY <2>3, <3>1 DEF Marks, Goes, FreshAt, Ready
  <2>4. CASE Settles(t)
    <3>1. status'[t] = "queued" => worker'[t].pc \in {"reset", "done"} /\ ~LastSession(t)
      BY <1>0, <2>4 DEF Settles, Goes, SetTaskStatus, FreshAt, Ending, TypeOK, StoreTypeOK
    <3>2. worker'[t].pc \in {"reset", "done"}
      BY <2>4 DEF Settles, Goes
    <3> QED
      BY <2>4, <3>1, <3>2 DEF Settles, SamePast, FreshAt, AtWork, Ending, Ready
  <2>5. CASE Forgets(t)
    BY <1>0, <2>5 DEF Forgets, Goes, FreshAt, Ready, AtWork, Ending
  <2>6. CASE Names(t, TRUE) /\ Onward(t) /\ (Goes(t, "carry", "mark") \/ Goes(t, "working", "working"))
    BY <1>0, <2>6 DEF Names, Onward, Goes, FreshAt, Ready, AtWork, Ending, Plain
  <2>7. CASE Names(t, FALSE) /\ Goes(t, "working", "invoke")
    BY <1>0, <2>7 DEF Names, Goes, FreshAt, Ready, AtWork, Ending
  <2> QED
    BY <1>2, <2>1, <2>2, <2>3, <2>4, <2>5, <2>6, <2>7 DEF Advances, Moves
<1>3. CASE Launched(t)
  BY <1>0, <1>3 DEF Launched, Same, SamePast, FreshAt, FreshCand, Ready, AtWork, Ending
<1>4. CASE Resets(t)
  BY <1>0, <1>4 DEF Resets, SameWorker, FreshAt
<1>5. CASE Leaves(t)
  BY <1>0, <1>5 DEF Leaves, Same, SamePast, FreshAt, Ready, AtWork, Ending
<1> QED
  BY <1>0, <1>1, <1>2, <1>3, <1>4, <1>5 DEF Effect

LEMMA FreshCandKept ==
    ASSUME NoRefiling, TypeOK, TasksOK, StepKind, FreshInv, NEW k \in Known, k \in Known'
    PROVE  FreshCand(k)'
<1> DEFINE t == k.task
<1>0. /\ t \in Tasks /\ status[t] # "none" /\ FreshCand(k) /\ FreshAt(t) /\ Effect(t)
      /\ Plain(t)
  BY DEF StepKind, TasksOK, FreshInv
<1> HIDE DEF t
<1>1. CASE Keeps(t)
  BY <1>0, <1>1 DEF Keeps, SamePast, SameWorker, FreshCand, t
<1>2. CASE Advances(t)
  <2>0. ~Goes(t, "working", "exited")
    BY <1>2 DEF Advances, t
  <2>1. CASE Proceeds(t)
    BY <1>0, <2>0, <2>1 DEF Proceeds, Same, SamePast, Onward, Goes, FreshCand, AtWork, Ending, t
  <2>2. CASE Inserts(t)
    BY <1>0, <2>2 DEF Inserts, Goes, FreshCand, AtWork, Ending, t
  <2>3. CASE Marks(t)
    <3>1. status'[t] # "queued"
      BY <1>0, <2>3 DEF Marks, SetTaskStatus, Exists, Missing, TypeOK, StoreTypeOK
    <3> QED
      BY <1>0, <2>3, <3>1 DEF Marks, Goes, FreshCand, AtWork, Ending, t
  <2>4. CASE Settles(t)
    <3>1. k.resume # 0 => status'[t] # "queued"
      BY <1>0, <2>4 DEF Settles, Goes, SetTaskStatus, FreshCand, Ending, TypeOK,
         StoreTypeOK, t
    <3> QED
      BY <1>0, <2>4, <3>1 DEF Settles, SamePast, Goes, FreshCand, AtWork, Ending, t
  <2>5. CASE Forgets(t)
    BY <1>0, <2>5 DEF Forgets, Goes, FreshCand, AtWork, Ending, t
  <2>6. CASE Names(t, TRUE) /\ Onward(t) /\ (Goes(t, "carry", "mark") \/ Goes(t, "working", "working"))
    BY <1>0, <2>6 DEF Names, Onward, Goes, FreshCand, AtWork, Ending, t
  <2>7. CASE Names(t, FALSE) /\ Goes(t, "working", "invoke")
    BY <1>0, <2>7 DEF Names, Goes, FreshCand, AtWork, Ending, t
  <2> QED
    BY <1>2, <2>1, <2>2, <2>3, <2>4, <2>5, <2>6, <2>7 DEF Advances, Moves
<1>3. CASE Launched(t)
  BY <1>0, <1>3 DEF Launched, Same, SamePast, FreshCand, AtWork, Ending, t
<1>4. CASE Resets(t)
  BY <1>0, <1>4 DEF Resets, SameWorker, FreshCand, t
<1>5. CASE Leaves(t)
  BY <1>0, <1>5 DEF Leaves, Same, SamePast, FreshCand, AtWork, Ending, t
<1> QED
  BY <1>0, <1>1, <1>2, <1>3, <1>4, <1>5 DEF Effect

LEMMA FreshKept ==
    ASSUME NoRefiling, TypeOK, TasksOK, StepKind, FreshInv
    PROVE  FreshInv'
<1>1. \A t \in Tasks : FreshAt(t)'
  BY FreshAtKept
<1>2. ASSUME NEW k \in Known', k \notin Known
      PROVE  FreshCand(k)'
  <2>1. k \in ResumableRuns \cup QueuedTasks /\ \A t \in Tasks : Still(t)
    BY <1>2 DEF StepKind, Queried
  <2>2. k.task \in Tasks
    BY <2>1 DEF ResumableRuns, QueuedTasks
  <2>3. FreshAt(k.task) /\ Still(k.task)
    BY <2>1, <2>2 DEF FreshInv
  <2>4. CASE k \in ResumableRuns
    <3>1. k.resume # 0 /\ status[k.task] = "resumable" /\ LastSession(k.task)
      BY <2>4 DEF ResumableRuns, LastSession, Latest, HasSession
    <3> QED
      BY <2>3, <3>1 DEF FreshCand, Still, Same, SamePast, SameWorker
  <2>5. CASE k \in QueuedTasks
    <3>1. k.resume = 0 /\ status[k.task] = "queued"
      BY <2>5 DEF QueuedTasks
    <3> QED
      BY <2>3, <3>1 DEF FreshCand, FreshAt, Still, Same, SamePast, SameWorker
  <2> QED
    BY <2>1, <2>4, <2>5
<1> QED
  BY <1>1, <1>2, FreshCandKept DEF FreshInv

-----------------------------------------------------------------------------
(* The cap.                                                                *)

\* Nothing ends the daemon, or nobody puts a task back into the queue and no
\* transcript is ever missing.
Bounded == Signals = {} \/ (NoRefiling /\ Faults = {})

Within(t, n) == Tries(t) <= n \/ Resetting(t)

\* The newest run counts more tries than there are before it; a launch counts
\* those there are and one more; what stands in the queue has none.
RowsCapped(t) ==
    /\ LastAttempt(t) <= MaxAttempts
    /\ Latest(t) > resetAt[t] => Earlier(t) < LastAttempt(t) \/ Resetting(t)

ReadyCapped(t) ==
    worker[t].pc \in Ready =>
        /\ worker[t].attempt \in 1 .. MaxAttempts
        /\ Within(t, worker[t].attempt - 1)
        /\ worker[t].resume = 0 => worker[t].attempt = 1

QueueCapped(t) ==
    status[t] = "queued" =>
        /\ Within(t, 0) \/ (Signals = {} /\ worker[t].pc \in {"mark", "reset"})
        /\ worker[t].pc \in (AtWork \ {"carry", "mark"}) \cup Ending =>
              Resetting(t) \/ Latest(t) <= resetAt[t]

\* A run that has no session leaves none to count.
NewCapped(t) ==
    NoRefiling /\ Faults = {} /\ ~LastSession(t)
        /\ worker[t].pc \in (AtWork \ {"carry"}) \cup Ending \cup {"reset"}
            => Within(t, 0)

CappedAt(t) == RowsCapped(t) /\ ReadyCapped(t) /\ QueueCapped(t) /\ NewCapped(t)

\* What a plan has read is what there is, unless the task has a worker at work.
CappedCand(k) ==
    /\ k.attempt \in Nat /\ (k.resume = 0 => k.attempt = 0)
    /\ Within(k.task, k.attempt) \/ worker[k.task].pc \in AtWork \cup {"reset"}

CapsInv == (\A t \in Tasks : CappedAt(t)) /\ \A k \in Known : CappedCand(k)

\* A reset that is due stays due until it comes.
LEMMA ResetComes ==
    ASSUME Bounded, OpsOK, StepKind, NEW t \in Tasks, Resetting(t)
    PROVE  Resetting(t)' \/ Resets(t)
BY DEF Bounded, OpsOK, OpOK, StepKind, Unforgotten, Resetting

\* After a reset there is nothing to count.
LEMMA ResetCaps ==
    ASSUME PastOK, PastOK', NEW t \in Tasks, CappedAt(t),
           status'[t] = status[t] /\ worker'[t].attempt = worker[t].attempt,
           worker'[t].resume = worker[t].resume,
           worker'[t].pc = worker[t].pc \/ worker'[t].pc = "done",
           LastAttempt(t)' = LastAttempt(t), Tries(t)' = 0, Latest(t)' <= resetAt'[t]
    PROVE  CappedAt(t)'
<1>1. RowsCapped(t)'
  BY DEF CappedAt, RowsCapped, PastOK
<1>2. \A n \in Nat : Within(t, n)'
  BY DEF Within
<1>3. ReadyCapped(t)'
  BY <1>2 DEF CappedAt, ReadyCapped, Ready
<1> QED
  BY <1>1, <1>2, <1>3 DEF CappedAt, QueueCapped, NewCapped

LEMMA CappedAtKept ==
    ASSUME Bounded, TypeOK, PastOK, PastOK', OpsOK, TasksOK, StepKind,
           NoRefiling => FreshInv, CapsInv, NEW t \in Tasks
    PROVE  CappedAt(t)'
<1>0. /\ Effect(t) /\ Plain(t) /\ CappedAt(t)
      /\ NoRefiling => FreshAt(t)
      /\ \A k \in Known : CappedCand(k)
      /\ MaxAttempts \in Nat \ {0}
  BY PolicyAssumption DEF StepKind, TasksOK, CapsInv, FreshInv
<1>1. CASE Resets(t)
  BY <1>0, <1>1, ResetCaps DEF Resets, SameWorker
<1> SUFFICES ASSUME ~Resets(t) PROVE CappedAt(t)'
  BY <1>1
<1>r. Resetting(t) => Resetting(t)'
  BY ResetComes
<1>a. Tries(t)' = Tries(t) => \A n : Within(t, n) => Within(t, n)'
  BY <1>r DEF Within
<1>2. CASE Keeps(t)
  <2>1. RowsCapped(t)' /\ ReadyCapped(t)' /\ NewCapped(t)'
    BY <1>0, <1>r, <1>a, <1>2 DEF Keeps, SamePast, SameWorker, CappedAt, RowsCapped,
       ReadyCapped, NewCapped
  <2>2. QueueCapped(t)'
    <3>1. CASE status[t] = "none"
      <4>1. Tries(t)' = 0 /\ Latest(t)' <= resetAt'[t]
        BY <1>0, <1>2, <3>1 DEF Plain, Keeps, SamePast, PastOK
      <4> QED
        BY <4>1 DEF QueueCapped, Within
    <3>2. CASE status[t] = "queued"
      BY <1>0, <1>r, <1>a, <1>2, <3>2 DEF Keeps, SamePast, SameWorker, CappedAt, QueueCapped
    <3>3. CASE status[t] \notin {"none", "queued"}
      BY <1>2, <3>3 DEF Keeps, QueueCapped, Within
    <3> QED
      BY <3>1, <3>2, <3>3
  <2> QED
    BY <2>1, <2>2 DEF CappedAt
<1>3. CASE Advances(t)
  <2>1. CASE Proceeds(t)
    BY <1>0, <1>r, <1>a, <2>1 DEF Proceeds, Same, SamePast, Onward, Goes, CappedAt,
       RowsCapped, ReadyCapped, QueueCapped, NewCapped, Ready, AtWork, Ending
  <2>2. CASE Inserts(t)
    BY <1>0, <1>r, <1>a, <2>2 DEF Inserts, Goes, CappedAt, RowsCapped, ReadyCapped,
       QueueCapped, NewCapped, Ready, AtWork, Ending, PastOK, Within
  <2>3. CASE Marks(t)
    <3>1. status'[t] # "queued"
      BY <1>0, <2>3 DEF Marks, SetTaskStatus, Exists, Missing, TypeOK, StoreTypeOK
    <3> QED
      BY <1>0, <1>r, <1>a, <2>3, <3>1 DEF Marks, SamePast, Onward, Goes, CappedAt,
         RowsCapped, ReadyCapped, QueueCapped, NewCapped, Ready, AtWork, Ending
  <2>4. CASE Settles(t)
    <3>1. worker'[t].pc \in {"reset", "done"} /\ worker[t].pc = "settle"
      BY <2>4 DEF Settles, Goes
    <3>2. status'[t] = "queued" => worker'[t].pc = "reset" /\ ~LastSession(t)
      BY <2>4 DEF Settles, Goes, SetTaskStatus, Exists, Missing, TypeOK, StoreTypeOK
    <3>3. QueueCapped(t)'
      BY <1>0, <1>a, <2>4, <3>1, <3>2 DEF Settles, SamePast, CappedAt, QueueCapped,
         NewCapped, Bounded, AtWork, Ending
    <3> QED
      BY <1>0, <1>r, <1>a, <2>4, <3>1, <3>3 DEF Settles, SamePast, CappedAt, RowsCapped,
         ReadyCapped, NewCapped, Ready, AtWork, Ending
  <2>5. CASE Forgets(t)
    BY <1>0, <2>5, ResetCaps DEF Forgets, Goes, Onward
  <2>6. CASE Names(t, TRUE) /\ Onward(t) /\ Goes(t, "carry", "mark")
    <3>1. status[t] = "queued" => Signals = {}
      BY <1>0, <2>6 DEF Plain, Goes, FreshAt, Bounded
    <3> QED
      BY <1>0, <1>r, <2>6, <3>1 DEF Names, Goes, CappedAt, RowsCapped, ReadyCapped,
         QueueCapped, NewCapped, Ready, AtWork, Ending
  <2>7. CASE Names(t, TRUE) /\ Onward(t) /\ Goes(t, "working", "working")
    BY <1>0, <1>r, <2>7 DEF Names, Goes, CappedAt, RowsCapped, ReadyCapped, QueueCapped,
       NewCapped, Ready, AtWork, Ending, PastOK, Within
  <2>8. CASE Names(t, FALSE) /\ "session" \in Faults /\ Goes(t, "working", "invoke")
    BY <1>0, <1>r, <2>8 DEF Names, Goes, CappedAt, RowsCapped, ReadyCapped, QueueCapped,
       NewCapped, Ready, AtWork, Ending, PastOK, Within
  <2> QED
    BY <1>3, <2>1, <2>2, <2>3, <2>4, <2>5, <2>6, <2>7, <2>8 DEF Advances, Moves
<1>4. CASE Launched(t)
  <2>1. PICK k \in Known :
           /\ k.task = t /\ ~Capped(k) /\ worker'[t].resume = k.resume
           /\ worker'[t].attempt = IF k.resume # 0 THEN k.attempt + 1 ELSE 1
    BY <1>4 DEF Launched
  <2>2. /\ k.attempt \in Nat /\ (k.resume = 0 => k.attempt = 0)
        /\ k.resume # 0 => k.attempt < MaxAttempts
        /\ Within(t, k.attempt)
    BY <1>0, <1>4, <2>1 DEF CappedCand, Launched, AtWork, Capped
  <2>3. worker'[t].attempt \in 1 .. MaxAttempts /\ worker'[t].attempt - 1 = k.attempt
    BY <1>0, <2>1, <2>2
  <2>4. ReadyCapped(t)'
    BY <1>a, <1>4, <2>1, <2>2, <2>3 DEF Launched, Same, SamePast, ReadyCapped
  <2> QED
    BY <1>0, <1>r, <1>a, <1>4, <2>4 DEF Launched, Same, SamePast, CappedAt, RowsCapped,
       QueueCapped, NewCapped, AtWork, Ending
<1>5. CASE Leaves(t)
  BY <1>0, <1>r, <1>a, <1>5 DEF Leaves, Same, SamePast, CappedAt, RowsCapped,
     ReadyCapped, QueueCapped, NewCapped, Ready, AtWork, Ending
<1> QED
  BY <1>0, <1>2, <1>3, <1>4, <1>5 DEF Effect

LEMMA CappedCandKept ==
    ASSUME Bounded, PastOK, PastOK', OpsOK, TasksOK, StepKind, CapsInv,
           NEW k \in Known, k \in Known'
    PROVE  CappedCand(k)'
<1> DEFINE t == k.task
<1>0. t \in Tasks /\ CappedCand(k) /\ Effect(t)
  BY DEF StepKind, TasksOK, CapsInv
<1>1. Tries(t)' = 0 => CappedCand(k)'
  BY <1>0 DEF CappedCand, Within
<1> HIDE DEF t
<1>2. CASE Resets(t)
  BY <1>1, <1>2 DEF Resets
<1> SUFFICES ASSUME ~Resets(t) PROVE CappedCand(k)'
  BY <1>2
<1>3. Resetting(t) => Resetting(t)'
  BY <1>0, ResetComes
<1>4. ASSUME Tries(t)' = Tries(t),
             worker[t].pc \in AtWork \cup {"reset"} => worker'[t].pc \in AtWork \cup {"reset"}
      PROVE  CappedCand(k)'
  BY <1>0, <1>3, <1>4 DEF CappedCand, Within, t
<1>5. CASE Keeps(t) \/ Launched(t) \/ Leaves(t)
  BY <1>4, <1>5 DEF Keeps, Launched, Leaves, Same, SamePast, SameWorker, AtWork
<1>6. CASE Advances(t)
  <2>0. ~Goes(t, "working", "exited")
    BY <1>6 DEF Advances, t
  <2>1. CASE Proceeds(t) \/ Inserts(t) \/ Marks(t) \/ Settles(t)
    BY <1>4, <2>0, <2>1 DEF Proceeds, Inserts, Marks, Settles, Same, SamePast, Goes, AtWork
  <2>2. CASE Forgets(t)
    BY <1>1, <2>2 DEF Forgets
  <2>3. CASE Goes(t, "carry", "mark") \/ Goes(t, "working", "working")
               \/ Goes(t, "working", "invoke")
    BY <1>0, <2>3 DEF Goes, CappedCand, AtWork, t
  <2> QED
    BY <1>6, <2>1, <2>2, <2>3 DEF Advances, Moves
<1> QED
  BY <1>0, <1>5, <1>6 DEF Effect

LEMMA CapsKept ==
    ASSUME Bounded, TypeOK, PastOK, PastOK', OpsOK, TasksOK, StepKind,
           NoRefiling => FreshInv, CapsInv
    PROVE  CapsInv'
<1>1. \A t \in Tasks : CappedAt(t)'
  BY CappedAtKept
<1>2. ASSUME NEW k \in Known', k \notin Known
      PROVE  CappedCand(k)'
  <2> DEFINE t == k.task
  <2>1. k \in ResumableRuns \cup QueuedTasks /\ \A u \in Tasks : Still(u)
    BY <1>2 DEF StepKind, Queried
  <2>2. t \in Tasks
    BY <2>1 DEF ResumableRuns, QueuedTasks
  <2>3. /\ CappedAt(t) /\ Still(t) /\ (Resetting(t) => Resetting(t)' \/ Tries(t)' = 0)
        /\ Latest(t) \in Nat /\ resetAt[t] \in Nat /\ LastAttempt(t) \in Nat
        /\ Tries(t) \in Nat /\ Earlier(t) \in Nat /\ Tries(t) <= Earlier(t) + 1
        /\ Latest(t) <= resetAt[t] => Tries(t) = 0
    BY <2>1, <2>2, ResetComes DEF CapsInv, PastOK, Resets
  <2>4. CASE k \in ResumableRuns
    <3>1. k.resume = Latest(t) /\ k.attempt = EffectiveAttempt(resetAt[t], Latest(t))
          /\ Latest(t) # 0
      BY <2>4 DEF ResumableRuns, Latest, HasSession
    <3>2. k.attempt = IF Latest(t) <= resetAt[t] THEN 0 ELSE LastAttempt(t)
      BY <3>1 DEF EffectiveAttempt, LastAttempt
    <3>3. Within(t, k.attempt)
      BY <2>3, <3>2 DEF Within, CappedAt, RowsCapped
    <3> QED
      BY <2>3, <3>1, <3>2, <3>3 DEF CappedCand, Within, Still, Same, SamePast
  <2>5. CASE k \in QueuedTasks
    <3>1. k.resume = 0 /\ k.attempt = 0 /\ status[t] = "queued"
      BY <2>5 DEF QueuedTasks
    <3>2. Within(t, 0) \/ worker[t].pc \in {"mark", "reset"}
      BY <2>3, <3>1 DEF CappedAt, QueueCapped
    <3> QED
      BY <2>3, <3>1, <3>2 DEF CappedCand, Within, Still, Same, SamePast, SameWorker, AtWork
  <2> QED
    BY <2>1, <2>4, <2>5
<1> QED
  BY <1>1, <1>2, CappedCandKept DEF CapsInv

-----------------------------------------------------------------------------
(* Every step is of one of the kinds.                                      *)

\* Only the status of rows and the resets tell a task's past.
LEMMA SameRowsSamePast ==
    ASSUME runs \in Seq(RunRow), runs' = runs, NEW t, resetAt'[t] = resetAt[t]
    PROVE  SamePast(t)
BY RowsAlike

LEMMA FinishSamePast ==
    ASSUME runs \in Seq(RunRow), NEW r, NEW s, FinishRun(r, s), resetAt' = resetAt, NEW t
    PROVE  SamePast(t)
<1> DEFINE row == [runs[r] EXCEPT !.status = s]
<1>1. runs' = [runs EXCEPT ![r] = row]
  BY DEF FinishRun
<1>2. r \in 1 .. Len(runs) => /\ row.task = runs[r].task
                              /\ row.attempt = runs[r].attempt
                              /\ row.session = runs[r].session
  <2>1. r \in 1 .. Len(runs) => runs[r] \in RunRow
    OBVIOUS
  <2> QED
    BY <2>1 DEF RunRow
<1> HIDE DEF row
<1> QED
  BY <1>1, <1>2, RowWrites

\* Nothing happens to any task.
LEMMA StillKind ==
    ASSUME \A t \in Tasks : Still(t), Known' \subseteq Known,
           \A t \in Tasks : Unforgotten(t)
    PROVE  StepKind
BY DEF StepKind, Effect, Keeps, Still, Same

\* A status is written, and nothing else.
LEMMA StatusKind ==
    ASSUME RunnerInv, NEW t \in Tasks, NEW s \in TaskStatus \cup Missing,
           status' = [status EXCEPT ![t] = s],
           UNCHANGED <<runs, resetAt, worker>>,
           s = "none" => status[t] = "none",
           s = "queued" => \/ status[t] \in {"none", "queued"}
                           \/ ~NoRefiling /\ Resetting(t)',
           Known' \subseteq Known, \A u \in Tasks : Unforgotten(u)
    PROVE  StepKind
<1>1. /\ status \in [Tasks -> TaskStatus \cup Missing] /\ runs \in Seq(RunRow)
  BY DEF RunnerInv, StoreTypeOK
<1>2. \A u \in Tasks : Keeps(u)
  BY <1>1, SameRowsSamePast DEF Keeps, SameWorker
<1> QED
  BY <1>2 DEF StepKind, Effect

\* The loop goes on, and has of its plan what it had, or none.
LEMMA PlanStays ==
    ASSUME PlanOK, op' = op, sched'.pc # "fetchqueued",
           \/ sched'.cands = sched.cands /\ sched'.launch \subseteq sched.launch
           \/ sched'.cands = <<>> /\ sched'.launch = {}
    PROVE  PlanOK' /\ Known' \subseteq Known
<1>1. CASE sched'.cands = sched.cands /\ sched'.launch \subseteq sched.launch
  <2>1. \A t : RowFor(t)' = RowFor(t)
    BY <1>1 DEF RowFor
  <2> QED
    BY <1>1, <2>1 DEF PlanOK, Known, OpCand
<1>2. CASE sched'.cands = <<>> /\ sched'.launch = {}
  <2>1. 1 .. Len(sched'.cands) = {}
    BY <1>2
  <2> QED
    BY <1>2, <2>1 DEF PlanOK, Known, OpCand
<1> QED
  BY <1>1, <1>2

LEMMA CancelledIsStill ==
    ASSUME RunnerInv, UNCHANGED <<runs, status, resetAt>>, NEW cause,
           (\E u : Cancel(u, cause)) \/ (\E S : CancelEvery(S, cause))
    PROVE  \A t \in Tasks : Still(t)
<1>1. /\ worker \in [Tasks -> Worker] /\ runs \in Seq(RunRow)
  BY DEF RunnerInv, RunnerTypeOK, StoreTypeOK
<1>2. ASSUME NEW w \in Worker
      PROVE  /\ Cancelled(w, cause).pc = w.pc /\ Cancelled(w, cause).run = w.run
             /\ Cancelled(w, cause).resume = w.resume
             /\ Cancelled(w, cause).attempt = w.attempt
  BY DEF Cancelled, Worker
<1>3. \A t \in Tasks : SameWorker(t)
  BY <1>1, <1>2 DEF Cancel, CancelEvery, SameWorker
<1> QED
  BY <1>1, <1>3, SameRowsSamePast DEF Still, Same

\* A worker is started for a candidate that is known, or there is one already.
LEMMA LaunchKind ==
    ASSUME RunnerInv, UNCHANGED <<runs, status, resetAt>>, NEW k \in Known, NEW manual,
           k.task \in Tasks, ~Capped(k), Launch(k, manual)
    PROVE  \A t \in Tasks : Launched(t) \/ Still(t)
<1> DEFINE w == NewWorker(k, manual)
<1>1. /\ worker \in [Tasks -> Worker] /\ runs \in Seq(RunRow)
  BY DEF RunnerInv, RunnerTypeOK, StoreTypeOK
<1>2. /\ w.pc = "start" /\ w.run = 0 /\ w.resume = k.resume
      /\ w.attempt = IF k.resume # 0 THEN k.attempt + 1 ELSE 1
  BY DEF NewWorker, NoWorker
<1>3. \A t \in Tasks : Same(t)
  BY <1>1, SameRowsSamePast DEF Same
<1>4. worker' = worker \/ (k.task \notin Inflight /\ worker' = [worker EXCEPT ![k.task] = w])
  BY DEF Launch
<1> HIDE DEF w
<1>5. CASE worker' = worker
  BY <1>3, <1>5 DEF Still, SameWorker
<1>6. CASE k.task \notin Inflight /\ worker' = [worker EXCEPT ![k.task] = w]
  <2>1. \A t \in Tasks \ {k.task} : worker'[t] = worker[t]
    BY <1>1, <1>6
  <2>2. worker'[k.task] = w /\ worker[k.task].pc = "idle"
    BY <1>1, <1>6 DEF Inflight, At
  <2>3. Launched(k.task)
    BY <1>2, <1>3, <2>2 DEF Launched
  <2> QED
    BY <1>3, <2>1, <2>3 DEF Still, SameWorker
<1> QED
  BY <1>4, <1>5, <1>6

\* One handler's record is replaced.
LEMMA OpReplaced ==
    ASSUME op \in [Clients -> GoodOps], NEW c \in Clients, NEW o,
           op' = [op EXCEPT ![c] = o], sched' = sched
    PROVE  /\ o.at # "launch" => Known' \subseteq Known
           /\ o.at = "launch" => Known' \subseteq Known \cup
                 {[task |-> o.task, resume |-> o.id, attempt |-> o.attempt]}
           /\ \A t : Resetting(t) => Resetting(t)' \/ (op[c].at = "reset" /\ op[c].task = t)
           /\ o.at = "reset" => Resetting(o.task)'
           /\ PlanOK => PlanOK'
           /\ OpsOK /\ OpOK(o) => OpsOK'
<1>1. op'[c] = o /\ \A d \in Clients \ {c} : op'[d] = op[d]
  OBVIOUS
<1>2. \A d \in Clients \ {c} : OpCand(d)' = OpCand(d)
  BY <1>1 DEF OpCand
<1>3. OpCand(c)' = [task |-> o.task, resume |-> o.id, attempt |-> o.attempt]
  BY <1>1 DEF OpCand
<1>4. PlanOK => PlanOK'
  BY DEF PlanOK, RowFor
<1>5. \A k \in Known' : k \in Known \/ (o.at = "launch" /\ k = OpCand(c)')
  BY <1>1, <1>2 DEF Known
<1>6. OpsOK /\ OpOK(o) => OpsOK'
  <2> SUFFICES ASSUME OpsOK, OpOK(o), NEW d \in Clients PROVE OpOK(op'[d])
    BY DEF OpsOK, OpOK
  <2> QED
    BY <1>1 DEF OpsOK
<1>7. \A t : Resetting(t) => Resetting(t)' \/ (op[c].at = "reset" /\ op[c].task = t)
  BY <1>1 DEF Resetting
<1>8. o.at = "reset" => Resetting(o.task)'
  BY <1>1 DEF Resetting
<1> QED
  BY <1>3, <1>4, <1>5, <1>6, <1>7, <1>8

\* All that the classification of a step goes by.
Footing ==
    /\ RunnerInv /\ SchedulerTypeOK /\ SchedOK /\ ServicesInv /\ RowsOK
    /\ Ground /\ TasksOK

\* Handlers and plan are what they were, and so is what they know.
LEMMA SameReaders ==
    ASSUME UNCHANGED <<sched, op>>
    PROVE  /\ Known' = Known /\ \A t : Unforgotten(t)
           /\ OpsOK => OpsOK'
           /\ PlanOK => PlanOK'
<1>1. Known' = Known
  BY DEF Known, OpCand
<1>2. \A t : Unforgotten(t)
  BY DEF Unforgotten, Resetting
<1>3. OpsOK => OpsOK'
  BY DEF OpsOK, OpOK
<1>4. PlanOK => PlanOK'
  BY DEF PlanOK, RowFor
<1> QED
  BY <1>1, <1>2, <1>3, <1>4

\* A step of the daemon's own that no row, worker, plan or handler shows.
LEMMA QuietKind ==
    ASSUME Footing, UNCHANGED <<runs, status, resetAt, worker, sched, op>>,
           mode' = mode \/ mode' = "up" \/ Signals # {}
    PROVE  StepKind /\ Ground'
<1>1. runs \in Seq(RunRow)
  BY DEF Footing, RunnerInv, StoreTypeOK
<1>2. \A t \in Tasks : Still(t)
  BY <1>1, SameRowsSamePast DEF Still, Same, SameWorker
<1>3. StayingUp'
  BY DEF Footing, Ground, StayingUp, Over
<1> QED
  BY <1>2, <1>3, SameReaders, StillKind DEF Footing, Ground

LEMMA WorkKind ==
    ASSUME Steady, Footing, NEW t \in Tasks, Works(t) \/ NamesSession(t)
    PROVE  StepKind /\ Ground'
<1>1. /\ RunnerStep(t) \/ SessionInit(t)
      /\ UNCHANGED <<sched, mode, op>>
  BY DEF Works, NamesSession, WorkerStep, schedulerVars
<1>2. Moves(t)
  BY <1>1, WorkerMoves DEF Footing, TasksOK
<1>3. \A u \in Tasks \ {t} : Keeps(u)
  BY <1>2 DEF Moves, Same, Keeps, SameWorker
<1>4. ASSUME Goes(t, "working", "exited"), NEW k \in Known
      PROVE  k.task # t
  <2>1. Works(t)
    BY <1>4 DEF Goes, NamesSession, SessionInit
  <2>2. ~Deciding(t)
    BY <1>4, <2>1 DEF Works, TooSoon, Goes, At, Steady
  <2>3. CASE \E i \in 1 .. Len(sched.cands) : k = sched.cands[i]
    BY <2>2, <2>3 DEF Deciding
  <2>4. CASE \E c \in Clients : op[c].at = "launch" /\ k = OpCand(c)
    BY <2>2, <2>4 DEF Deciding, OpCand
  <2> QED
    BY <2>3, <2>4 DEF Known
<1>5. Advances(t)
  BY <1>2, <1>4 DEF Advances
<1>6. StepKind
  BY <1>1, <1>3, <1>5, SameReaders DEF StepKind, Effect
<1>7. Ground'
  BY <1>1, SameReaders DEF Footing, Ground, StayingUp, Over
<1> QED
  BY <1>6, <1>7

LEMMA ReleaseKind ==
    ASSUME Footing, NEW t \in Tasks, Releases(t)
    PROVE  StepKind /\ Ground'
<1>1. /\ runs \in Seq(RunRow) /\ worker \in [Tasks -> Worker]
      /\ UNCHANGED <<runs, status, resetAt, sched, mode, op>>
      /\ worker[t].pc = "done" /\ worker' = [worker EXCEPT ![t] = NoWorker]
      /\ NoWorker.pc = "idle" /\ NoWorker.run = 0
  BY DEF Footing, RunnerInv, StoreTypeOK, RunnerTypeOK, Releases, Release, storeVars,
     schedulerVars, At, NoWorker
<1>2. \A u \in Tasks : Same(u)
  BY <1>1, SameRowsSamePast DEF Same
<1>3. Leaves(t) /\ \A u \in Tasks \ {t} : Keeps(u)
  BY <1>1, <1>2 DEF Leaves, Keeps, Same, SameWorker
<1>4. StepKind
  BY <1>1, <1>3, SameReaders DEF StepKind, Effect
<1>5. Ground'
  BY <1>1, SameReaders DEF Footing, Ground, StayingUp, Over
<1> QED
  BY <1>4, <1>5

-----------------------------------------------------------------------------
(* The steps of the loop.                                                  *)

\* The loop goes on with the plan it has, or with none.
LEMMA GoesOn ==
    ASSUME Footing, op' = op, sched'.pc \notin Over \cup {"fetchqueued"}, mode' = mode,
           \/ sched'.cands = sched.cands /\ sched'.launch \subseteq sched.launch
           \/ sched'.cands = <<>> /\ sched'.launch = {}
    PROVE  Ground' /\ Known' \subseteq Known /\ \A t : Unforgotten(t)
<1>1. PlanOK' /\ Known' \subseteq Known
  BY PlanStays DEF Footing, Ground
<1>2. \A t : Unforgotten(t)
  BY DEF Unforgotten, Resetting
<1>3. OpsOK' /\ StayingUp'
  BY DEF Footing, Ground, OpsOK, OpOK, StayingUp, Over
<1> QED
  BY <1>1, <1>2, <1>3 DEF Ground

\* A status is written where the task exists.
LEMMA SetStatusKind ==
    ASSUME RunnerInv, NEW t, NEW s \in TaskStatus, SetTaskStatus(t, s),
           UNCHANGED <<runs, resetAt, worker>>,
           s = "queued" => ~NoRefiling /\ Resetting(t)',
           Known' \subseteq Known, \A u \in Tasks : Unforgotten(u)
    PROVE  StepKind
<1>0. /\ status \in [Tasks -> TaskStatus \cup Missing] /\ runs \in Seq(RunRow)
      /\ s # "none"
  BY DEF RunnerInv, StoreTypeOK, TaskStatus
<1>1. CASE t \in Tasks /\ Exists(t)
  <2>1. status' = [status EXCEPT ![t] = s]
    BY <1>1 DEF SetTaskStatus
  <2> QED
    BY <1>0, <1>1, <2>1, StatusKind
<1>2. CASE ~(t \in Tasks /\ Exists(t))
  <2>1. status' = status
    BY <1>0, <1>2 DEF SetTaskStatus
  <2>2. \A u \in Tasks : Still(u)
    BY <1>0, <2>1, SameRowsSamePast DEF Still, Same, SameWorker
  <2> QED
    BY <2>2, StillKind
<1> QED
  BY <1>1, <1>2

\* The steps of the reconcile.
LEMMA ReconcileKind ==
    ASSUME Footing, op' = op,
           \/ ListActiveRuns \/ LockForReconcile \/ SkipTracked \/ UnlockToKill
           \/ KillOrphan \/ BuryRun \/ SettleBuried \/ UnlockReconciled
    PROVE  StepKind /\ Ground'
<1>0. /\ sched \in Sched /\ RunnerInv /\ runs \in Seq(RunRow)
      /\ UNCHANGED <<resetAt, worker, mode>>
  BY DEF Footing, SchedulerTypeOK, RunnerInv, StoreTypeOK, ListActiveRuns,
     LockForReconcile, SkipTracked, UnlockToKill, KillOrphan, BuryRun, SettleBuried,
     UnlockReconciled, storeVars, runnerVars
<1>1. /\ sched'.cands = sched.cands /\ sched'.launch = sched.launch
      /\ sched'.pc \notin Over \cup {"fetchqueued"}
  <2>1. CASE ListActiveRuns
    BY <1>0, <2>1 DEF ListActiveRuns, Sched, Over
  <2>2. CASE LockForReconcile \/ UnlockToKill \/ KillOrphan \/ BuryRun \/ UnlockReconciled
    BY <1>0, <2>2 DEF LockForReconcile, UnlockToKill, KillOrphan, BuryRun,
       UnlockReconciled, Step, Sched, Over
  <2>3. CASE SkipTracked \/ SettleBuried
    BY <1>0, <2>3 DEF SkipTracked, SettleBuried, Sched, Over
  <2> QED
    BY <2>1, <2>2, <2>3
<1>2. Ground' /\ Known' \subseteq Known /\ \A t : Unforgotten(t)
  BY <1>0, <1>1, GoesOn
<1>3. CASE ListActiveRuns \/ LockForReconcile \/ SkipTracked \/ UnlockToKill \/ UnlockReconciled
  <2>1. UNCHANGED <<runs, status>>
    BY <1>3 DEF ListActiveRuns, LockForReconcile, SkipTracked, UnlockToKill,
       UnlockReconciled, storeVars
  <2>2. \A t \in Tasks : Still(t)
    BY <1>0, <2>1, SameRowsSamePast DEF Still, Same, SameWorker
  <2> QED
    BY <1>2, <2>2, StillKind
<1>4. CASE KillOrphan \/ BuryRun
  <2>1. FinishRun(Found.id, "errored") /\ status' = status
    BY <1>4 DEF KillOrphan, BuryRun
  <2>2. \A t \in Tasks : Still(t)
    BY <1>0, <2>1, FinishSamePast DEF Still, Same, SameWorker
  <2> QED
    BY <1>2, <2>2, StillKind
<1>5. CASE SettleBuried
  <2>1. /\ SetTaskStatus(Found.task, TaskStatusAfterInterruption(Found.session))
        /\ runs' = runs
    BY <1>5 DEF SettleBuried
  <2>2. TaskStatusAfterInterruption(Found.session) \in TaskStatus \ {"queued"}
    BY DEF TaskStatusAfterInterruption, TaskStatus
  <2> QED
    BY <1>0, <1>2, <2>1, <2>2, SetStatusKind
<1> QED
  BY <1>2, <1>3, <1>4, <1>5

\* The row kept for a task is the last of its rows in the plan.
LEMMA RowForIsLast ==
    ASSUME sched.cands \in Seq(Candidate), NEW i \in 1 .. Len(sched.cands)
    PROVE  \E m \in 1 .. Len(sched.cands) :
              /\ RowFor(sched.cands[i].task) = sched.cands[m]
              /\ sched.cands[m].task = sched.cands[i].task
              /\ i <= m
<1> DEFINE S == {j \in 1 .. Len(sched.cands) : sched.cands[j].task = sched.cands[i].task}
<1>1. Len(sched.cands) \in Nat /\ S \subseteq 0 .. Len(sched.cands) /\ S # {} /\ i \in S
  OBVIOUS
<1>2. \E x \in S : \A y \in S : x >= y
  <2>1. \E x \in S : \A y \in S : y <= x
    BY <1>1, LargestNatural
  <2> QED
    BY <1>1, <2>1
<1>3. Max(S) \in S /\ \A y \in S : Max(S) >= y
  BY <1>2 DEF Max
<1>4. RowFor(sched.cands[i].task) = sched.cands[Max(S)]
  BY DEF RowFor
<1>5. /\ Max(S) \in 1 .. Len(sched.cands) /\ i <= Max(S)
      /\ sched.cands[Max(S)].task = sched.cands[i].task
  BY <1>1, <1>3
<1> HIDE DEF S
<1> QED
  BY <1>4, <1>5

\* A query adds to the plan what it returns.
LEMMA QueryKind ==
    ASSUME Footing, op' = op, mode' = mode, UNCHANGED <<runs, status, resetAt, worker>>,
           sched'.pc \notin Over, PlanOK',
           Known' \subseteq Known \cup ResumableRuns \cup QueuedTasks
    PROVE  StepKind /\ Ground'
<1>1. runs \in Seq(RunRow)
  BY DEF Footing, RunnerInv, StoreTypeOK
<1>2. \A t \in Tasks : Still(t)
  BY <1>1, SameRowsSamePast DEF Still, Same, SameWorker
<1>3. \A t : Unforgotten(t)
  BY DEF Unforgotten, Resetting
<1>4. OpsOK' /\ StayingUp'
  BY DEF Footing, Ground, OpsOK, OpOK, StayingUp, Over
<1> QED
  BY <1>2, <1>3, <1>4 DEF StepKind, Queried, Effect, Keeps, Still, Same, Ground

LEMMA FetchResumableKind ==
    ASSUME Footing, op' = op, FetchResumable
    PROVE  StepKind /\ Ground'
<1>0. /\ sched \in Sched /\ sched.pc = "fetch" /\ sched.launch = {}
      /\ IsFiniteSet(ResumableRuns)
      /\ UNCHANGED <<runs, status, resetAt, worker, mode>>
  BY ResumableRunsTypes DEF Footing, SchedulerTypeOK, RunnerInv, StoreTypeOK, SchedOK,
     FetchResumable, storeVars, runnerVars
<1>1. PICK o \in Orderings(ResumableRuns) :
        sched' = [sched EXCEPT !.pc = "fetchqueued", !.cands = o]
  BY DEF FetchResumable
<1>2. sched'.pc = "fetchqueued" /\ sched'.cands = o /\ sched'.launch = {}
  BY <1>0, <1>1 DEF Sched
<1>3. o \in Seq(ResumableRuns)
  BY <1>0, OrderingsAreSequences
<1>4. \A i, j \in 1 .. Len(o) : i # j => o[i] # o[j]
  <2>1. Cardinality(ResumableRuns) \in Nat
    BY <1>0, FS_CardinalityType
  <2>2. Len(o) = Cardinality(ResumableRuns)
    BY <2>1 DEF Orderings
  <2> QED
    BY <2>2 DEF Orderings
<1>5. \A i \in 1 .. Len(o) : o[i] \in ResumableRuns
  BY <1>3
<1>6. \A i, j \in 1 .. Len(o) : i # j => o[i].task # o[j].task
  <2>1. \A k, m \in ResumableRuns : k.task = m.task => k = m
    BY DEF ResumableRuns
  <2> QED
    BY <1>4, <1>5, <2>1
<1>7. PlanOK'
  <2>1. \A i, j \in 1 .. Len(sched'.cands) :
           i < j => sched'.cands[i].task # sched'.cands[j].task
    <3> SUFFICES ASSUME NEW i \in 1 .. Len(o), NEW j \in 1 .. Len(o), i < j
                 PROVE  o[i].task # o[j].task
      BY <1>2
    <3>1. i # j
      OBVIOUS
    <3> QED
      BY <1>6, <3>1
  <2>2. \A i, j \in 1 .. Len(sched'.cands) :
           i # j => sched'.cands[i].task # sched'.cands[j].task
    BY <1>2, <1>6
  <2> QED
    BY <1>2, <2>1, <2>2 DEF PlanOK
<1>8. Known' \subseteq Known \cup ResumableRuns \cup QueuedTasks
  BY <1>2, <1>5 DEF Known, OpCand
<1> QED
  BY <1>0, <1>2, <1>7, <1>8, QueryKind DEF Over

LEMMA FetchQueuedKind ==
    ASSUME Footing, op' = op, FetchQueued
    PROVE  StepKind /\ Ground'
<1> DEFINE n == Len(sched.cands)
<1>0. /\ sched \in Sched /\ sched.pc = "fetchqueued" /\ sched.launch = {}
      /\ IsFiniteSet(QueuedTasks) /\ sched.cands \in Seq(Candidate)
      /\ QueuedTasks \subseteq Candidate
      /\ UNCHANGED <<runs, status, resetAt, worker, mode>>
  BY QueuedTasksTypes DEF Footing, SchedulerTypeOK, RunnerInv, StoreTypeOK, SchedOK,
     FetchQueued, storeVars, runnerVars, Sched
<1>1. PICK o \in Orderings(QueuedTasks) :
        sched' = [sched EXCEPT !.pc = "decide", !.cands = @ \o o]
  BY DEF FetchQueued
<1>2. sched'.pc = "decide" /\ sched'.cands = sched.cands \o o /\ sched'.launch = {}
  BY <1>0, <1>1 DEF Sched
<1>3. o \in Seq(QueuedTasks) /\ o \in Seq(Candidate)
  <2>1. o \in Seq(QueuedTasks)
    BY <1>0, OrderingsAreSequences
  <2> QED
    BY <1>0, <2>1
<1>4. /\ Len(sched'.cands) = n + Len(o) /\ n \in Nat /\ Len(o) \in Nat
      /\ \A i \in 1 .. n : sched'.cands[i] = sched.cands[i]
      /\ \A i \in n + 1 .. n + Len(o) : /\ sched'.cands[i] = o[i - n]
                                        /\ i - n \in 1 .. Len(o)
  BY <1>0, <1>2, <1>3
<1>5. \A i \in 1 .. Len(o) : o[i] \in QueuedTasks /\ o[i].resume = 0
  <2>1. \A i \in 1 .. Len(o) : o[i] \in QueuedTasks
    BY <1>3
  <2> QED
    BY <2>1 DEF QueuedTasks
<1> HIDE DEF n
<1>6. \A i \in 1 .. Len(sched'.cands) :
         \/ i \in 1 .. n /\ sched'.cands[i] = sched.cands[i]
         \/ i \notin 1 .. n /\ sched'.cands[i] \in QueuedTasks /\ sched'.cands[i].resume = 0
  <2> SUFFICES ASSUME NEW i \in 1 .. n + Len(o)
               PROVE  \/ i \in 1 .. n /\ sched'.cands[i] = sched.cands[i]
                      \/ /\ i \notin 1 .. n /\ sched'.cands[i] \in QueuedTasks
                         /\ sched'.cands[i].resume = 0
    BY <1>4
  <2>1. CASE i \in 1 .. n
    BY <1>4, <2>1
  <2>2. CASE i \notin 1 .. n
    <3>1. i \in n + 1 .. n + Len(o)
      BY <1>4, <2>2
    <3> QED
      BY <1>4, <1>5, <2>2, <3>1
  <2> QED
    BY <2>1, <2>2
<1>7. PlanOK'
  <2>1. ASSUME NEW i \in 1 .. Len(sched'.cands), NEW j \in 1 .. Len(sched'.cands),
               i < j, sched'.cands[i].task = sched'.cands[j].task
        PROVE  sched'.cands[j].resume = 0
    <3>1. CASE j \notin 1 .. n
      BY <1>6, <3>1
    <3>2. CASE j \in 1 .. n
      <4>1. i \in 1 .. n /\ i # j
        BY <1>4, <2>1, <3>2
      <4>2. sched.cands[i].task # sched.cands[j].task
        BY <1>0, <3>2, <4>1 DEF Footing, Ground, PlanOK, n
      <4> QED
        BY <1>4, <2>1, <3>2, <4>1, <4>2
    <3> QED
      BY <3>1, <3>2
  <2> QED
    BY <1>2, <2>1 DEF PlanOK
<1>8. Known' \subseteq Known \cup ResumableRuns \cup QueuedTasks
  BY <1>6 DEF Known, OpCand, n
<1> QED
  BY <1>0, <1>2, <1>7, <1>8, QueryKind DEF Over

LEMMA DecideKind ==
    ASSUME Footing, op' = op, Decide
    PROVE  StepKind /\ Ground'
<1>0. /\ sched \in Sched /\ sched.cands \in Seq(Candidate)
      /\ UNCHANGED <<runs, status, resetAt, worker, mode>>
  BY DEF Footing, SchedulerTypeOK, Decide, storeVars, runnerVars, Sched
<1>1. PICK gate \in Gates :
        sched' = [sched EXCEPT
                    !.pc = "act",
                    !.suspend = Suspends(Inflight, gate),
                    !.fail = Failures(sched.cands, Inflight),
                    !.launch = Launches(sched.cands, Inflight, {}, gate)]
  BY DEF Decide
<1>2. /\ sched'.pc = "act" /\ sched'.cands = sched.cands
      /\ sched'.launch = Launches(sched.cands, Inflight, {}, gate)
  BY <1>0, <1>1 DEF Sched
<1>3. ASSUME NEW i \in sched'.launch
      PROVE  ~Capped(RowFor(sched.cands[i].task))
  <2>1. i \in 1 .. Len(sched.cands) /\ ~Capped(sched.cands[i])
    BY <1>2, <1>3 DEF Launches, Scheduled, ByHand, Contends
  <2>2. PICK m \in 1 .. Len(sched.cands) :
           /\ RowFor(sched.cands[i].task) = sched.cands[m]
           /\ sched.cands[m].task = sched.cands[i].task
           /\ i <= m
    BY <1>0, <2>1, RowForIsLast
  <2>3. CASE i = m
    BY <2>1, <2>2, <2>3
  <2>4. CASE i < m
    BY <2>1, <2>2, <2>4 DEF Footing, Ground, PlanOK, Capped
  <2> QED
    BY <2>1, <2>2, <2>3, <2>4
<1>4. PlanOK'
  <2>1. \A i \in sched'.launch : ~Capped(RowFor(sched.cands[i].task))'
    BY <1>2, <1>3 DEF RowFor, Capped
  <2> QED
    BY <1>2, <2>1 DEF Footing, Ground, PlanOK
<1>5. Known' \subseteq Known
  BY <1>2 DEF Known, OpCand
<1> QED
  BY <1>0, <1>2, <1>4, <1>5, QueryKind DEF Over

LEMMA ActKind ==
    ASSUME Footing, op' = op, Suspend \/ Fail \/ LaunchPlanned \/ EndTick
    PROVE  StepKind /\ Ground'
<1>0. /\ sched \in Sched /\ sched.cands \in Seq(Candidate) /\ RunnerInv
      /\ sched.pc = "act" /\ runs \in Seq(RunRow)
      /\ UNCHANGED <<runs, resetAt, mode>>
  BY DEF Footing, SchedulerTypeOK, Suspend, Fail, LaunchPlanned, EndTick, storeVars,
     RunnerInv, StoreTypeOK, Sched
<1>1. CASE Suspend
  <2>1. PICK t \in sched.suspend :
           Cancel(t, "suspended") /\ sched' = [sched EXCEPT !.suspend = @ \ {t}]
    BY <1>1 DEF Suspend
  <2>2. sched'.cands = sched.cands /\ sched'.launch = sched.launch /\ sched'.pc = "act"
    BY <1>0, <2>1 DEF Sched
  <2>3. status' = status
    BY <1>1 DEF Suspend, storeVars
  <2>4. \A u \in Tasks : Still(u)
    BY <1>0, <2>1, <2>3, CancelledIsStill
  <2> QED
    BY <1>0, <2>2, <2>4, GoesOn, StillKind DEF Over
<1>2. CASE Fail
  <2>1. PICK i \in sched.fail :
           /\ SetTaskStatus(sched.cands[i].task, "failed")
           /\ sched' = [sched EXCEPT !.fail = @ \ {i}]
    BY <1>2 DEF Fail
  <2>2. sched'.cands = sched.cands /\ sched'.launch = sched.launch /\ sched'.pc = "act"
    BY <1>0, <2>1 DEF Sched
  <2>3. worker' = worker
    BY <1>2 DEF Fail, runnerVars
  <2>4. "failed" \in TaskStatus
    BY DEF TaskStatus
  <2>5. Ground' /\ Known' \subseteq Known /\ \A t : Unforgotten(t)
    BY <1>0, <2>2, GoesOn DEF Over
  <2> QED
    BY <1>0, <2>1, <2>3, <2>4, <2>5, SetStatusKind
<1>3. CASE LaunchPlanned
  <2>1. PICK i \in sched.launch :
           /\ Launch(RowFor(sched.cands[i].task), FALSE)
           /\ sched' = [sched EXCEPT !.launch = @ \ {i}]
    BY <1>3 DEF LaunchPlanned
  <2>2. /\ sched'.cands = sched.cands /\ sched'.launch \subseteq sched.launch
        /\ sched'.pc = "act"
    BY <1>0, <2>1 DEF Sched
  <2>3. status' = status
    BY <1>3 DEF LaunchPlanned, storeVars
  <2>4. i \in 1 .. Len(sched.cands)
    BY <2>1 DEF Footing, SchedOK
  <2>5. PICK m \in 1 .. Len(sched.cands) : RowFor(sched.cands[i].task) = sched.cands[m]
    BY <1>0, <2>4, RowForIsLast
  <2>6. sched.cands[m] \in Known /\ sched.cands[m].task \in Tasks
    <3>1. sched.cands[m] \in Candidate
      BY <1>0
    <3> QED
      BY <3>1 DEF Known, Candidate
  <2>7. ~Capped(sched.cands[m])
    BY <2>1, <2>5 DEF Footing, Ground, PlanOK
  <2>8. \A t \in Tasks : Launched(t) \/ Still(t)
    BY <1>0, <2>1, <2>3, <2>5, <2>6, <2>7, LaunchKind
  <2>9. Ground' /\ Known' \subseteq Known /\ \A t : Unforgotten(t)
    BY <1>0, <2>2, GoesOn DEF Over
  <2> QED
    BY <2>8, <2>9 DEF StepKind, Effect, Keeps, Still, Same
<1>4. CASE EndTick
  <2>1. sched'.cands = <<>> /\ sched'.launch = {} /\ sched'.pc = "idle"
    BY <1>4 DEF EndTick, Resting
  <2>2. UNCHANGED <<status, worker>>
    BY <1>4 DEF EndTick, storeVars, runnerVars
  <2>3. \A u \in Tasks : Still(u)
    BY <1>0, <2>2, SameRowsSamePast DEF Still, Same, SameWorker
  <2> QED
    BY <1>0, <2>1, <2>3, GoesOn, StillKind DEF Over
<1> QED
  BY <1>1, <1>2, <1>3, <1>4

LEMMA TickKind ==
    ASSUME Footing, Ticks
    PROVE  StepKind /\ Ground'
<1>1. TickStep /\ op' = op
  BY DEF Ticks
<1> QED
  BY <1>1, ReconcileKind, FetchResumableKind, FetchQueuedKind, DecideKind, ActKind
     DEF TickStep

-----------------------------------------------------------------------------
(* The daemon's life, and the agents' calls.                               *)

LEMMA LifeKind ==
    ASSUME Footing,
           \/ Stops \/ Stopped \/ Signalled \/ Crash \/ Exit \/ Restart
           \/ \E r \in 1 .. MaxRuns : Asks(r) \/ Awaits(r) \/ OrphanExits(r)
    PROVE  StepKind /\ Ground'
<1>0. /\ sched \in Sched /\ RunnerInv /\ runs \in Seq(RunRow)
  BY DEF Footing, SchedulerTypeOK, RunnerInv, StoreTypeOK
<1>1. CASE Stops
  <2>1. /\ UNCHANGED <<runs, status, resetAt, op, mode>> /\ mode = "stopping"
        /\ CancelEvery(Inflight, "shutdown") /\ sched' = [sched EXCEPT !.pc = "waiting"]
    BY <1>1 DEF Stops, CancelAll, Step, storeVars
  <2>2. /\ sched'.cands = sched.cands /\ sched'.launch = sched.launch
        /\ sched'.pc = "waiting"
    BY <1>0, <2>1 DEF Sched
  <2>3. \A t \in Tasks : Still(t)
    BY <1>0, <2>1, CancelledIsStill
  <2>4. PlanOK' /\ Known' \subseteq Known
    BY <2>1, <2>2, PlanStays DEF Footing, Ground
  <2>5. Signals # {} /\ OpsOK'
    BY <2>1 DEF Footing, Ground, StayingUp, Over, OpsOK, OpOK
  <2>6. \A t : Unforgotten(t)
    BY <2>5 DEF Unforgotten
  <2> QED
    BY <2>3, <2>4, <2>5, <2>6, StillKind DEF Ground, StayingUp, Over
<1>2. CASE Signalled
  <2>1. /\ UNCHANGED <<runs, status, resetAt, op, sched>> /\ Signals # {}
        /\ CancelEvery({t \in Inflight : ~worker[t].manual}, "shutdown")
    BY <1>2 DEF Signalled, Terminate, storeVars
  <2>2. \A t \in Tasks : Still(t)
    BY <1>0, <2>1, CancelledIsStill
  <2> QED
    BY <2>1, <2>2, SameReaders, StillKind DEF Footing, Ground, StayingUp, Over
<1>3. CASE Crash \/ Exit
  <2>1. /\ UNCHANGED <<runs, status, resetAt>> /\ worker' = [t \in Tasks |-> NoWorker]
        /\ sched' = Resting /\ op' = [c \in Clients |-> NoOp]
        /\ NoWorker.run = 0 /\ NoWorker.pc = "idle" /\ NoOp.at = "idle"
        /\ Resting.cands = <<>> /\ Resting.launch = {} /\ Resting.pc = "idle"
    BY <1>3 DEF Crash, Exit, Forgotten, storeVars, NoWorker, NoOp, Resting
  <2>2. Signals # {}
    BY <1>3 DEF Crash, Exit, Footing, Ground, StayingUp, Over
  <2>3. 1 .. Len(sched'.cands) = {} /\ \A c \in Clients : op'[c] = NoOp
    BY <2>1
  <2>4. Known' = {}
    BY <2>1, <2>3 DEF Known
  <2>5. PlanOK' /\ OpsOK'
    BY <2>1, <2>3 DEF PlanOK, OpsOK, OpOK
  <2>6. \A t \in Tasks : Leaves(t)
    BY <1>0, <2>1, <2>2, <2>4, SameRowsSamePast DEF Leaves, Same
  <2> QED
    BY <2>2, <2>4, <2>5, <2>6 DEF StepKind, Effect, Unforgotten, Ground, StayingUp, Over
<1>4. CASE Restart
  <2>1. /\ UNCHANGED <<runs, status, resetAt, worker, sched, op>> /\ mode' = "up"
    BY <1>4 DEF Restart, runnerVars
  <2> QED
    BY <2>1, QuietKind
<1>5. CASE \E r \in 1 .. MaxRuns : Asks(r) \/ Awaits(r) \/ OrphanExits(r)
  <2>1. UNCHANGED <<runs, status, resetAt, worker, sched, op, mode>>
    BY <1>5 DEF Asks, Awaits, OrphanExits, Ask, AskAgain, CallStep, AwaitFinds,
       AwaitGoesLive, AwaitEnds, AwaitReturns, storeVars, runnerVars, schedulerVars
  <2> QED
    BY <2>1, QuietKind
<1>6. CASE Stopped
  <2>1. /\ UNCHANGED <<runs, status, resetAt, worker, op, mode>>
        /\ sched' = [sched EXCEPT !.pc = "stopped"] /\ sched.pc = "waiting"
    BY <1>6 DEF Stopped, LoopEnds, Drained, Step, storeVars, runnerVars
  <2>2. /\ sched'.cands = sched.cands /\ sched'.launch = sched.launch
        /\ sched'.pc = "stopped"
    BY <1>0, <2>1 DEF Sched
  <2>3. \A t \in Tasks : Still(t)
    BY <1>0, <2>1, SameRowsSamePast DEF Still, Same, SameWorker
  <2>4. PlanOK' /\ Known' \subseteq Known
    BY <2>1, <2>2, PlanStays DEF Footing, Ground
  <2>5. Signals # {} /\ OpsOK'
    BY <2>1 DEF Footing, Ground, StayingUp, Over, OpsOK, OpOK
  <2>6. \A t : Unforgotten(t)
    BY <2>5 DEF Unforgotten
  <2> QED
    BY <2>3, <2>4, <2>5, <2>6, StillKind DEF Ground, StayingUp
<1> QED
  BY <1>1, <1>2, <1>3, <1>4, <1>5, <1>6

-----------------------------------------------------------------------------
(* Users and their handlers.                                               *)

\* One handler's record is replaced by one that launches nothing.
LEMMA HandlerMoves ==
    ASSUME Footing, NEW c \in Clients, NEW o, op' = [op EXCEPT ![c] = o],
           UNCHANGED <<sched, mode>>, OpOK(o), o.at # "launch"
    PROVE  /\ Ground' /\ Known' \subseteq Known
           /\ \A t : Resetting(t) => Resetting(t)' \/ (op[c].at = "reset" /\ op[c].task = t)
           /\ o.at = "reset" => Resetting(o.task)'
           /\ op[c].at # "reset" => \A t : Unforgotten(t)
<1>1. op \in [Clients -> GoodOps]
  BY DEF Footing, ServicesInv
<1>2. /\ Known' \subseteq Known /\ PlanOK' /\ OpsOK'
      /\ \A t : Resetting(t) => Resetting(t)' \/ (op[c].at = "reset" /\ op[c].task = t)
      /\ o.at = "reset" => Resetting(o.task)'
  BY <1>1, OpReplaced DEF Footing, Ground
<1>3. StayingUp'
  BY DEF Footing, Ground, StayingUp, Over
<1> QED
  BY <1>2, <1>3 DEF Ground, Unforgotten

\* Nothing else is written, but for comments and requests.
LEMMA HandlerQuiet ==
    ASSUME Footing, NEW c \in Clients, NEW o, op' = [op EXCEPT ![c] = o],
           UNCHANGED <<sched, mode, runs, status, resetAt, worker>>,
           OpOK(o), o.at # "launch", op[c].at # "reset"
    PROVE  StepKind /\ Ground'
<1>1. Ground' /\ Known' \subseteq Known /\ \A t : Unforgotten(t)
  BY HandlerMoves
<1>2. runs \in Seq(RunRow)
  BY DEF Footing, RunnerInv, StoreTypeOK
<1>3. \A t \in Tasks : Still(t)
  BY <1>2, SameRowsSamePast DEF Still, Same, SameWorker
<1> QED
  BY <1>1, <1>3, StillKind

\* Requests that write at once.
LEMMA AtOnceKind ==
    ASSUME Footing, NEW c \in Clients, NEW t \in Tasks, CreateTask(c, t) \/ EditTask(c, t)
    PROVE  StepKind /\ Ground'
<1>0. /\ RunnerInv /\ StoreTypeOK /\ runs \in Seq(RunRow)
      /\ UNCHANGED <<runs, worker, op, sched, mode>>
  BY DEF Footing, RunnerInv, StoreTypeOK, CreateTask, EditTask, Elsewhere, schedulerVars
<1>1. Ground' /\ Known' = Known /\ \A u : Unforgotten(u)
  BY <1>0, SameReaders DEF Footing, Ground, StayingUp, Over
<1>2. CASE CreateTask(c, t)
  <2>1. PICK s \in {"queued", "backlog"} : status' = [status EXCEPT ![t] = s]
    BY <1>2 DEF CreateTask
  <2>2. /\ status[t] = "none" /\ resetAt' = resetAt
        /\ s \in TaskStatus \cup Missing
    BY <1>2, <2>1 DEF CreateTask, TaskStatus
  <2> QED
    BY <1>0, <1>1, <2>1, <2>2, StatusKind
<1>3. CASE EditTask(c, t)
  <2>1. ResetTaskAttempts(t) /\ status' = status
    BY <1>3 DEF EditTask
  <2>2. Resets(t) /\ \A u \in Tasks \ {t} : Keeps(u)
    <3>1. /\ \A u \in Tasks \ {t} : SamePast(u)
          /\ Latest(t)' = Latest(t) /\ LastSession(t)' = LastSession(t)
          /\ LastAttempt(t)' = LastAttempt(t) /\ Tries(t)' = 0
          /\ Latest(t) <= resetAt'[t]
      BY <1>0, <2>1, ResetForgets
    <3> QED
      BY <1>0, <2>1, <3>1 DEF Resets, Keeps, SameWorker
  <2> QED
    BY <1>1, <2>2 DEF StepKind, Effect
<1> QED
  BY <1>1, <1>2, <1>3

\* Requests a handler begins to serve.
LEMMA BeginKind ==
    ASSUME Footing, NEW c \in Clients, op[c].at = "idle",
           NEW o, Begins(c, o), OpOK(o), o.at # "launch"
    PROVE  StepKind /\ Ground'
<1>1. UNCHANGED <<sched, mode, runs, status, resetAt, worker>>
  BY DEF Begins, Elsewhere, storeVars, schedulerVars
<1> QED
  BY <1>1, HandlerQuiet DEF Begins

LEMMA RunNowKind ==
    ASSUME Footing, NEW c \in Clients, NEW t \in Tasks, RunNowChecks(c, t)
    PROVE  StepKind /\ Ground'
<1>1. PICK k \in ResumableRuns \cup QueuedTasks :
        /\ k.task = t
        /\ Begins(c, [NoOp EXCEPT !.at = "launch", !.task = t,
                                  !.id = k.resume, !.attempt = k.attempt])
  BY DEF RunNowChecks
<1> DEFINE o == [NoOp EXCEPT !.at = "launch", !.task = t,
                             !.id = k.resume, !.attempt = k.attempt]
<1>2. o.at = "launch" /\ o.task = t /\ o.id = k.resume /\ o.attempt = k.attempt
  BY DEF NoOp
<1>3. op' = [op EXCEPT ![c] = o] /\ UNCHANGED <<sched, mode, runs, status, resetAt, worker>>
  BY <1>1 DEF Begins, Elsewhere, storeVars, schedulerVars
<1>4. k \in Candidate
  BY ResumableRunsTypes, QueuedTasksTypes DEF Footing, RunnerInv, StoreTypeOK
<1>5. [task |-> o.task, resume |-> o.id, attempt |-> o.attempt] = k
  BY <1>1, <1>2, <1>4 DEF Candidate
<1> HIDE DEF o
<1>6. op \in [Clients -> GoodOps] /\ op[c].at = "idle" /\ runs \in Seq(RunRow)
  BY DEF Footing, ServicesInv, RunNowChecks, Arrives, RunnerInv, StoreTypeOK
<1>7. OpOK(o)
  BY <1>2 DEF OpOK
<1>8. /\ Known' \subseteq Known \cup {k} /\ PlanOK' /\ OpsOK'
      /\ \A u : Resetting(u) => Resetting(u)'
  BY <1>2, <1>3, <1>5, <1>6, <1>7, OpReplaced DEF Footing, Ground
<1>9. \A u \in Tasks : Still(u)
  BY <1>3, <1>6, SameRowsSamePast DEF Still, Same, SameWorker
<1>10. Ground'
  BY <1>3, <1>8 DEF Footing, Ground, StayingUp, Over
<1> QED
  BY <1>8, <1>9, <1>10 DEF StepKind, Queried, Effect, Keeps, Still, Same, Unforgotten

LEMMA UserKind ==
    ASSUME Footing, NEW c \in Clients,
           UserBegins(c) \/ \E q \in 1 .. Len(requests) : SettleChecks(c, q)
    PROVE  StepKind /\ Ground'
<1>1. ASSUME NEW t \in Tasks, DeleteChecks(c, t)
      PROVE  StepKind /\ Ground'
  <2> DEFINE o == [NoOp EXCEPT !.at = "delete", !.task = t]
  <2>1. o.at = "delete" /\ OpOK(o)
    BY DEF NoOp, OpOK
  <2>2. Begins(c, o) /\ op[c].at = "idle"
    BY <1>1 DEF DeleteChecks, Arrives
  <2> HIDE DEF o
  <2> QED
    BY <2>1, <2>2, BeginKind
<1>2. ASSUME NEW t \in Tasks, PauseChecks(c, t)
      PROVE  StepKind /\ Ground'
  <2> DEFINE o == [NoOp EXCEPT !.at = "write", !.task = t, !.to = "paused"]
  <2>1. o.at = "write" /\ OpOK(o)
    BY DEF NoOp, OpOK
  <2>2. Begins(c, o) /\ op[c].at = "idle"
    BY <1>2 DEF PauseChecks, Arrives
  <2> HIDE DEF o
  <2> QED
    BY <2>1, <2>2, BeginKind
<1>3. ASSUME NEW t \in Tasks, ResumeChecks(c, t)
      PROVE  StepKind /\ Ground'
  <2> DEFINE s == IF Interrupted(LatestRunForTask(t)) THEN "resumable" ELSE "queued"
             o == [NoOp EXCEPT !.at = "write", !.task = t, !.reset = TRUE, !.to = s]
  <2>1. o.at = "write" /\ o.reset = TRUE
    BY DEF NoOp
  <2>2. Begins(c, o) /\ op[c].at = "idle" /\ ~NoRefiling
    BY <1>3 DEF ResumeChecks, Arrives, NoRefiling
  <2> HIDE DEF o
  <2>3. OpOK(o)
    BY <2>1, <2>2 DEF OpOK
  <2> QED
    BY <2>1, <2>2, <2>3, BeginKind
<1>4. ASSUME NEW t \in Tasks, SetChecks(c, t)
      PROVE  StepKind /\ Ground'
  <2>1. PICK s \in UserTargets, f \in TaskStatus :
           Begins(c, [NoOp EXCEPT
              !.at = IF s \in {"done", "dismissed"} THEN "retire" ELSE "write",
              !.task = t, !.to = f, !.reset = f \in Schedulable])
    BY <1>4 DEF SetChecks, UserTargets, TaskStatus
  <2> DEFINE p == IF s \in {"done", "dismissed"} THEN "retire" ELSE "write"
             o == [NoOp EXCEPT !.at = p, !.task = t, !.to = f, !.reset = f \in Schedulable]
  <2>2. p \in {"retire", "write"}
    OBVIOUS
  <2>3. Begins(c, o)
    BY <2>1
  <2> HIDE DEF p
  <2>4. o.at = p /\ o.to = f /\ o.reset = (f \in Schedulable)
    BY DEF NoOp
  <2>5. op[c].at = "idle" /\ ~NoRefiling
    BY <1>4 DEF SetChecks, Arrives, NoRefiling
  <2> HIDE DEF o
  <2>6. OpOK(o)
    BY <2>2, <2>4, <2>5 DEF OpOK, Schedulable
  <2> QED
    BY <2>2, <2>3, <2>4, <2>5, <2>6, BeginKind
<1>5. ASSUME NEW t \in Tasks, CommentChecks(c, t)
      PROVE  StepKind /\ Ground'
  <2> DEFINE o == [NoOp EXCEPT !.at = "comment", !.task = t,
                               !.reset = status[t] # "backlog"]
  <2>1. o.at = "comment"
    BY DEF NoOp
  <2>2. Begins(c, o) /\ op[c].at = "idle" /\ ~NoRefiling
    BY <1>5 DEF CommentChecks, Arrives, NoRefiling
  <2> HIDE DEF o
  <2>3. OpOK(o)
    BY <2>1, <2>2 DEF OpOK
  <2> QED
    BY <2>1, <2>2, <2>3, BeginKind
<1>6. ASSUME NEW r \in 1 .. Len(runs), CancelChecks(c, r)
      PROVE  StepKind /\ Ground'
  <2> DEFINE o == [NoOp EXCEPT !.at = "signal", !.task = runs[r].task, !.id = r]
  <2>1. o.at = "signal"
    BY DEF NoOp
  <2>2. Begins(c, o) /\ op[c].at = "idle"
    BY <1>6 DEF CancelChecks, Arrives
  <2> HIDE DEF o
  <2>3. OpOK(o)
    BY <2>1 DEF OpOK
  <2> QED
    BY <2>1, <2>2, <2>3, BeginKind
<1>7. ASSUME NEW q \in 1 .. Len(requests), SettleChecks(c, q)
      PROVE  StepKind /\ Ground'
  <2>1. PICK kind \in {"respond", "approve", "deny"} :
          /\ Arrives(c, kind)
          /\ Begins(c, [NoOp EXCEPT
                !.at = IF kind = "respond" THEN "reply" ELSE "decide",
                !.task = requests[q].task, !.id = q, !.live = requests[q].live,
                !.to = IF kind = "deny" THEN "denied" ELSE "answered"])
    BY <1>7 DEF SettleChecks
  <2> DEFINE o == [NoOp EXCEPT
                !.at = IF kind = "respond" THEN "reply" ELSE "decide",
                !.task = requests[q].task, !.id = q, !.live = requests[q].live,
                !.to = IF kind = "deny" THEN "denied" ELSE "answered"]
  <2>2. o.at = IF kind = "respond" THEN "reply" ELSE "decide"
    BY DEF NoOp
  <2>3. Begins(c, o) /\ op[c].at = "idle" /\ (NoRefiling => kind # "respond")
    BY <2>1 DEF Arrives, NoRefiling
  <2> HIDE DEF o
  <2>4. OpOK(o)
    BY <2>2, <2>3 DEF OpOK
  <2> QED
    BY <2>2, <2>3, <2>4, BeginKind
<1> QED
  BY <1>1, <1>2, <1>3, <1>4, <1>5, <1>6, <1>7, AtOnceKind, RunNowKind DEF UserBegins

\* Handlers that write no status, launch nothing and reset nothing.
LEMMA ReplyKind ==
    ASSUME Footing, NEW c \in Clients,
           ReplyStep(c) \/ RetiresRequests(c) \/ InsertsComment(c)
    PROVE  StepKind /\ Ground'
<1>0. /\ UNCHANGED <<sched, mode, runs, status, resetAt, worker>>
      /\ op[c] \in Op /\ OpOK(op[c]) /\ NoOp.at = "idle"
  BY DEF Footing, ServicesInv, GoodOps, Ground, OpsOK, NoOp, ReplyStep, RetiresRequests,
     InsertsComment, Decides, Replies, Answers, Delivers, Wakes, Elsewhere, storeVars,
     schedulerVars
<1>a. OpOK(NoOp)
  BY <1>0 DEF OpOK
<1>1. CASE Decides(c)
  <2>1. op' = [op EXCEPT ![c] = NoOp] /\ op[c].at = "decide"
    BY <1>1 DEF Decides, OpAt, Answered
  <2> QED
    BY <1>0, <1>a, <2>1, HandlerQuiet
<1>2. CASE Replies(c) \/ Answers(c) \/ Delivers(c)
  <2>1. PICK p \in {"answer", "deliver", "wake"}, m \in {op[c].comment, Len(comments) + 1} :
             op' = [op EXCEPT ![c] = [op[c] EXCEPT !.at = p, !.comment = m]]
    <3>1. \A p : [op[c] EXCEPT !.at = p, !.comment = op[c].comment]
                   = [op[c] EXCEPT !.at = p]
      BY <1>0 DEF Op
    <3> QED
      BY <1>2, <3>1 DEF Replies, Answers, Delivers
  <2> DEFINE o == [op[c] EXCEPT !.at = p, !.comment = m]
  <2>2. o.at = p
    BY <1>0 DEF Op
  <2>3. op[c].at \in {"reply", "answer", "deliver"}
    BY <1>2 DEF Replies, Answers, Delivers, OpAt
  <2>4. op' = [op EXCEPT ![c] = o]
    BY <2>1
  <2> HIDE DEF o
  <2>5. OpOK(o)
    BY <1>0, <2>2, <2>3 DEF OpOK
  <2> QED
    BY <1>0, <2>2, <2>3, <2>4, <2>5, HandlerQuiet
<1>3. CASE RetiresRequests(c)
  <2> DEFINE o == [op[c] EXCEPT !.at = "write"]
  <2>1. o.at = "write" /\ o.to = op[c].to /\ o.reset = op[c].reset
    BY <1>0 DEF Op
  <2>2. op' = [op EXCEPT ![c] = o] /\ op[c].at = "retire"
    BY <1>3 DEF RetiresRequests, OpAt
  <2> HIDE DEF o
  <2>3. OpOK(o)
    BY <1>0, <2>1, <2>2 DEF OpOK
  <2> QED
    BY <1>0, <2>1, <2>2, <2>3, HandlerQuiet
<1>4. ASSUME NEW t, NEW s, NEW b \in BOOLEAN, op[c].at \in {"comment", "wake"},
             op' = [op EXCEPT ![c] = IF b THEN [NoOp EXCEPT !.at = "write", !.task = t,
                                                            !.reset = TRUE, !.to = s]
                                     ELSE NoOp]
      PROVE  StepKind /\ Ground'
  <2> DEFINE q == [NoOp EXCEPT !.at = "write", !.task = t, !.reset = TRUE, !.to = s]
             o == IF b THEN q ELSE NoOp
  <2>1. q.at = "write" /\ q.reset = TRUE
    BY DEF NoOp
  <2>2. op' = [op EXCEPT ![c] = o]
    BY <1>4
  <2> HIDE DEF q
  <2>3. OpOK(o)
    BY <1>0, <1>a, <1>4, <2>1 DEF OpOK
  <2>4. o.at \in {"write", "idle"}
    BY <1>0, <2>1
  <2> HIDE DEF o
  <2> QED
    BY <1>0, <1>4, <2>2, <2>3, <2>4, HandlerQuiet
<1>5. CASE Wakes(c)
  <2> DEFINE b == status[op[c].task] = "awaiting_human"
  <2>1. op' = [op EXCEPT ![c] =
                 IF b THEN [NoOp EXCEPT
                              !.at = "write", !.task = op[c].task, !.reset = TRUE,
                              !.to = IF HasSession(LatestRunForTask(op[c].task))
                                     THEN "resumable" ELSE "queued"]
                 ELSE NoOp]
    BY <1>5 DEF Wakes
  <2>2. b \in BOOLEAN /\ op[c].at = "wake"
    BY <1>5 DEF Wakes, OpAt
  <2> HIDE DEF b
  <2> QED
    BY <1>4, <2>1, <2>2
<1>6. CASE InsertsComment(c)
  <2> DEFINE b == Exists(op[c].task) /\ op[c].reset
  <2>1. op' = [op EXCEPT ![c] =
                 IF b THEN [NoOp EXCEPT
                              !.at = "write", !.task = op[c].task, !.reset = TRUE,
                              !.to = IF Interrupted(LatestRunForTask(op[c].task))
                                     THEN "resumable" ELSE "queued"]
                 ELSE NoOp]
    BY <1>6 DEF InsertsComment
  <2>2. b \in BOOLEAN /\ op[c].at = "comment"
    BY <1>0, <1>6 DEF InsertsComment, OpAt, Op
  <2> HIDE DEF b
  <2> QED
    BY <1>4, <2>1, <2>2
<1> QED
  BY <1>1, <1>2, <1>3, <1>5, <1>6 DEF ReplyStep

\* Handlers that write to the task's row.
LEMMA WriteKind ==
    ASSUME Footing, NEW c \in Clients, DeletesRow(c) \/ WritesStatus(c) \/ ForgetsAttempts(c)
    PROVE  StepKind /\ Ground'
<1>0. /\ UNCHANGED <<sched, mode, runs, worker>> /\ RunnerInv /\ StoreTypeOK
      /\ op[c] \in GoodOps /\ op[c] \in Op /\ OpOK(op[c]) /\ NoOp.at = "idle"
      /\ status \in [Tasks -> TaskStatus \cup Missing]
  BY DEF Footing, ServicesInv, GoodOps, Ground, OpsOK, NoOp, DeletesRow, WritesStatus,
     ForgetsAttempts, Elsewhere, schedulerVars, RunnerInv, StoreTypeOK
<1>a. OpOK(NoOp)
  BY <1>0 DEF OpOK
<1>b. PICK t \in Tasks : t = op[c].task
  BY <1>0 DEF DeletesRow, WritesStatus, ForgetsAttempts, OpAt, GoodOps
<1>1. CASE DeletesRow(c)
  <2> DEFINE s == IF RunsOf(t) = {} /\ Exists(t) THEN "deleted" ELSE status[t]
  <2>1. status' = [status EXCEPT ![t] = s] /\ resetAt' = resetAt
    BY <1>0, <1>b, <1>1 DEF DeletesRow
  <2>2. op' = [op EXCEPT ![c] = NoOp] /\ op[c].at = "delete"
    BY <1>1 DEF DeletesRow, Answered, OpAt
  <2>3. /\ s \in TaskStatus \cup Missing
        /\ s = "none" => status[t] = "none"
        /\ s = "queued" => status[t] = "queued"
    BY <1>0, <1>b DEF Missing
  <2> HIDE DEF s
  <2>4. Ground' /\ Known' \subseteq Known /\ \A u : Unforgotten(u)
    BY <1>0, <1>a, <2>2, HandlerMoves
  <2> QED
    BY <1>0, <1>b, <2>1, <2>3, <2>4, StatusKind
<1>2. CASE WritesStatus(c)
  <2> DEFINE q == [NoOp EXCEPT !.at = "reset", !.task = t]
  <2>0. PICK o : o = IF op[c].reset THEN q ELSE NoOp
    OBVIOUS
  <2>1. SetTaskStatus(t, op[c].to) /\ resetAt' = resetAt /\ op' = [op EXCEPT ![c] = o]
    BY <1>b, <1>2, <2>0 DEF WritesStatus
  <2>2. q.at = "reset" /\ q.task = t
    BY DEF NoOp
  <2>3. op[c].at = "write" /\ op[c].to \in TaskStatus
    BY <1>0, <1>2 DEF WritesStatus, OpAt, GoodOps, Writable
  <2> HIDE DEF q
  <2>4. OpOK(o) /\ o.at # "launch"
    BY <1>0, <1>a, <2>0, <2>2, <2>3 DEF OpOK
  <2>5. op[c].to = "queued" => ~NoRefiling /\ o.at = "reset" /\ o.task = t
    BY <1>0, <2>0, <2>2, <2>3 DEF OpOK
  <2>6. /\ Ground' /\ Known' \subseteq Known /\ (\A u : Unforgotten(u))
        /\ o.at = "reset" => Resetting(o.task)'
    BY <1>0, <2>1, <2>3, <2>4, HandlerMoves
  <2>7. op[c].to = "queued" => ~NoRefiling /\ Resetting(t)'
    BY <2>5, <2>6
  <2> QED
    BY <1>0, <2>1, <2>3, <2>6, <2>7, SetStatusKind
<1>3. CASE ForgetsAttempts(c)
  <2>1. ResetTaskAttempts(t) /\ status' = status /\ op' = [op EXCEPT ![c] = NoOp]
    BY <1>b, <1>3 DEF ForgetsAttempts, Answered
  <2>2. /\ Ground' /\ Known' \subseteq Known
        /\ \A u : Resetting(u) => Resetting(u)' \/ t = u
    BY <1>0, <1>a, <1>b, <2>1, HandlerMoves
  <2>3. /\ \A u \in Tasks \ {t} : SamePast(u)
        /\ Latest(t)' = Latest(t) /\ LastSession(t)' = LastSession(t)
        /\ LastAttempt(t)' = LastAttempt(t) /\ Tries(t)' = 0
        /\ Latest(t) <= resetAt'[t]
    BY <1>0, <1>b, <2>1, ResetForgets
  <2>4. Resets(t) /\ \A u \in Tasks \ {t} : Keeps(u)
    BY <1>0, <1>b, <2>1, <2>3 DEF Resets, Keeps, SameWorker
  <2>5. \A u \in Tasks : Unforgotten(u)
    BY <2>2, <2>4 DEF Unforgotten
  <2> QED
    BY <2>2, <2>4, <2>5 DEF StepKind, Effect
<1> QED
  BY <1>1, <1>2, <1>3

LEMMA RunLaunchKind ==
    ASSUME Footing, NEW c \in Clients, RunNowLaunches(c)
    PROVE  StepKind /\ Ground'
<1> DEFINE k == OpCand(c)
<1>0. /\ UNCHANGED <<sched, mode, runs, status, resetAt>> /\ RunnerInv
      /\ op[c].at = "launch" /\ op' = [op EXCEPT ![c] = NoOp] /\ NoOp.at = "idle"
      /\ runs \in Seq(RunRow) /\ op[c] \in GoodOps
  BY DEF Footing, ServicesInv, RunNowLaunches, OpAt, Answered, Elsewhere, storeVars,
     schedulerVars, NoOp, RunnerInv, StoreTypeOK
<1>1. k \in Known /\ k.task \in Tasks
  BY <1>0 DEF Known, OpCand, GoodOps
<1>2. Ground' /\ Known' \subseteq Known /\ \A t : Unforgotten(t)
  <2>1. OpOK(NoOp)
    BY <1>0 DEF OpOK
  <2> QED
    BY <1>0, <2>1, HandlerMoves
<1>3. \/ worker' = worker
      \/ 1 \in ByHand(<<k>>, Inflight, {k.task}) /\ Launch(k, TRUE)
  BY DEF RunNowLaunches, OpCand
<1>4. \A t \in Tasks : Launched(t) \/ Still(t)
  <2>1. CASE worker' = worker
    BY <1>0, <2>1, SameRowsSamePast DEF Still, Same, SameWorker
  <2>2. CASE 1 \in ByHand(<<k>>, Inflight, {k.task}) /\ Launch(k, TRUE)
    <3>1. ~Capped(k)
      <4>1. <<k>>[1] = k
        OBVIOUS
      <4> HIDE DEF k
      <4> QED
        BY <2>2, <4>1 DEF ByHand
    <3> HIDE DEF k
    <3> QED
      BY <1>0, <1>1, <2>2, <3>1, LaunchKind
  <2> QED
    BY <1>3, <2>1, <2>2
<1> QED
  BY <1>2, <1>4 DEF StepKind, Effect, Keeps, Still, Same

LEMMA CancelKind ==
    ASSUME Footing, NEW c \in Clients, CancelSignals(c) \/ CancelAbandons(c)
    PROVE  StepKind /\ Ground'
<1>0. /\ UNCHANGED <<sched, mode, status, resetAt>> /\ RunnerInv
      /\ runs \in Seq(RunRow) /\ op[c] \in Op /\ NoOp.at = "idle"
  BY DEF Footing, ServicesInv, GoodOps, CancelSignals, CancelAbandons, Elsewhere,
     storeVars, schedulerVars, NoOp, RunnerInv, StoreTypeOK
<1>1. CASE CancelSignals(c)
  <2> DEFINE q == [op[c] EXCEPT !.at = "abandon"]
             o == IF op[c].task \in Inflight THEN NoOp ELSE q
  <2>1. op[c].at = "signal" /\ op' = [op EXCEPT ![c] = o] /\ runs' = runs
        /\ Cancel(op[c].task, "cancelled")
    BY <1>1 DEF CancelSignals, OpAt, storeVars
  <2>2. q.at = "abandon"
    BY <1>0 DEF Op
  <2>3. o.at \in {"idle", "abandon"}
    BY <1>0, <2>2
  <2> HIDE DEF o
  <2>4. OpOK(o)
    BY <2>3 DEF OpOK
  <2>5. Ground' /\ Known' \subseteq Known /\ \A t : Unforgotten(t)
    BY <1>0, <2>1, <2>3, <2>4, HandlerMoves
  <2>6. \A t \in Tasks : Still(t)
    BY <1>0, <2>1, CancelledIsStill
  <2> QED
    BY <2>5, <2>6, StillKind
<1>2. CASE CancelAbandons(c)
  <2> DEFINE o == [NoOp EXCEPT !.at = "write", !.task = op[c].task, !.to = "paused"]
  <2>1. /\ op[c].at = "abandon" /\ op' = [op EXCEPT ![c] = o] /\ worker' = worker
        /\ FinishRun(op[c].id, "abandoned")
    BY <1>2 DEF CancelAbandons, OpAt
  <2>2. o.at = "write" /\ o.to = "paused" /\ o.reset = FALSE
    BY DEF NoOp
  <2> HIDE DEF o
  <2>3. OpOK(o)
    BY <2>2 DEF OpOK
  <2>4. Ground' /\ Known' \subseteq Known /\ \A t : Unforgotten(t)
    BY <1>0, <2>1, <2>2, <2>3, HandlerMoves
  <2>5. \A t \in Tasks : Still(t)
    BY <1>0, <2>1, FinishSamePast DEF Still, Same, SameWorker
  <2> QED
    BY <2>4, <2>5, StillKind
<1> QED
  BY <1>1, <1>2

\* Every step is of one of the kinds, and what handlers and plans are made of
\* stays so.
LEMMA EveryKind ==
    ASSUME Steady, Footing, [Next]_vars
    PROVE  StepKind /\ Ground'
<1>1. CASE \E t \in Tasks : Works(t) \/ NamesSession(t) \/ Releases(t)
  BY <1>1, WorkKind, ReleaseKind
<1>2. CASE \E r \in 1 .. MaxRuns : Asks(r) \/ Awaits(r) \/ OrphanExits(r)
  BY <1>2, LifeKind
<1>3. CASE \E c \in Clients : Demands(c) \/ Handles(c)
  <2>1. PICK c \in Clients : Demands(c) \/ Handles(c)
    BY <1>3
  <2>2. CASE Demands(c)
    BY <2>2, UserKind DEF Demands
  <2>3. CASE Handles(c)
    BY <2>3, ReplyKind, WriteKind, RunLaunchKind, CancelKind DEF Handles, HandlerStep
  <2> QED
    BY <2>1, <2>2, <2>3
<1>4. CASE Ticks
  BY <1>4, TickKind
<1>5. CASE Stops \/ Stopped \/ Signalled \/ Crash \/ Exit \/ Restart
  BY <1>5, LifeKind
<1>6. CASE UNCHANGED vars
  BY <1>6, QuietKind DEF vars, storeVars, runnerVars, schedulerVars
<1> QED
  BY <1>1, <1>2, <1>3, <1>4, <1>5, <1>6 DEF Next

-----------------------------------------------------------------------------
(* The invariant, and the two properties.                                  *)

MemoryInv == Ground /\ TasksOK /\ (NoRefiling => FreshInv) /\ (Bounded => CapsInv)

LEMMA MemoryInit ==
    ASSUME Init
    PROVE  MemoryInv
<1>1. /\ runs = <<>> /\ worker = [t \in Tasks |-> NoWorker]
      /\ NoWorker.run = 0 /\ NoWorker.pc = "idle" /\ NoOp.at = "idle"
      /\ status = [t \in Tasks |-> "none"] /\ resetAt = [t \in Tasks |-> 0]
      /\ sched = Resting /\ Resting.pc = "idle" /\ Resting.cands = <<>>
      /\ Resting.launch = {} /\ mode = "down" /\ op = [c \in Clients |-> NoOp]
  BY DEF Init, StoreInit, RunnerInit, SchedulerInit, ServicesInit, NoWorker, NoOp,
     Resting
<1>2. 1 .. Len(sched.cands) = {} /\ \A c \in Clients : op[c].at = "idle"
  BY <1>1
<1>3. Known = {}
  BY <1>2 DEF Known
<1>4. Ground
  BY <1>1, <1>2 DEF Ground, OpsOK, OpOK, PlanOK, StayingUp, Over
<1>5. StoreTypeOK
  BY TypeInvInit DEF TypeInv, TypeOK
<1>6. ASSUME NEW t \in Tasks
      PROVE  Latest(t) = 0 /\ ~LastSession(t) /\ LastAttempt(t) = 0 /\ Tries(t) = 0
  <2>1. 1 .. Len(runs) = {}
    BY <1>1
  <2>2. RunsOf(t) = {}
    BY <2>1 DEF RunsOf
  <2>3. Latest(t) = 0
    BY <1>5, <2>2, LatestRunIsRun DEF Latest, StoreTypeOK
  <2>4. Tries(t) = 0
    BY <1>1, <1>5, <2>3, PastFacts
  <2> QED
    BY <2>3, <2>4 DEF LastSession, HasSession, LastAttempt
<1>7. \A t \in Tasks : worker[t].pc = "idle" /\ worker[t].run = 0 /\ status[t] = "none"
  BY <1>1
<1>8. TasksOK
  BY <1>3, <1>6, <1>7 DEF TasksOK, Plain
<1>9. FreshInv
  BY <1>3, <1>7 DEF FreshInv, FreshAt, Ready, AtWork, Ending
<1>10. CapsInv
  BY <1>1, <1>3, <1>6, <1>7, PolicyAssumption DEF CapsInv, CappedAt, RowsCapped,
     ReadyCapped, QueueCapped, NewCapped, Ready, AtWork, Ending
<1> QED
  BY <1>4, <1>8, <1>9, <1>10 DEF MemoryInv

LEMMA MemoryNext ==
    ASSUME Steady, TypeInv, TypeInv', LeaseInv, PastOK, PastOK', MemoryInv, [Next]_vars
    PROVE  MemoryInv'
<1>1. Footing
  BY TypeInvHas DEF Footing, LeaseInv, MemoryInv
<1>2. StepKind /\ Ground'
  BY <1>1, EveryKind
<1>3. TypeOK /\ TypeOK' /\ TasksOK /\ OpsOK
  BY DEF TypeInv, MemoryInv, Ground
<1>4. TasksOK'
  BY <1>2, <1>3, TasksOKKept
<1>5. NoRefiling => FreshInv'
  BY <1>2, <1>3, FreshKept DEF MemoryInv
<1>6. Bounded => CapsInv'
  BY <1>2, <1>3, CapsKept DEF MemoryInv
<1> QED
  BY <1>2, <1>4, <1>5, <1>6 DEF MemoryInv, NoRefiling, Bounded

LEMMA MemoryHolds ==
    ASSUME Steady
    PROVE  Spec => [](TypeInv /\ PastOK /\ MemoryInv)
<1>1. Init => TypeInv /\ LeaseInv /\ MemoryInv
  BY TypeInvInit, LeaseInvInit, MemoryInit
<1>2. TypeInv /\ [Next]_vars => TypeInv'
  BY TypeInvNext
<1>3. TypeInv /\ TypeInv' /\ LeaseInv /\ [Next]_vars => LeaseInv'
  BY LeaseInvNext
<1>4. TypeInv => PastOK
  BY PastHolds DEF TypeInv, TypeOK
<1>5. TypeInv /\ TypeInv' /\ LeaseInv /\ PastOK /\ PastOK' /\ MemoryInv /\ [Next]_vars
        => MemoryInv'
  BY MemoryNext
<1> QED
  BY <1>1, <1>2, <1>3, <1>4, <1>5, PTL DEF Spec

\* However ticks, launches by hand, edits, cancels and the workers themselves
\* interleave, a task has no more than max_attempts tries between two of its
\* resets.  Where the daemon may be ended nobody may requeue a task, for a
\* crash between that write and its reset leaves the old tries to count.
THEOREM TriesHold ==
    ASSUME Steady, Bounded
    PROVE  Spec => []TriesWithinCap
<1>1. TypeInv /\ PastOK /\ MemoryInv => TriesWithinCap
  <2> SUFFICES ASSUME PastOK, MemoryInv, NEW t \in Tasks, ~Handling(t)
               PROVE  Tries(t) <= MaxAttempts
    BY DEF TriesWithinCap, Tries, Tried
  <2>1. CappedAt(t) /\ MaxAttempts \in Nat
    BY PolicyAssumption DEF MemoryInv, CapsInv
  <2>2. ~Resetting(t)
    BY DEF Handling, Resetting
  <2> QED
    BY <2>1, <2>2 DEF CappedAt, RowsCapped, PastOK
<1> QED
  BY <1>1, MemoryHolds, PTL

\* Nothing a task's run has left is thrown away: as long as no user puts a
\* task back into the queue, a run starts without a session only when the
\* newest run of its task left none to continue.
THEOREM ResumesHold ==
    ASSUME Steady, NoRefiling
    PROVE  Spec => ResumeNotRestart
<1>1. TypeInv /\ MemoryInv /\ [Next]_vars =>
        [\A t \in Tasks :
            StartRun(t) /\ worker[t].resume = 0 => ~Interrupted(LatestRunForTask(t))]_vars
  <2> SUFFICES ASSUME MemoryInv, NEW t \in Tasks, StartRun(t), worker[t].resume = 0
               PROVE  ~Interrupted(LatestRunForTask(t))
    OBVIOUS
  <2>1. FreshAt(t) /\ worker[t].pc = "workspace"
    BY DEF MemoryInv, FreshInv, StartRun, At
  <2> QED
    BY <2>1 DEF FreshAt, Ready, LastSession, Latest, Interrupted
<1> QED
  BY <1>1, MemoryHolds, PTL DEF Spec, ResumeNotRestart
=============================================================================
