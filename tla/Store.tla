------------------------------- MODULE Store -------------------------------
(***************************************************************************)
(* internal/store: the SQLite rows the daemon's components share.  Every   *)
(* operator named after a store method is one SQL statement; an UPDATE     *)
(* whose row is missing changes nothing.  The rows survive a crash.        *)
(***************************************************************************)
EXTENDS Integers, Sequences, FiniteSets, FiniteSetsExt

CONSTANTS Tasks,        \* the tasks a user may create
          MaxRuns,      \* bound: run rows
          MaxComments,  \* bound: user comments
          MaxRequests   \* bound: human requests

ASSUME StoreAssumption ==
    /\ IsFiniteSet(Tasks)
    /\ MaxRuns \in Nat
    /\ MaxComments \in Nat
    /\ MaxRequests \in Nat

VARIABLES
    status,     \* tasks.status; "none" before the INSERT, "deleted" after
    resetAt,    \* tasks.attempt_reset_run_id
    runs,       \* the runs table; a run's id is its position
    comments,   \* the user's rows of task_comments
    requests    \* human_requests

storeVars == <<status, resetAt, runs, comments, requests>>

Missing == {"none", "deleted"}

TaskStatus == {"backlog", "queued", "running", "resumable", "paused",
               "awaiting_human", "pr_created", "done", "dismissed", "failed"}

ActiveStatus == {"starting", "running", "resuming"}
EndStatus == {"succeeded", "rate_limited", "timed_out", "errored", "abandoned"}
RequestStatus == {"pending", "answered", "denied", "canceled"}

\* session: the row has a session id; pid: its pid column names the claude
\* process of this run (not 0, and not the pid of an earlier process of it).
RunRow == [task : Tasks, status : ActiveStatus \cup EndStatus, attempt : Nat,
           session : BOOLEAN, pid : BOOLEAN]

CommentRow == [task : Tasks, consumed : BOOLEAN]

RequestRow == [task : Tasks, run : Nat, status : RequestStatus,
               live : BOOLEAN, reply : Nat]

StoreTypeOK ==
    /\ status \in [Tasks -> TaskStatus \cup Missing]
    /\ resetAt \in [Tasks -> Nat]
    /\ runs \in Seq(RunRow)
    /\ comments \in Seq(CommentRow)
    /\ requests \in Seq(RequestRow)

StoreInit ==
    /\ status = [t \in Tasks |-> "none"]
    /\ resetAt = [t \in Tasks |-> 0]
    /\ runs = <<>>
    /\ comments = <<>>
    /\ requests = <<>>

-----------------------------------------------------------------------------
(* Queries.                                                                *)

Exists(t) == status[t] \notin Missing

RunsOf(t) == {r \in 1 .. Len(runs) : runs[r].task = t}

\* The newest run of the task, 0 when it has none.
LatestRunForTask(t) == Max(RunsOf(t) \cup {0})

HasSession(r) == r # 0 /\ runs[r].session

\* How many tries a prior run counts for: none when there is no such run (0)
\* or it is not after the task's last reset.
EffectiveAttempt(reset, r) == IF r <= reset THEN 0 ELSE runs[r].attempt

\* Candidates that continue a session: the task is resumable and its newest
\* run recorded one.
ResumableRuns ==
    {[task |-> t, resume |-> LatestRunForTask(t),
      attempt |-> EffectiveAttempt(resetAt[t], LatestRunForTask(t))] :
        t \in {u \in Tasks : /\ status[u] = "resumable"
                             /\ HasSession(LatestRunForTask(u))}}

\* Mistake: resumable tasks count as queued ones, with no run to continue.
QueuedTasksToo ==
    {[task |-> t, resume |-> 0, attempt |-> 0] :
        t \in {u \in Tasks : status[u] \in {"queued", "resumable"}}}

QueuedTasks ==
    {[task |-> t, resume |-> 0, attempt |-> 0] :
        t \in {u \in Tasks : status[u] = "queued"}}

\* Every order sort_order may give a set of rows: a user reorders at will.
Orderings(S) ==
    {f \in [1 .. Cardinality(S) -> S] :
        \A i, j \in 1 .. Cardinality(S) : i # j => f[i] # f[j]}

UnconsumedComments(t) ==
    {m \in 1 .. Len(comments) : comments[m].task = t /\ ~comments[m].consumed}

RequestsOfRun(r) == {q \in 1 .. Len(requests) : requests[q].run = r}

\* Runs a finished row of which a user may continue by resuming the task.
Interrupted(r) ==
    HasSession(r) /\ runs[r].status \in {"rate_limited", "timed_out", "errored"}

-----------------------------------------------------------------------------
(* Statements.                                                             *)

SetTaskStatus(t, s) ==
    status' = [status EXCEPT ![t] = IF Exists(t) THEN s ELSE @]

ResetTaskAttempts(t) ==
    resetAt' = [resetAt EXCEPT ![t] = Max({@, LatestRunForTask(t)})]

CreateRun(t, n) ==
    runs' = Append(runs, [task |-> t, status |-> "starting", attempt |-> n,
                          session |-> FALSE, pid |-> FALSE])

FinishRun(r, s) == runs' = [runs EXCEPT ![r].status = s]

AddComment(t) == comments' = Append(comments, [task |-> t, consumed |-> FALSE])

MarkCommentsConsumed(t) ==
    comments' = [m \in 1 .. Len(comments) |->
                    [comments[m] EXCEPT !.consumed = @ \/ comments[m].task = t]]

MarkCommentConsumed(m) == comments' = [comments EXCEPT ![m].consumed = TRUE]

CreateHumanRequest(t, r) ==
    requests' = Append(requests, [task |-> t, run |-> r, status |-> "pending",
                                  live |-> FALSE, reply |-> 0])

SetHumanRequestStatus(q, s) == requests' = [requests EXCEPT ![q].status = s]

SetHumanRequestLive(q, on) == requests' = [requests EXCEPT ![q].live = on]

SetHumanRequestResponse(q, m) ==
    requests' = [requests EXCEPT ![q].status = "answered", ![q].reply = m]

CancelTaskRequests(t) ==
    requests' = [q \in 1 .. Len(requests) |->
                    IF requests[q].task = t /\ requests[q].status = "pending"
                    THEN [requests[q] EXCEPT !.status = "canceled"]
                    ELSE requests[q]]

ClearHumanRequestLive ==
    requests' = [q \in 1 .. Len(requests) |-> [requests[q] EXCEPT !.live = FALSE]]
=============================================================================
