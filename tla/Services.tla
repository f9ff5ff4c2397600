------------------------------ MODULE Services ------------------------------
(***************************************************************************)
(* internal/service: what a user's HTTP request does to a task or a run.   *)
(* A handler reads rows and the in-flight registry, decides, and then      *)
(* writes; it holds no lock across the two, so the scheduler, the workers  *)
(* and other handlers run in between.  `op` holds each client's request.   *)
(***************************************************************************)
EXTENDS Scheduler

CONSTANTS Clients,   \* concurrent HTTP requests
          Requests   \* the kinds of request this instance lets users make

RequestKinds == {"create", "edit", "delete", "pause", "resume", "set",
                 "comment", "run_now", "cancel", "respond", "approve", "deny"}

ASSUME ServicesAssumption == Requests \subseteq RequestKinds

VARIABLE op

\* What a handler does next.
OpPlaces == {"idle", "delete", "comment", "retire", "write", "reset", "launch",
             "signal", "abandon", "reply", "answer", "deliver", "wake", "decide"}

\* to: the status about to be written; reset: whether the attempts are
\* forgotten after it; id: the run, request or comment the handler read.
Op == [at : OpPlaces, task : Tasks \cup {0}, to : TaskStatus \cup RequestStatus,
       reset : BOOLEAN, id : Nat, comment : Nat, live : BOOLEAN, attempt : Nat]

NoOp == [at |-> "idle", task |-> 0, to |-> "queued", reset |-> FALSE, id |-> 0,
         comment |-> 0, live |-> FALSE, attempt |-> 0]

ServicesTypeOK == op \in [Clients -> Op]

ServicesInit == op = [c \in Clients |-> NoOp]

\* A request arrives: the server accepts no new ones once it is stopping.
Arrives(c, kind) == op[c].at = "idle" /\ mode = "up" /\ kind \in Requests

OpAt(c, place) == op[c].at = place /\ mode # "down"

Answered(c) == op' = [op EXCEPT ![c] = NoOp]

\* What no handler touches on its own.
Elsewhere == <<alive, heard, schedulerVars>>

\* The guard five handlers share: not running, and no worker in flight.
Untouched(t) == ~LockHeld /\ Exists(t) /\ status[t] # "running" /\ t \notin Inflight

Schedulable == {"queued", "resumable"}

-----------------------------------------------------------------------------
(* One-statement requests.                                                 *)

CreateTask(c, t) ==
    /\ Arrives(c, "create")
    /\ status[t] = "none"
    /\ \E s \in {"queued", "backlog"} : status' = [status EXCEPT ![t] = s]
    /\ UNCHANGED <<resetAt, runs, comments, requests, worker, op, Elsewhere>>

\* An edit forgets the attempts, whether or not the task is running.
EditTask(c, t) ==
    /\ Arrives(c, "edit")
    /\ Exists(t)
    /\ ResetTaskAttempts(t)
    /\ UNCHANGED <<status, runs, comments, requests, worker, op, Elsewhere>>

-----------------------------------------------------------------------------
(* Requests that check first and write later.                              *)

Begins(c, next) ==
    /\ op' = [op EXCEPT ![c] = next]
    /\ UNCHANGED <<storeVars, worker, Elsewhere>>

DeleteChecks(c, t) ==
    /\ Arrives(c, "delete")
    /\ Untouched(t)
    /\ Begins(c, [NoOp EXCEPT !.at = "delete", !.task = t])

\* A task that ever ran keeps its runs, and the foreign key keeps the task.
DeletesRow(c) ==
    /\ OpAt(c, "delete")
    /\ status' = [status EXCEPT
                    ![op[c].task] = IF RunsOf(op[c].task) = {} /\ Exists(op[c].task)
                                    THEN "deleted" ELSE @]
    /\ Answered(c)
    /\ UNCHANGED <<resetAt, runs, comments, requests, worker, Elsewhere>>

\* PauseTask asks neither the registry nor the lock.
PauseChecks(c, t) ==
    /\ Arrives(c, "pause")
    /\ status[t] \in Schedulable
    /\ Begins(c, [NoOp EXCEPT !.at = "write", !.task = t, !.to = "paused"])

ResumeChecks(c, t) ==
    /\ Arrives(c, "resume")
    /\ status[t] = "paused"
    /\ Begins(c, [NoOp EXCEPT
                    !.at = "write", !.task = t, !.reset = TRUE,
                    !.to = IF Interrupted(LatestRunForTask(t))
                           THEN "resumable" ELSE "queued"])

UserTargets == {"queued", "backlog", "paused", "done", "dismissed", "failed",
                "resumable"}

\* SetTaskStatus, and CompleteTask and DismissTask, which are its two final
\* targets.  A task leaving the backlog for the queue keeps its session.
SetChecks(c, t) ==
    /\ Arrives(c, "set")
    /\ Untouched(t)
    /\ \E s \in UserTargets :
          LET session == HasSession(LatestRunForTask(t))
              final == IF s = "queued" /\ status[t] = "backlog" /\ session
                       THEN "resumable" ELSE s
          IN  /\ s = "resumable" => session
              /\ Begins(c, [NoOp EXCEPT
                    !.at = IF s \in {"done", "dismissed"} THEN "retire" ELSE "write",
                    !.task = t, !.to = final, !.reset = final \in Schedulable])

RetiresRequests(c) ==
    /\ OpAt(c, "retire")
    /\ CancelTaskRequests(op[c].task)
    /\ op' = [op EXCEPT ![c].at = "write"]
    /\ UNCHANGED <<status, resetAt, runs, comments, worker, Elsewhere>>

WritesStatus(c) ==
    /\ OpAt(c, "write")
    /\ SetTaskStatus(op[c].task, op[c].to)
    /\ op' = [op EXCEPT ![c] = IF op[c].reset
                               THEN [NoOp EXCEPT !.at = "reset", !.task = op[c].task]
                               ELSE NoOp]
    /\ UNCHANGED <<resetAt, runs, comments, requests, worker, Elsewhere>>

ForgetsAttempts(c) ==
    /\ OpAt(c, "reset")
    /\ ResetTaskAttempts(op[c].task)
    /\ Answered(c)
    /\ UNCHANGED <<status, runs, comments, requests, worker, Elsewhere>>

-----------------------------------------------------------------------------
(* AddComment: check, insert, requeue unless the task was in the backlog.  *)

CommentChecks(c, t) ==
    /\ Arrives(c, "comment")
    /\ Len(comments) + Cardinality({d \in Clients : op[d].at = "comment"}) < MaxComments
    /\ Untouched(t)
    /\ Begins(c, [NoOp EXCEPT !.at = "comment", !.task = t,
                              !.reset = status[t] # "backlog"])

InsertsComment(c) ==
    /\ OpAt(c, "comment")
    /\ LET t == op[c].task
           requeue == [NoOp EXCEPT
                         !.at = "write", !.task = t, !.reset = TRUE,
                         !.to = IF Interrupted(LatestRunForTask(t))
                                THEN "resumable" ELSE "queued"]
       IN  /\ comments' = IF Exists(t)
                          THEN Append(comments, [task |-> t, consumed |-> FALSE])
                          ELSE comments
           /\ op' = [op EXCEPT ![c] = IF Exists(t) /\ op[c].reset
                                      THEN requeue ELSE NoOp]
    /\ UNCHANGED <<status, resetAt, runs, requests, worker, Elsewhere>>

-----------------------------------------------------------------------------
(* RunNow: check and query, then decide with the task forced, and launch.  *)

RunNowChecks(c, t) ==
    /\ Arrives(c, "run_now")
    /\ Untouched(t)
    /\ \E k \in ResumableRuns \cup QueuedTasks :
          /\ k.task = t
          /\ Begins(c, [NoOp EXCEPT !.at = "launch", !.task = t,
                                    !.id = k.resume, !.attempt = k.attempt])

RunNowLaunches(c) ==
    /\ OpAt(c, "launch")
    /\ ~LockHeld
    /\ LET k == [task |-> op[c].task, resume |-> op[c].id,
                 attempt |-> op[c].attempt]
       IN  IF 1 \in ByHand(<<k>>, Inflight, {k.task})
           THEN Launch(k, TRUE) ELSE UNCHANGED worker
    /\ Answered(c)
    /\ UNCHANGED <<storeVars, Elsewhere>>

-----------------------------------------------------------------------------
(* CancelRun: signal the worker of the task the run belonged to; with none *)
(* in flight, close the run and pause the task here.                       *)

CancelChecks(c, r) ==
    /\ Arrives(c, "cancel")
    /\ runs[r].status \in ActiveStatus
    /\ Begins(c, [NoOp EXCEPT !.at = "signal", !.task = runs[r].task, !.id = r])

CancelSignals(c) ==
    /\ OpAt(c, "signal")
    /\ ~LockHeld
    /\ Cancel(op[c].task, "cancelled")
    /\ op' = [op EXCEPT ![c] = IF op[c].task \in Inflight THEN NoOp
                               ELSE [op[c] EXCEPT !.at = "abandon"]]
    /\ UNCHANGED <<storeVars, Elsewhere>>

CancelAbandons(c) ==
    /\ OpAt(c, "abandon")
    /\ FinishRun(op[c].id, "abandoned")
    /\ op' = [op EXCEPT ![c] = [NoOp EXCEPT !.at = "write", !.task = op[c].task,
                                            !.to = "paused"]]
    /\ UNCHANGED <<status, resetAt, comments, requests, worker, Elsewhere>>

-----------------------------------------------------------------------------
UserBegins(c) ==
    \/ \E t \in Tasks : \/ CreateTask(c, t) \/ EditTask(c, t)
                        \/ DeleteChecks(c, t) \/ PauseChecks(c, t)
                        \/ ResumeChecks(c, t) \/ SetChecks(c, t)
                        \/ CommentChecks(c, t) \/ RunNowChecks(c, t)
    \/ \E r \in 1 .. Len(runs) : CancelChecks(c, r)

HandlerStep(c) ==
    \/ DeletesRow(c) \/ RetiresRequests(c) \/ WritesStatus(c)
    \/ ForgetsAttempts(c) \/ InsertsComment(c) \/ RunNowLaunches(c)
    \/ CancelSignals(c) \/ CancelAbandons(c)
=============================================================================
