----------------------------- MODULE HumanLoop -----------------------------
(***************************************************************************)
(* internal/service/request_service.go and internal/mcp: the questions an  *)
(* agent asks through the MCP server, the long poll that waits for the     *)
(* answer, and the handlers with which a human answers.  An agent makes    *)
(* one call at a time; the daemon's side of it is `call`.                  *)
(***************************************************************************)
EXTENDS Services

VARIABLES call,   \* the tool call the agent of each run is in
          told    \* ghost: comments a tool result brought to a living agent

humanVars == <<call, told>>

\* check: the request is not read yet; mark: it was pending and live is about
\* to be set; off: the outcome is decided, live is about to be cleared.
Calls == [at : {"none", "check", "mark", "waiting", "off"}, req : Nat,
          reply : Nat]

NoCall == [at |-> "none", req |-> 0, reply |-> 0]

HumanTypeOK ==
    /\ call \in [1 .. MaxRuns -> Calls]
    /\ told \subseteq Nat

HumanInit ==
    /\ call = [r \in 1 .. MaxRuns |-> NoCall]
    /\ told = {}

Pending(q) == requests[q].status = "pending"

Calling(r) == r \in 1 .. MaxRuns /\ call[r].at # "none"

CallAt(r, at) == mode # "down" /\ call[r].at = at

Asked(r) == requests[call[r].req]   \* the request the call is about

\* The result of a call reaches the agent if its process is still there.
Tell(r, m) == told' = IF m # 0 /\ r \in alive THEN told \cup {m} ELSE told

-----------------------------------------------------------------------------
(* The agent's side: ask_human (or request_demo), and await_request on a   *)
(* request of the same task.                                               *)

Ask(r) ==
    /\ mode = "up"
    /\ r \in alive /\ ~Calling(r)
    /\ Len(requests) < MaxRequests
    /\ CreateHumanRequest(runs[r].task, r)
    /\ call' = [call EXCEPT ![r] = [NoCall EXCEPT !.at = "check",
                                                  !.req = Len(requests) + 1]]
    /\ UNCHANGED <<status, resetAt, runs, comments, runnerVars, schedulerVars,
                   op, told>>

AskAgain(r) ==
    /\ mode = "up"
    /\ r \in alive /\ ~Calling(r)
    /\ \E q \in 1 .. Len(requests) :
          /\ requests[q].task = runs[r].task
          /\ call' = [call EXCEPT ![r] = [NoCall EXCEPT !.at = "check", !.req = q]]
    /\ UNCHANGED <<storeVars, runnerVars, schedulerVars, op, told>>

\* A request settled already is answered at once, before live is touched.
AwaitFinds(r) ==
    /\ CallAt(r, "check")
    /\ IF Pending(call[r].req)
       THEN /\ call' = [call EXCEPT ![r].at = "mark"]
            /\ UNCHANGED told
       ELSE /\ call' = [call EXCEPT ![r] = NoCall]
            /\ Tell(r, Asked(r).reply)
    /\ UNCHANGED <<storeVars, runnerVars, schedulerVars, op>>

AwaitGoesLive(r) ==
    /\ CallAt(r, "mark")
    /\ SetHumanRequestLive(call[r].req, TRUE)
    /\ call' = [call EXCEPT ![r].at = "waiting"]
    /\ UNCHANGED <<status, resetAt, runs, comments, runnerVars, schedulerVars,
                   op, told>>

\* The last look at the request: it is settled, or the budget ran out, or the
\* agent went away.
AwaitEnds(r) ==
    /\ CallAt(r, "waiting")
    /\ call' = [call EXCEPT ![r].at = "off", ![r].reply = Asked(r).reply]
    /\ UNCHANGED <<storeVars, runnerVars, schedulerVars, op, told>>

\* The deferred SetHumanRequestLive(false); then the result is on its way.
AwaitReturns(r) ==
    /\ CallAt(r, "off")
    /\ SetHumanRequestLive(call[r].req, FALSE)
    /\ Tell(r, call[r].reply)
    /\ call' = [call EXCEPT ![r] = NoCall]
    /\ UNCHANGED <<status, resetAt, runs, comments, runnerVars, schedulerVars, op>>

-----------------------------------------------------------------------------
(* The human's side.                                                       *)

\* Comments that requests under way are about to insert.
Coming == Cardinality({c \in Clients : op[c].at \in {"comment", "reply"}})

SettleChecks(c, q) ==
    /\ Pending(q)
    /\ \E kind \in {"respond", "approve", "deny"} :
          /\ Arrives(c, kind)
          /\ kind = "respond" => Len(comments) + Coming < MaxComments
          /\ Begins(c, [NoOp EXCEPT
                !.at = IF kind = "respond" THEN "reply" ELSE "decide",
                !.task = requests[q].task, !.id = q, !.live = requests[q].live,
                !.to = IF kind = "deny" THEN "denied" ELSE "answered"])
    /\ UNCHANGED humanVars

\* Approve and Deny settle the request, and nothing else.
Decides(c) ==
    /\ OpAt(c, "decide")
    /\ SetHumanRequestStatus(op[c].id, op[c].to)
    /\ Answered(c)
    /\ UNCHANGED <<status, resetAt, runs, comments, worker, Elsewhere, humanVars>>

Replies(c) ==
    /\ OpAt(c, "reply")
    /\ AddComment(op[c].task)
    /\ op' = [op EXCEPT ![c].at = "answer", ![c].comment = Len(comments) + 1]
    /\ UNCHANGED <<status, resetAt, runs, requests, worker, Elsewhere, humanVars>>

Answers(c) ==
    /\ OpAt(c, "answer")
    /\ SetHumanRequestResponse(op[c].id, op[c].comment)
    /\ op' = [op EXCEPT ![c].at = IF op[c].live THEN "deliver" ELSE "wake"]
    /\ UNCHANGED <<status, resetAt, runs, comments, worker, Elsewhere, humanVars>>

\* The double-injection guard goes by the live flag read at the beginning.
Delivers(c) ==
    /\ OpAt(c, "deliver")
    /\ MarkCommentConsumed(op[c].comment)
    /\ op' = [op EXCEPT ![c].at = "wake"]
    /\ UNCHANGED <<status, resetAt, runs, requests, worker, Elsewhere, humanVars>>

Wakes(c) ==
    /\ OpAt(c, "wake")
    /\ LET t == op[c].task
       IN  op' = [op EXCEPT ![c] =
                    IF status[t] # "awaiting_human" THEN NoOp
                    ELSE [NoOp EXCEPT
                            !.at = "write", !.task = t, !.reset = TRUE,
                            !.to = IF HasSession(LatestRunForTask(t))
                                   THEN "resumable" ELSE "queued"]]
    /\ UNCHANGED <<storeVars, worker, Elsewhere, humanVars>>

-----------------------------------------------------------------------------
CallStep(r) == AwaitFinds(r) \/ AwaitGoesLive(r) \/ AwaitEnds(r) \/ AwaitReturns(r)

ReplyStep(c) == Decides(c) \/ Replies(c) \/ Answers(c) \/ Delivers(c) \/ Wakes(c)
=============================================================================
