---------------------------- MODULE Correctness ----------------------------
(***************************************************************************)
(* What the daemon owes its users, stated over the composed model.         *)
(***************************************************************************)
EXTENDS Daemon

Owned(r) == \E t \in Tasks : RunOf(t) = r

\* A handler that is still going to write something about the task.
Handling(t) == \E c \in Clients : op[c].at # "idle" /\ op[c].task = t

\* Scheduled runs never exceed parallel_n, however ticks, manual launches and
\* finishing workers interleave (plan reads the registry, launch writes it).
WorkerCap ==
    Cardinality({t \in Inflight : ~worker[t].manual}) <= Workers

\* While a daemon is up, and none before it crashed, a run row is active only as
\* long as its goroutine lives, and a task reads "running" only while it holds a
\* worker: else reconcile would bury a finished run, or nothing would ever move
\* the task again.
NothingStranded ==
    mode # "down" =>
        /\ \A r \in ActiveRuns : Owned(r)
        /\ \A t \in Tasks : status[t] = "running" => t \in Inflight

\* One claude per task: no second agent works in the same worktree.
OneClaude ==
    \A q, r \in alive : runs[q].task = runs[r].task => q = r

\* max_attempts bounds the tries between two resets of a task, whoever
\* interrupts them: a try is a run in which claude opened a session.  (A
\* handler between its write and its reset is excused.)
TriesWithinCap ==
    \A t \in Tasks :
        \/ Cardinality({r \in RunsOf(t) : r > resetAt[t] /\ runs[r].session})
              <= MaxAttempts
        \/ Handling(t)

\* Resume, never restart: a run starts without a session only when the task's
\* newest run left none to continue.
ResumeNotRestart ==
    [][\A t \in Tasks :
        StartRun(t) /\ worker[t].resume = 0 => ~Interrupted(LatestRunForTask(t))]_vars

\* A tick plans only after its reconcile: every run still active then, and
\* every claude whose pid was recorded, belongs to a worker of this daemon.
PlansOnCleanSlate ==
    sched.pc \in {"fetch", "fetchqueued", "decide", "act"} =>
        /\ \A r \in ActiveRuns : runs[r].task \in Inflight
        /\ \A r \in alive : runs[r].pid => runs[r].task \in Inflight

\* Whatever the daemon died of, a task left "running" can be found again: it
\* holds a worker, or reconcile has it in hand, or an active row leads to it.
RunningIsRecoverable ==
    \A t \in Tasks : status[t] = "running" =>
        \/ t \in Inflight
        \/ \E r \in ActiveRuns : runs[r].task = t
        \/ sched.pc = "settling" /\ Found.task = t

\* reconcile buries what a previous daemon left: a run this daemon has finished
\* keeps the status it ended with.
EndedRunsStay ==
    [][\A r \in 1 .. Len(runs) :
        runs[r].status \in EndStatus => runs'[r].status = runs[r].status]_vars

\* A task is not parked behind questions that are all settled already: nobody
\* would ever wake it.
ParkedCanWake ==
    \A t \in Tasks :
        LET asked == {q \in 1 .. Len(requests) : requests[q].task = t}
        IN  status[t] = "awaiting_human" /\ asked # {} =>
                \/ \E q \in asked : requests[q].status = "pending"
                \/ t \in Inflight
                \/ Handling(t)

\* A comment is struck off only when an agent has it, by prompt or by tool
\* result, or is about to be handed it: nothing the user wrote is swallowed.
NothingSwallowed ==
    \A m \in 1 .. Len(comments) : comments[m].consumed =>
        \/ m \in heard \cup told
        \/ \E r \in 1 .. MaxRuns : Calling(r) /\ Asked(r).reply = m

\* The live flag is a property of a running long poll: with the daemon up, a
\* request is live only while some agent's call is waiting on it.
LiveMeansWaiting ==
    mode # "down" =>
        \A q \in 1 .. Len(requests) : requests[q].live =>
            \E r \in 1 .. MaxRuns : call[r].at \in {"waiting", "off"} /\ call[r].req = q

\* An orderly exit comes after every scheduled run: a claude, an active row or a
\* "running" task it leaves for the next daemon to bury belongs to a run some
\* user launched by hand, which the wait did not count.
ExitLosesNoScheduledRun ==
    [][Exit => /\ \A t \in Inflight : worker[t].manual
               /\ \A r \in alive \cup ActiveRuns : Owned(r)
               /\ \A t \in Tasks : status[t] = "running" => t \in Inflight]_vars

\* SIGTERM ends the daemon: no lock, worker or handler keeps it for ever.
StopsEventually == (mode = "stopping") ~> (mode = "down")

\* Left alone by its users, a task that can run does run and comes to rest,
\* unless the daemon stops first: no task waits for ever behind the others.
ComesToRest ==
    \A t \in Tasks :
        (status[t] \in {"queued", "resumable", "running"})
            ~> (status[t] \in {"pr_created", "awaiting_human", "failed"}
                \/ mode # "up")

\* The whole daemon, through crashes and restarts, is one of leases: nobody
\* launches a task that holds a worker, a launch leaves one run row, claude is
\* started for that row alone, and no worker is released while its claude lives.
L == INSTANCE Leases WITH
        held <- Inflight,
        row <- [t \in Tasks |-> RunOf(t)],
        log <- [i \in 1 .. Len(runs) |-> runs[i].task],
        agents <- alive,
        up <- mode # "down"

ImplementsLeases == L!LeaseSpec
=============================================================================
