------------------------------- MODULE Daemon -------------------------------
(***************************************************************************)
(* cmd/burnrate/serve.go: the whole daemon.  The scheduler's loop, the     *)
(* workers, the agents they run, the users' requests and the human loop    *)
(* interleave over one store; a crash takes everything but the store and   *)
(* the claude processes, and a restart finds both.                         *)
(***************************************************************************)
EXTENDS HumanLoop

CONSTANTS Lives,      \* bound: how often the daemon is started
          Signals,    \* how it may end: a subset of {"crash", "shutdown"}
          LongRuns    \* timing: a session outlasts any plan or handler, see TooSoon

ASSUME DaemonAssumption ==
    /\ Lives \in Nat \ {0}
    /\ Signals \subseteq {"crash", "shutdown"}
    /\ LongRuns \in BOOLEAN

VARIABLE lives      \* starts so far

vars == <<storeVars, runnerVars, schedulerVars, op, humanVars, lives>>

TypeOK ==
    /\ StoreTypeOK
    /\ RunnerTypeOK
    /\ SchedulerTypeOK
    /\ ServicesTypeOK
    /\ HumanTypeOK
    /\ lives \in 0 .. Lives

Init ==
    /\ StoreInit
    /\ RunnerInit
    /\ SchedulerInit
    /\ ServicesInit
    /\ HumanInit
    /\ lives = 0

-----------------------------------------------------------------------------
(* The process.  What a dead daemon's memory held is gone.                 *)

Forgotten ==
    /\ worker' = [t \in Tasks |-> NoWorker]
    /\ sched' = Resting
    /\ op' = [c \in Clients |-> NoOp]
    /\ call' = [r \in 1 .. MaxRuns |-> NoCall]
    /\ mode' = "down"
    /\ UNCHANGED <<storeVars, alive, heard, told, lives>>

Crash ==
    /\ "crash" \in Signals
    /\ mode # "down"
    /\ lives < Lives
    /\ Forgotten

\* runServe returns after the loop has: at any moment from then on, whatever the
\* handlers and the runs they launched are at, since nobody waits for these.
Exit == sched.pc = "stopped" /\ Forgotten

\* Mistake: the live flags of the dead daemon's long polls are kept.
RestartStillLive ==
    /\ mode = "down"
    /\ lives < Lives
    /\ mode' = "up"
    /\ lives' = lives + 1
    /\ UNCHANGED <<storeVars, runnerVars, sched, op, humanVars>>

Restart ==
    /\ mode = "down"
    /\ lives < Lives
    /\ mode' = "up"
    /\ lives' = lives + 1
    /\ ClearHumanRequestLive
    /\ UNCHANGED <<status, resetAt, runs, comments, runnerVars, sched, op,
                   humanVars>>

\* A claude no worker of this daemon started ends by itself.
OrphanExits(r) ==
    /\ r \in alive
    /\ \A t \in Tasks : RunOf(t) # r
    /\ alive' = alive \ {r}
    /\ UNCHANGED <<storeVars, worker, heard, schedulerVars, op, humanVars, lives>>

-----------------------------------------------------------------------------
(* The parts, each leaving the others' variables alone.                    *)

\* An agent waiting for a tool result does not end its turn.
Blocked(t) ==
    /\ At(t, "working") /\ Calling(RunOf(t))
    /\ worker'[t].pc # "exited"
          \/ worker'[t].exit \notin {"rate_limited", "timed_out", "error"}

\* A plan or a handler that has read the task's row and not yet acted on it.
Deciding(t) ==
    \/ \E i \in 1 .. Len(sched.cands) : sched.cands[i].task = t
    \/ \E c \in Clients : op[c].at # "idle" /\ op[c].task = t

\* Nothing in the code keeps a whole claude session from fitting between a
\* query and the write or launch it leads to; but the one takes milliseconds
\* and the other starts a process and talks to a model.  LongRuns states that,
\* FALSE lifts it.
TooSoon(t) ==
    LongRuns /\ Deciding(t) /\ At(t, "working") /\ worker'[t].pc = "exited"

Works(t) ==
    /\ WorkerStep(t)
    /\ ~Blocked(t)
    /\ ~TooSoon(t)
    /\ UNCHANGED <<op, humanVars, lives>>

NamesSession(t) ==
    SessionInit(t) /\ UNCHANGED <<schedulerVars, op, humanVars, lives>>

Releases(t) == Release(t) /\ UNCHANGED <<op, humanVars, lives>>

Ticks == TickStep /\ UNCHANGED <<op, humanVars, lives>>

Stops == CancelAll /\ UNCHANGED <<op, humanVars, lives>>

Stopped == LoopEnds /\ UNCHANGED <<op, humanVars, lives>>

Signalled == "shutdown" \in Signals /\ Terminate
                /\ UNCHANGED <<op, humanVars, lives>>

Asks(r) == (Ask(r) \/ AskAgain(r)) /\ UNCHANGED lives

Awaits(r) == CallStep(r) /\ UNCHANGED lives

Demands(c) ==
    \/ UserBegins(c) /\ UNCHANGED <<humanVars, lives>>
    \/ \E q \in 1 .. Len(requests) : SettleChecks(c, q) /\ UNCHANGED lives

Handles(c) ==
    \/ HandlerStep(c) /\ UNCHANGED <<humanVars, lives>>
    \/ ReplyStep(c) /\ UNCHANGED lives

Next ==
    \/ \E t \in Tasks : Works(t) \/ NamesSession(t) \/ Releases(t)
    \/ \E r \in 1 .. MaxRuns : Asks(r) \/ Awaits(r) \/ OrphanExits(r)
    \/ \E c \in Clients : Demands(c) \/ Handles(c)
    \/ Ticks \/ Stops \/ Stopped \/ Signalled \/ Crash \/ Exit \/ Restart

\* The loop's ticker fires, goroutines are scheduled, claude ends (its run has
\* a wall-clock budget), handlers and long polls return, and select does not
\* pass over a closed ctx.Done() for ever.  Users, agents and signals owe
\* nothing.
Fairness ==
    /\ WF_vars(Ticks)
    /\ SF_vars(Stops)
    /\ WF_vars(Stopped) /\ WF_vars(Exit)
    /\ \A t \in Tasks : WF_vars(Works(t)) /\ SF_vars(Releases(t))
    /\ \A r \in 1 .. MaxRuns : WF_vars(Awaits(r))
    /\ \A c \in Clients : SF_vars(Handles(c))

Spec == Init /\ [][Next]_vars

FairSpec == Spec /\ Fairness
=============================================================================
