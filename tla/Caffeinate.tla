----------------------------- MODULE Caffeinate -----------------------------
(***************************************************************************)
(* internal/caffeinate: one child process that keeps the machine awake,    *)
(* switched by the user and by the run broadcasts of the server.  A        *)
(* broadcast reads the scheduler's count of workers and passes it on with  *)
(* no lock held over the two.                                              *)
(***************************************************************************)
EXTENDS Integers, FiniteSets

CONSTANTS Slots,    \* runs that may be in flight together
          Children,   \* external: child processes, a number is used again
          NoChild,
          Toggles,    \* bound: how often the user presses the button
          Deaths      \* bound: how often a child dies of itself

ASSUME CaffeinateAssumption == NoChild \notin Children /\ Toggles \in Nat /\ Deaths \in Nat

VARIABLES
    cmd,        \* m.cmd
    manual,     \* m.manual
    living,     \* external: children that are alive
    waiter,     \* children whose waiting goroutine has yet to take the mutex
    worker,     \* [Slots -> its place and the count its broadcast has read]
    up,         \* the daemon: "serving", "draining", "down"
    toggled, died

process == <<cmd, manual, living, waiter>>
caffVars == <<process, worker, up, toggled, died>>

\* A worker enters the registry, broadcasts a run_update as often as it likes
\* ("in", "in-read"), leaves, broadcasts run_complete ("left", "left-read").
Rest == [at |-> "none", count |-> 0]

CaffInit ==
    /\ cmd = NoChild /\ manual = FALSE
    /\ living = {} /\ waiter = {}
    /\ worker = [w \in Slots |-> Rest]
    /\ up = "serving"
    /\ toggled = 0 /\ died = 0

RunningCount == Cardinality({w \in Slots : worker[w].at \in {"starting", "in", "in-read"}})

-----------------------------------------------------------------------------
(* The manager; each of these runs under its mutex.                        *)

\* A start that fails, as children that die may, leaves everything as it is.
Spawn(byUser) ==
    \/ \E c \in Children \ (living \cup waiter) :
        /\ cmd' = c
        /\ manual' = byUser
        /\ living' = living \cup {c}
        /\ waiter' = waiter \cup {c}
    \/ Deaths > 0 /\ UNCHANGED process

Kill ==
    /\ living' = living \ {cmd}
    /\ cmd' = NoChild
    /\ manual' = FALSE
    /\ UNCHANGED waiter

SetAutomatic(running) ==
    \/ running > 0 /\ cmd = NoChild /\ Spawn(FALSE)
    \/ running = 0 /\ cmd # NoChild /\ ~manual /\ Kill
    \/ /\ IF running > 0 THEN cmd # NoChild ELSE cmd = NoChild \/ manual
       /\ UNCHANGED process

Toggle ==
    /\ up = "serving" /\ toggled < Toggles
    /\ toggled' = toggled + 1
    /\ IF cmd # NoChild THEN Kill ELSE Spawn(TRUE)
    /\ UNCHANGED <<worker, up, died>>

\* Mistake: the goroutine clears m.cmd whatever it is by then.
ReapAny ==
    /\ \E c \in waiter \ living : waiter' = waiter \ {c}
    /\ cmd' = NoChild
    /\ UNCHANGED <<manual, living, worker, up, toggled, died>>

\* The goroutine of spawn, after its child ended for whatever reason: it must
\* not clear the child that was started since.
Reap ==
    /\ \E c \in waiter \ living :
        /\ waiter' = waiter \ {c}
        /\ cmd' = IF cmd = c THEN NoChild ELSE cmd
    /\ UNCHANGED <<manual, living, worker, up, toggled, died>>

ChildDies ==
    /\ died < Deaths
    /\ \E c \in living : living' = living \ {c}
    /\ died' = died + 1
    /\ UNCHANGED <<cmd, manual, waiter, worker, up, toggled>>

-----------------------------------------------------------------------------
(* OnBroadcast in the goroutine of each run.                               *)

Moves(w, from, to, count) ==
    /\ worker[w].at = from
    /\ worker' = [worker EXCEPT ![w] = [at |-> to, count |-> count]]
    /\ UNCHANGED <<up, toggled, died>>

Launch(w) == up = "serving" /\ Moves(w, "none", "starting", 0) /\ UNCHANGED process
Leave(w) == Moves(w, "in", "left", 0) /\ UNCHANGED process

ReadCount(w) ==
    /\ \/ Moves(w, "starting", "in-read", RunningCount)
       \/ Moves(w, "in", "in-read", RunningCount)
       \/ Moves(w, "left", "left-read", RunningCount)
    /\ UNCHANGED process

PassCount(w) ==
    /\ \/ Moves(w, "in-read", "in", 0)
       \/ Moves(w, "left-read", "none", 0)
    /\ SetAutomatic(worker[w].count)

-----------------------------------------------------------------------------
(* runServe: SIGTERM, wait for the workers, then the deferred Shutdown.    *)

Signal ==
    /\ up = "serving"
    /\ up' = "draining"
    /\ UNCHANGED <<process, worker, toggled, died>>

\* Mistake: the exit waits for the registry, not for the broadcasts after it.
ShutdownEarly ==
    /\ up = "draining" /\ RunningCount = 0
    /\ up' = "down"
    /\ IF cmd # NoChild THEN Kill ELSE UNCHANGED process
    /\ UNCHANGED <<worker, toggled, died>>

Shutdown ==
    /\ up = "draining" /\ \A w \in Slots : worker[w].at = "none"
    /\ up' = "down"
    /\ IF cmd # NoChild THEN Kill ELSE UNCHANGED process
    /\ UNCHANGED <<worker, toggled, died>>

CaffNext ==
    \/ \E w \in Slots : Launch(w) \/ Leave(w) \/ ReadCount(w) \/ PassCount(w)
    \/ Toggle \/ Reap \/ ChildDies \/ Signal \/ Shutdown

CaffTypeOK ==
    /\ cmd \in Children \cup {NoChild} /\ manual \in BOOLEAN
    /\ living \subseteq Children /\ living \subseteq waiter /\ waiter \subseteq Children
    /\ \A w \in Slots : worker[w].count \in 0 .. Cardinality(Slots)

-----------------------------------------------------------------------------
(* Whom the machine stays awake for.                                       *)

\* No child is ever alive that the manager does not know: neither after a
\* toggle that overtakes the goroutine of the child before, nor after an
\* orderly exit, whose last broadcasts still start and stop one.
NoStrayChild == living \subseteq {cmd} /\ (up = "down" => living = {})
=============================================================================
