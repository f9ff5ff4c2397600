------------------------------- MODULE Leases -------------------------------
(***************************************************************************)
(* What the scheduler, the workers and the handlers together promise about *)
(* tasks and agents, without how: a task is leased to one holder at a      *)
(* time, a lease writes one row of an append-only log and starts agents    *)
(* for that row only, and is given back when its agent is gone.  Only the  *)
(* daemon's end leaves agents without a lease.                             *)
(***************************************************************************)
EXTENDS Integers, Sequences

CONSTANT Tasks

VARIABLES held,    \* tasks that are leased
          row,     \* [Tasks -> the row its lease has written, 0 before that]
          log,     \* the task of every row
          agents,  \* rows that have an agent at work
          up       \* the daemon that holds the leases is there

leaseVars == <<held, row, log, agents, up>>

LeaseInit ==
    /\ held = {}
    /\ row = [t \in Tasks |-> 0]
    /\ log = <<>>
    /\ agents = {}
    /\ up = FALSE

Take(t) ==
    /\ up /\ t \notin held
    /\ held' = held \cup {t}
    /\ UNCHANGED <<row, log, agents, up>>

Write(t) ==
    /\ t \in held /\ row[t] = 0
    /\ row' = [row EXCEPT ![t] = Len(log) + 1]
    /\ log' = Append(log, t)
    /\ UNCHANGED <<held, agents, up>>

Employ(t) ==
    /\ t \in held /\ row[t] # 0
    /\ row[t] \notin agents
    /\ agents' = agents \cup {row[t]}
    /\ UNCHANGED <<held, row, log, up>>

AgentsEnd ==
    /\ agents' \in SUBSET agents
    /\ UNCHANGED <<held, row, log, up>>

Give(t) ==
    /\ t \in held /\ row[t] \notin agents
    /\ held' = held \ {t}
    /\ row' = [row EXCEPT ![t] = 0]
    /\ UNCHANGED <<log, agents, up>>

\* A crash forgets every lease, an exit those nobody waited for.
Down ==
    /\ up /\ up' = FALSE
    /\ held' = {}
    /\ row' = [t \in Tasks |-> 0]
    /\ UNCHANGED <<log, agents>>

Up == up' = TRUE /\ UNCHANGED <<held, row, log, agents>>

LeaseNext ==
    \/ \E t \in Tasks : Take(t) \/ Write(t) \/ Employ(t) \/ Give(t)
    \/ AgentsEnd \/ Down \/ Up

LeaseSpec == LeaseInit /\ [][LeaseNext]_leaseVars
=============================================================================
