---------------------------- MODULE PolicyCheck ----------------------------
(***************************************************************************)
(* The declarative Policy against scheduling.Decide as it is written, a    *)
(* loop over the candidates with a counter of free workers, and against    *)
(* what its callers rely on.  Inputs are built up one candidate at a time, *)
(* and the body of the loop is run on each as it is added.                 *)
(***************************************************************************)
EXTENDS Policy

CONSTANTS Names,     \* task ids
          Tries,     \* attempts a candidate may have behind it
          Length     \* bound: candidates

ASSUME CheckAssumption ==
    /\ IsFiniteSet(Names)
    /\ Tries \subseteq Nat
    /\ Length \in Nat

VARIABLES cands, running, force, usage,   \* the Input
          plan   \* the loop: free workers, the first reason, the decisions so far

checkVars == <<cands, running, force, usage, plan>>

gate == GlobalGate(usage)

Usages == Readings({MaxSnapshotAge, MaxSnapshotAge + 1}, {0, SessionThreshold}, {0, 1})

\* Nothing is forced by a tick; RunNow forces the one task it is about.
CheckInit ==
    /\ cands = <<>>
    /\ running \in SUBSET Names
    /\ force \in {{}} \cup {{n} : n \in Names}
    /\ usage \in Usages
    /\ plan = [free |-> Workers - Cardinality(running), firstBlocked |-> "none", out |-> <<>>]

-----------------------------------------------------------------------------
(* The body of the loop.                                                   *)

Decision(c, free) ==
    CASE c.task \in running
            -> [action |-> "wait", reason |-> "running", takes |-> 0]
      [] c.task \notin running /\ Capped(c)
            -> [action |-> "fail", reason |-> "attempt_cap", takes |-> 0]
      [] c.task \in force \ running /\ ~Capped(c)
            -> [action |-> "launch", reason |-> "ready", takes |-> 0]
      [] c.task \notin running \cup force /\ ~Capped(c)
            -> CASE Blocking(gate)
                       -> [action |-> "wait", reason |-> gate, takes |-> 0]
                 [] ~Blocking(gate) /\ free <= 0
                       -> [action |-> "wait", reason |-> "workers_busy", takes |-> 0]
                 [] ~Blocking(gate) /\ free > 0
                       -> [action |-> "launch", reason |-> "ready", takes |-> 1]

Considers(c) ==
    LET d == Decision(c, plan.free)
    IN  /\ cands' = Append(cands, c)
        /\ plan' = [free |-> plan.free - d.takes,
                    firstBlocked |-> IF d.action = "wait" /\ Blocking(d.reason)
                                        /\ plan.firstBlocked = "none"
                                     THEN d.reason ELSE plan.firstBlocked,
                    out |-> Append(plan.out, d)]

\* Candidates come from two queries, what may be resumed before what is queued,
\* each with a task once; a status written in between puts a task in both.
QueueFresh ==
    /\ Len(cands) < Length
    /\ \E n \in Names :
          /\ \A i \in 1 .. Len(cands) : cands[i].resume = 0 => cands[i].task # n
          /\ Considers([task |-> n, resume |-> 0, attempt |-> 0])
    /\ UNCHANGED <<running, force, usage>>

QueueResumable ==
    /\ Len(cands) < Length
    /\ \E n \in Names, k \in Tries :
          /\ \A i \in 1 .. Len(cands) : cands[i].resume # 0 /\ cands[i].task # n
          /\ Considers([task |-> n, resume |-> 1, attempt |-> k])
    /\ UNCHANGED <<running, force, usage>>

CheckNext == QueueFresh \/ QueueResumable

CheckSpec == CheckInit /\ [][CheckNext]_checkVars

\* After the loop.
LoopGlobal ==
    IF Blocking(gate) \/ \E i \in 1 .. Len(plan.out) : plan.out[i].action = "launch"
    THEN gate
    ELSE IF cands = <<>> THEN "queue_empty"
    ELSE IF plan.firstBlocked = "none" THEN gate
    ELSE plan.firstBlocked

-----------------------------------------------------------------------------
\* The sets the scheduler acts on are those the loop of Decide computes, with
\* the same reason for every candidate and the same explanation for all.
LoopAgrees ==
    /\ \A i \in 1 .. Len(cands) :
          LET d == plan.out[i]
          IN  /\ d.action = "launch" <=> i \in Launches(cands, running, force, gate)
              /\ d.action = "fail" <=> i \in Failures(cands, running)
              /\ d.reason = Reason(cands, running, force, gate, i)
    /\ LoopGlobal = Global(cands, running, force, gate)

\* Decide never plans more scheduled launches than there are free workers, even
\* when launches by hand have already taken more than the budget.
SlotsRespected ==
    LET n == Cardinality(Scheduled(cands, running, force, gate))
    IN  n = 0 \/ n + Cardinality(running) <= Workers

\* Priority order is kept and no worker idles: nobody is launched past an
\* earlier candidate that waits for a worker, and somebody waits for a worker
\* only when every one of them is taken.
NoOvertaking ==
    LET busy == {i \in 1 .. Len(cands) :
                    Reason(cands, running, force, gate, i) = "workers_busy"}
        taken == Scheduled(cands, running, force, gate)
    IN  busy # {} => /\ \A i \in busy, j \in taken : j < i
                     /\ Cardinality(taken) + Cardinality(running) >= Workers

\* "Never queue empty, which is only true with no candidates at all": when
\* nothing is launched the explanation is one that some waiting candidate has,
\* and a plan never suspends runs and starts scheduled ones at once.
GlobalExplains ==
    /\ Global(cands, running, force, gate) = "queue_empty" => cands = <<>>
    /\ Launches(cands, running, force, gate) = {}
        /\ Held(cands, running, force, gate) # {}
        => \E i \in Held(cands, running, force, gate) :
              Global(cands, running, force, gate)
                  = Reason(cands, running, force, gate, i)
    /\ Suspends(running, gate) = {}
        \/ Scheduled(cands, running, force, gate) = {}
=============================================================================
