------------------------- MODULE PolicyCheckProofs -------------------------
(***************************************************************************)
(* What PolicyCheck checks for three tasks, for any number of them.        *)
(***************************************************************************)
EXTENDS PolicyCheck, PolicyProofs

\* The inputs Decide is given: a sequence, and finitely many running tasks.
InputOK ==
    /\ cands \in Seq([task : Names, resume : Nat, attempt : Nat])
    /\ running \subseteq Names

LEMMA Adds == ASSUME NEW c, Considers(c) PROVE cands' = Append(cands, c)
BY DEF Considers

\* Every input the callers build has that shape.
LEMMA InputsOK == CheckSpec => []InputOK
<1>1. CheckInit => InputOK
  <2>1. CheckInit => cands = <<>> /\ running \in SUBSET Names
    BY DEF CheckInit
  <2>2. <<>> \in Seq([task : Names, resume : Nat, attempt : Nat])
    OBVIOUS
  <2> QED
    BY <2>1, <2>2 DEF InputOK
<1>2. InputOK /\ [CheckNext]_checkVars => InputOK'
  <2> SUFFICES ASSUME InputOK, [CheckNext]_checkVars PROVE InputOK'
    OBVIOUS
  <2>1. CASE QueueFresh
    <3>1. PICK n \in Names :
              cands' = Append(cands, [task |-> n, resume |-> 0, attempt |-> 0])
      BY <2>1, Adds DEF QueueFresh
    <3> QED
      BY <2>1, <3>1 DEF QueueFresh, InputOK
  <2>2. CASE QueueResumable
    <3>1. PICK n \in Names, k \in Tries :
              cands' = Append(cands, [task |-> n, resume |-> 1, attempt |-> k])
      BY <2>2, Adds DEF QueueResumable
    <3> QED
      BY <2>2, <3>1, CheckAssumption DEF QueueResumable, InputOK
  <2>3. CASE UNCHANGED checkVars
    BY <2>3 DEF checkVars, InputOK
  <2> QED
    BY <2>1, <2>2, <2>3 DEF CheckNext
<1> QED
  BY <1>1, <1>2, PTL DEF CheckSpec

\* Whatever the candidates, the running and the forced tasks and the usage
\* reading, Decide's scheduled launches fit in the workers that are free.
THEOREM DecideRespectsSlots == CheckSpec => []SlotsRespected
<1>1. InputOK => SlotsRespected
  <2> SUFFICES ASSUME InputOK PROVE SlotsRespected
    OBVIOUS
  <2> DEFINE taken == Scheduled(cands, running, force, gate)
  <2>1. Len(cands) \in Nat /\ IsFiniteSet(running)
    BY CheckAssumption, FS_Subset DEF InputOK
  <2>2. /\ IsFiniteSet(taken)
        /\ taken = {} \/ Cardinality(taken) <= Workers - Cardinality(running)
    BY <2>1, ScheduledWithinFree
  <2>3. Cardinality(taken) \in Nat /\ Cardinality(running) \in Nat /\ Workers \in Nat
    BY <2>1, <2>2, FS_CardinalityType, PolicyAssumption
  <2>4. CASE taken = {}
    BY <2>4, FS_EmptySet DEF SlotsRespected
  <2>5. CASE taken # {}
    <3>1. Cardinality(taken) + Cardinality(running) <= Workers
      BY <2>2, <2>3, <2>5
    <3> QED
      BY <3>1 DEF SlotsRespected
  <2> QED
    BY <2>4, <2>5
<1> QED
  BY <1>1, InputsOK, PTL

-----------------------------------------------------------------------------
\* The gate answers with one of its codes.
LEMMA GateKnown == gate \in GateCodes
<1> DEFINE tripped == {i \in 1 .. Len(GateOrder) : Trips(usage)[GateOrder[i]]}
<1>1. Len(GateOrder) = 5 /\ \A i \in 1 .. 5 : GateOrder[i] \in GateCodes
  BY DEF GateOrder, GateCodes
<1>2. tripped \subseteq 1 .. 5 /\ tripped \subseteq Nat
  BY <1>1
<1>3. gate = IF tripped = {} THEN "ready"
             ELSE GateOrder[CHOOSE i \in tripped : \A j \in tripped : i <= j]
  BY DEF gate, GlobalGate
<1> HIDE DEF tripped
<1>4. CASE tripped = {}
  BY <1>3, <1>4 DEF GateCodes
<1>5. CASE tripped # {}
  <2>1. \E i \in tripped : \A j \in tripped : i <= j
    BY <1>2, <1>5, LeastNatural
  <2>2. (CHOOSE i \in tripped : \A j \in tripped : i <= j) \in tripped
    BY <2>1
  <2> QED
    BY <1>1, <1>2, <1>3, <1>5, <2>2
<1> QED
  BY <1>4, <1>5

\* Who waits for a worker would have taken one, and found none left.
LEMMA BusyFindsNone ==
    ASSUME NEW i \in 1 .. Len(cands),
           Reason(cands, running, force, gate, i) = "workers_busy"
    PROVE  /\ Contends(cands[i], running, force, gate)
           /\ i \notin Scheduled(cands, running, force, gate)
<1>1. gate # "workers_busy"
  BY GateKnown DEF GateCodes
<1>2. cands[i].task \notin running /\ i \notin Failures(cands, running)
      /\ i \notin Launches(cands, running, force, gate)
  BY DEF Reason, Launches, Scheduled, ByHand, Failures, Contends
<1>3. Contends(cands[i], running, force, gate)
  BY <1>1, <1>2 DEF Reason
<1> QED
  BY <1>2, <1>3 DEF Launches

\* In whatever order the store returns the candidates, a worker goes to the
\* earliest that wants one, and none is left while a candidate waits for one.
THEOREM DecideKeepsOrder == CheckSpec => []NoOvertaking
<1>1. InputOK => NoOvertaking
  <2> DEFINE busy == {i \in 1 .. Len(cands) :
                         Reason(cands, running, force, gate, i) = "workers_busy"}
             taken == Scheduled(cands, running, force, gate)
             wants == {k \in 1 .. Len(cands) :
                         /\ Contends(cands[k], running, force, gate)
                         /\ k \notin taken}
             ahead(k) == Ahead(cands, running, force, gate, k)
  <2> SUFFICES ASSUME InputOK
               PROVE  busy # {} =>
                        /\ \A i \in busy, j \in taken : j < i
                        /\ Cardinality(taken) + Cardinality(running) >= Workers
    BY DEF NoOvertaking
  <2> SUFFICES ASSUME NEW b \in busy
               PROVE  /\ \A i \in busy, j \in taken : j < i
                      /\ Cardinality(taken) + Cardinality(running) >= Workers
    OBVIOUS
  <2>1. /\ Len(cands) \in Nat /\ Workers \in Nat
        /\ IsFiniteSet(running) /\ Cardinality(running) \in Nat
    BY CheckAssumption, PolicyAssumption, FS_Subset, FS_CardinalityType DEF InputOK
  <2>2. IsFiniteSet(taken) /\ Cardinality(taken) \in Nat
    BY <2>1, ScheduledWithinFree, FS_CardinalityType
  <2>3. busy \subseteq wants
    BY BusyFindsNone
  <2>4. ASSUME NEW k \in 1 .. Len(cands)
        PROVE  IsFiniteSet(ahead(k)) /\ Cardinality(ahead(k)) \in Nat
    <3>1. ahead(k) \subseteq 1 .. Len(cands)
      BY <2>1 DEF Ahead
    <3>2. IsFiniteSet(1 .. Len(cands))
      BY <2>1, FS_Interval
    <3> QED
      BY <3>1, <3>2, FS_Subset, FS_CardinalityType
  <2>5. \A k \in wants : Cardinality(ahead(k)) >= Workers - Cardinality(running)
    BY <2>1, <2>4 DEF Scheduled, Free
  <2>6. ASSUME NEW i \in busy, NEW j \in taken
        PROVE  j < i
    <3>1. i \in wants /\ i \in 1 .. Len(cands) /\ j \in 1 .. Len(cands) /\ i # j
      BY <2>3 DEF Scheduled
    <3>2. Cardinality(ahead(j)) < Workers - Cardinality(running)
      BY DEF Scheduled, Free
    <3>3. ASSUME i < j
          PROVE  FALSE
      <4>1. ahead(i) \subseteq ahead(j)
        BY <2>1, <3>1, <3>3 DEF Ahead
      <4>2. Cardinality(ahead(i)) <= Cardinality(ahead(j))
        BY <2>4, <3>1, <4>1, FS_Subset
      <4> QED
        BY <2>1, <2>4, <2>5, <3>1, <3>2, <4>2
    <3> QED
      BY <2>1, <3>1, <3>3
  <2>7. Cardinality(taken) + Cardinality(running) >= Workers
    <3>1. PICK m \in wants : \A k \in wants : m <= k
      <4>1. wants \subseteq Nat /\ wants # {}
        BY <2>1, <2>3
      <4> QED
        BY <4>1, LeastNatural
    <3>2. ahead(m) \subseteq taken
      <4> SUFFICES ASSUME NEW k \in ahead(m), k \notin taken PROVE FALSE
        OBVIOUS
      <4>1. k \in 1 .. m - 1 /\ Contends(cands[k], running, force, gate)
        BY DEF Ahead
      <4>2. k \in wants
        BY <2>1, <4>1
      <4> QED
        BY <2>1, <3>1, <4>1, <4>2
    <3>3. Cardinality(ahead(m)) <= Cardinality(taken)
      BY <2>2, <3>2, FS_Subset
    <3> QED
      BY <2>1, <2>2, <2>4, <2>5, <3>3
  <2> QED
    BY <2>6, <2>7
<1> QED
  BY <1>1, InputsOK, PTL

\* The explanation shown when nothing starts is a reason some candidate has:
\* "queue empty" is never said of a queue that is not, and runs are never
\* suspended and started by one plan.
THEOREM DecideExplains == CheckSpec => []GlobalExplains
<1>1. InputOK => GlobalExplains
  <2> DEFINE held == Held(cands, running, force, gate)
             first == CHOOSE i \in held : \A j \in held : i <= j
             told == Global(cands, running, force, gate)
             why(i) == Reason(cands, running, force, gate, i)
  <2> SUFFICES ASSUME InputOK PROVE GlobalExplains
    OBVIOUS
  <2>1. /\ gate \in GateCodes /\ gate \notin {"queue_empty", "running"}
        /\ Len(cands) \in Nat
    BY GateKnown DEF GateCodes, InputOK
  <2>2. held \subseteq 1 .. Len(cands) /\ held \subseteq Nat
    BY <2>1 DEF Held
  <2>3. held # {} => first \in held
    <3>1. held # {} => \E i \in held : \A j \in held : i <= j
      BY <2>2, LeastNatural
    <3> HIDE DEF held
    <3> QED
      BY <3>1
  <2>4. \A i \in held : why(i) \in {"workers_busy", gate}
    BY DEF Held, Reason
  <2>5. told = "queue_empty" => cands = <<>>
    BY <2>1, <2>3, <2>4 DEF Global
  <2>6. ASSUME Launches(cands, running, force, gate) = {}, held # {}
        PROVE  \E i \in held : told = why(i)
    <3>1. CASE Blocking(gate)
      <4>1. told = gate
        BY <3>1 DEF Global
      <4>2. \A i \in held : why(i) = gate
        BY <3>1 DEF Held, Reason, Contends
      <4> QED
        BY <2>6, <4>1, <4>2
    <3>2. CASE ~Blocking(gate)
      <4>1. cands # <<>>
        BY <2>2, <2>6
      <4>2. told = why(first)
        BY <2>6, <3>2, <4>1 DEF Global
      <4> QED
        BY <2>3, <2>6, <4>2
    <3> QED
      BY <3>1, <3>2
  <2>7. \/ Suspends(running, gate) = {}
        \/ Scheduled(cands, running, force, gate) = {}
    BY DEF Suspends, Scheduled, Contends, Blocking
  <2> QED
    BY <2>5, <2>6, <2>7 DEF GlobalExplains
<1> QED
  BY <1>1, InputsOK, PTL
-----------------------------------------------------------------------------
(* The loop.  What it has decided of the candidates it has seen does not   *)
(* depend on those to come, so that its invariant follows it from one to   *)
(* the next.                                                               *)

Candidates == [task : Names, resume : Nat, attempt : Nat]
Reasons == GateCodes \cup {"running", "attempt_cap", "workers_busy"}
Decisions == [action : {"wait", "fail", "launch"}, reason : Reasons, takes : {0, 1}]

\* Candidates that want a worker.
Wanting == {i \in 1 .. Len(cands) : Contends(cands[i], running, force, gate)}

LEMMA LaterChangesNothing ==
    ASSUME NEW s \in Seq(Candidates), NEW c \in Candidates, NEW run, NEW forced, NEW code,
           NEW i \in 1 .. Len(s)
    PROVE  LET t == Append(s, c)
           IN  /\ i \in Scheduled(t, run, forced, code)
                     <=> i \in Scheduled(s, run, forced, code)
               /\ i \in Launches(t, run, forced, code)
                     <=> i \in Launches(s, run, forced, code)
               /\ i \in Failures(t, run) <=> i \in Failures(s, run)
               /\ Reason(t, run, forced, code, i) = Reason(s, run, forced, code, i)
<1> DEFINE t == Append(s, c)
<1>1. /\ Len(t) = Len(s) + 1 /\ Len(s) \in Nat
      /\ \A j \in 1 .. Len(s) : t[j] = s[j]
  OBVIOUS
<1> HIDE DEF t
<1>2. Ahead(t, run, forced, code, i) = Ahead(s, run, forced, code, i)
  BY <1>1 DEF Ahead
<1>3. i \in Scheduled(t, run, forced, code) <=> i \in Scheduled(s, run, forced, code)
  BY <1>1, <1>2 DEF Scheduled
<1>4. i \in Launches(t, run, forced, code) <=> i \in Launches(s, run, forced, code)
  BY <1>1, <1>3 DEF Launches, ByHand
<1>5. i \in Failures(t, run) <=> i \in Failures(s, run)
  BY <1>1 DEF Failures
<1>6. Reason(t, run, forced, code, i) = Reason(s, run, forced, code, i)
  BY <1>1, <1>4, <1>5 DEF Reason
<1> QED
  BY <1>3, <1>4, <1>5, <1>6 DEF t

\* One more candidate finds a worker free just when those before it, counted as
\* the loop counts them, have left one.
LEMMA WorkerLeft ==
    ASSUME InputOK
    PROVE  /\ IsFiniteSet(Wanting) /\ IsFiniteSet(running)
           /\ IsFiniteSet(Scheduled(cands, running, force, gate))
           /\ Cardinality(Wanting) < Free(running)
                 <=> Cardinality(Scheduled(cands, running, force, gate)) < Free(running)
<1> DEFINE taken == Scheduled(cands, running, force, gate)
           ahead(k) == Ahead(cands, running, force, gate, k)
<1>1. /\ Len(cands) \in Nat /\ Workers \in Nat
      /\ IsFiniteSet(running) /\ Cardinality(running) \in Nat
  BY CheckAssumption, PolicyAssumption, FS_Subset, FS_CardinalityType DEF InputOK
<1>2. IsFiniteSet(Wanting) /\ taken \subseteq Wanting
  <2>1. Wanting \subseteq 1 .. Len(cands) /\ IsFiniteSet(1 .. Len(cands))
    BY <1>1, FS_Interval DEF Wanting
  <2> QED
    BY <2>1, FS_Subset DEF Wanting, Scheduled
<1>3. /\ IsFiniteSet(taken) /\ Cardinality(taken) <= Cardinality(Wanting)
      /\ Cardinality(taken) \in Nat /\ Cardinality(Wanting) \in Nat
  BY <1>2, FS_Subset, FS_CardinalityType
<1>4. ASSUME NEW k \in Wanting
      PROVE  /\ ahead(k) \subseteq Wanting
             /\ Cardinality(ahead(k)) \in Nat
             /\ Cardinality(ahead(k)) <= Cardinality(Wanting)
  <2>1. ahead(k) \subseteq Wanting
    BY <1>1 DEF Ahead, Wanting
  <2> QED
    BY <1>2, <2>1, FS_Subset, FS_CardinalityType
<1>5. ASSUME Cardinality(Wanting) < Free(running) PROVE Cardinality(taken) < Free(running)
  BY <1>1, <1>3, <1>5 DEF Free
<1>6. ASSUME Cardinality(taken) < Free(running) PROVE Cardinality(Wanting) < Free(running)
  <2> DEFINE wants == Wanting \ taken
  <2>1. CASE wants = {}
    <3>1. Wanting = taken
      BY <1>2, <2>1
    <3> QED
      BY <1>6, <3>1
  <2>2. CASE wants # {}
    <3>1. PICK m \in wants : \A k \in wants : m <= k
      <4>1. wants \subseteq Nat
        BY <1>1 DEF Wanting
      <4> QED
        BY <2>2, <4>1, LeastNatural
    <3>2. ahead(m) \subseteq taken
      <4> SUFFICES ASSUME NEW k \in ahead(m), k \notin taken PROVE FALSE
        OBVIOUS
      <4>1. k \in wants /\ k < m /\ k \in Nat /\ m \in Nat
        BY <1>1, <1>4, <3>1 DEF Ahead, Wanting
      <4> QED
        BY <3>1, <4>1
    <3>3. Cardinality(ahead(m)) <= Cardinality(taken)
      BY <1>3, <3>2, FS_Subset
    <3>4. Cardinality(ahead(m)) < Free(running)
      BY <1>1, <1>3, <1>4, <1>6, <3>1, <3>3 DEF Free
    <3>5. m \in taken
      BY <3>1, <3>4 DEF Scheduled, Wanting
    <3> QED
      BY <3>1, <3>5
  <2> QED
    BY <2>1, <2>2
<1> QED
  BY <1>1, <1>2, <1>3, <1>5, <1>6

\* The loop has decided of every candidate what the sets say of it, has as many
\* workers left as they leave, and holds the reason of the first that is held.
Decided(i) ==
    /\ plan.out[i].action = "launch" <=> i \in Launches(cands, running, force, gate)
    /\ plan.out[i].action = "fail" <=> i \in Failures(cands, running)
    /\ plan.out[i].reason = Reason(cands, running, force, gate, i)

FirstHeld(i) ==
    /\ i \in Held(cands, running, force, gate)
    /\ \A j \in Held(cands, running, force, gate) : i <= j

LoopInv ==
    /\ InputOK
    /\ plan \in [free : Int, firstBlocked : Reasons \cup {"none"}, out : Seq(Decisions)]
    /\ Len(plan.out) = Len(cands)
    /\ plan.free = Free(running) - Cardinality(Scheduled(cands, running, force, gate))
    /\ \A i \in 1 .. Len(cands) : Decided(i)
    /\ IF plan.firstBlocked = "none" THEN Held(cands, running, force, gate) = {}
       ELSE \E i \in 1 .. Len(cands) :
              FirstHeld(i) /\ plan.firstBlocked = Reason(cands, running, force, gate, i)

LEMMA LoopInvInit == CheckInit => LoopInv
<1> SUFFICES ASSUME CheckInit PROVE LoopInv
  OBVIOUS
<1> DEFINE none == <<>>
<1>1. Len(none) = 0 /\ none \in Seq(Candidates) /\ none \in Seq(Decisions)
  OBVIOUS
<1>2. cands = none /\ running \in SUBSET Names
  BY DEF CheckInit
<1>3. /\ plan.free = Workers - Cardinality(running)
      /\ plan.firstBlocked = "none" /\ plan.out = none
      /\ plan = [free |-> plan.free, firstBlocked |-> plan.firstBlocked, out |-> plan.out]
  BY DEF CheckInit
<1> HIDE DEF none
<1>4. Len(cands) = 0
  BY <1>1, <1>2
<1>5. 1 .. Len(cands) = {}
  BY <1>4
<1>6. /\ Scheduled(cands, running, force, gate) = {}
      /\ Held(cands, running, force, gate) = {}
  BY <1>5 DEF Scheduled, Held
<1>7. Cardinality(running) \in Nat /\ Workers \in Nat
  BY <1>2, CheckAssumption, PolicyAssumption, FS_Subset, FS_CardinalityType
<1>8. InputOK
  BY <1>1, <1>2 DEF InputOK, Candidates
<1>9. plan.free \in Int
  BY <1>3, <1>7
<1>10. plan \in [free : Int, firstBlocked : Reasons \cup {"none"}, out : Seq(Decisions)]
  BY <1>1, <1>3, <1>9
<1>11. Len(plan.out) = Len(cands)
  BY <1>2, <1>3
<1>12. plan.free = Free(running) - Cardinality(Scheduled(cands, running, force, gate))
  <2>1. Cardinality(Scheduled(cands, running, force, gate)) = 0
    BY <1>6, FS_EmptySet
  <2> QED
    BY <1>3, <1>7, <2>1 DEF Free
<1> QED
  BY <1>3, <1>5, <1>6, <1>8, <1>10, <1>11, <1>12 DEF LoopInv

LEMMA LoopInvNext ==
    ASSUME LoopInv, NEW c \in Candidates, Considers(c), UNCHANGED <<running, force, usage>>
    PROVE  LoopInv'
<1> DEFINE n == Len(cands) + 1
           d == Decision(c, plan.free)
           taken == Scheduled(cands, running, force, gate)
<1>1. /\ cands \in Seq(Candidates) /\ Len(cands) \in Nat
      /\ plan \in [free : Int, firstBlocked : Reasons \cup {"none"}, out : Seq(Decisions)]
      /\ Len(plan.out) = Len(cands) /\ running \subseteq Names
      /\ plan.free = Free(running) - Cardinality(taken)
  BY DEF LoopInv, InputOK, Candidates
<1>2. /\ cands' = Append(cands, c)
      /\ plan' = [free |-> plan.free - d.takes,
                  firstBlocked |-> IF d.action = "wait" /\ Blocking(d.reason)
                                      /\ plan.firstBlocked = "none"
                                   THEN d.reason ELSE plan.firstBlocked,
                  out |-> Append(plan.out, d)]
  BY DEF Considers
<1>3. running' = running /\ force' = force /\ gate' = gate
  BY DEF gate
<1>4. /\ cands' \in Seq(Candidates) /\ Len(cands') = n /\ cands'[n] = c
      /\ n \in 1 .. n /\ n \in Nat
      /\ \A i \in 1 .. Len(cands) : cands'[i] = cands[i] /\ i \in 1 .. n /\ i < n
      /\ \A i \in 1 .. n : i = n \/ i \in 1 .. Len(cands)
  BY <1>1, <1>2
<1>5. InputOK'
  BY <1>1, <1>3, <1>4 DEF InputOK, Candidates
<1>6. /\ IsFiniteSet(taken) /\ Cardinality(taken) \in Nat
      /\ Cardinality(running) \in Nat /\ Workers \in Nat
      /\ Cardinality(Wanting) < Free(running) <=> Cardinality(taken) < Free(running)
  BY WorkerLeft, PolicyAssumption, FS_CardinalityType DEF LoopInv
<1>7. plan.free > 0 <=> Cardinality(Wanting) < Free(running)
  BY <1>1, <1>6 DEF Free
<1>8. Ahead(cands', running, force, gate, n) = Wanting
  BY <1>1, <1>4 DEF Ahead, Wanting
<1>9. n \in Scheduled(cands', running, force, gate)
         <=> Contends(c, running, force, gate) /\ plan.free > 0
  BY <1>4, <1>7, <1>8 DEF Scheduled
<1>10. n \in Launches(cands', running, force, gate) <=>
          \/ Contends(c, running, force, gate) /\ plan.free > 0
          \/ c.task \in force \ running /\ ~Capped(c)
  BY <1>4, <1>9 DEF Launches, ByHand
<1>11. n \in Failures(cands', running) <=> Capped(c) /\ c.task \notin running
  BY <1>4 DEF Failures
<1>12. gate \in GateCodes
  BY GateKnown
<1>13. /\ d \in Decisions
       /\ d.action = "launch" <=> n \in Launches(cands', running, force, gate)
       /\ d.action = "fail" <=> n \in Failures(cands', running)
       /\ d.reason = Reason(cands', running, force, gate, n)
       /\ d.takes = IF n \in Scheduled(cands', running, force, gate) THEN 1 ELSE 0
       /\ d.action = "wait" /\ Blocking(d.reason) <=>
             d.reason \notin {"running", "attempt_cap", "ready"}
  <2>1. CASE c.task \in running
    <3>1. d = [action |-> "wait", reason |-> "running", takes |-> 0]
      BY <2>1 DEF Decision
    <3>2. Reason(cands', running, force, gate, n) = "running"
      BY <1>4, <1>10, <1>11, <2>1 DEF Reason, Contends
    <3> HIDE DEF d
    <3> QED
      BY <1>9, <1>10, <1>11, <2>1, <3>1, <3>2 DEF Contends, Blocking, Decisions, Reasons
  <2>2. CASE c.task \notin running /\ Capped(c)
    <3>1. d = [action |-> "fail", reason |-> "attempt_cap", takes |-> 0]
      BY <2>2 DEF Decision
    <3>2. Reason(cands', running, force, gate, n) = "attempt_cap"
      BY <1>4, <1>10, <1>11, <2>2 DEF Reason, Contends
    <3> HIDE DEF d
    <3> QED
      BY <1>9, <1>10, <1>11, <2>2, <3>1, <3>2 DEF Contends, Blocking, Decisions, Reasons
  <2>3. CASE c.task \in force \ running /\ ~Capped(c)
    <3>1. d = [action |-> "launch", reason |-> "ready", takes |-> 0]
      BY <2>3 DEF Decision
    <3>2. Reason(cands', running, force, gate, n) = "ready"
      BY <1>4, <1>10, <1>11, <2>3 DEF Reason, Contends
    <3> HIDE DEF d
    <3> QED
      BY <1>9, <1>10, <1>11, <2>3, <3>1, <3>2
         DEF Contends, Blocking, Decisions, Reasons, GateCodes
  <2>4. CASE c.task \notin running \cup force /\ ~Capped(c) /\ Blocking(gate)
    <3>1. d = [action |-> "wait", reason |-> gate, takes |-> 0]
      BY <2>4 DEF Decision
    <3>2. Reason(cands', running, force, gate, n) = gate
      BY <1>4, <1>10, <1>11, <2>4 DEF Reason, Contends
    <3> HIDE DEF d
    <3> QED
      BY <1>9, <1>10, <1>11, <1>12, <2>4, <3>1, <3>2
         DEF Contends, Blocking, Decisions, Reasons, GateCodes
  <2>5. CASE Contends(c, running, force, gate) /\ ~(plan.free > 0)
    <3>0. plan.free <= 0
      BY <1>1, <2>5
    <3>1. d = [action |-> "wait", reason |-> "workers_busy", takes |-> 0]
      BY <2>5, <3>0 DEF Decision, Contends
    <3>2. Reason(cands', running, force, gate, n) = "workers_busy"
      BY <1>4, <1>10, <1>11, <2>5 DEF Reason, Contends
    <3> HIDE DEF d
    <3> QED
      BY <1>9, <1>10, <1>11, <2>5, <3>1, <3>2 DEF Contends, Blocking, Decisions, Reasons
  <2>6. CASE Contends(c, running, force, gate) /\ plan.free > 0
    <3>0. ~(plan.free <= 0)
      BY <1>1, <2>6
    <3>1. d = [action |-> "launch", reason |-> "ready", takes |-> 1]
      BY <2>6, <3>0 DEF Decision, Contends
    <3>2. Reason(cands', running, force, gate, n) = "ready"
      BY <1>4, <1>10, <1>11, <2>6 DEF Reason, Contends
    <3> HIDE DEF d
    <3> QED
      BY <1>9, <1>10, <1>11, <2>6, <3>1, <3>2
         DEF Contends, Blocking, Decisions, Reasons, GateCodes
  <2> QED
    BY <2>1, <2>2, <2>3, <2>4, <2>5, <2>6 DEF Contends
<1> HIDE DEF d
<1>14. /\ plan' \in [free : Int, firstBlocked : Reasons \cup {"none"}, out : Seq(Decisions)]
       /\ plan'.free = plan.free - d.takes /\ plan'.out = Append(plan.out, d)
       /\ plan'.firstBlocked = IF d.action = "wait" /\ Blocking(d.reason)
                                  /\ plan.firstBlocked = "none"
                               THEN d.reason ELSE plan.firstBlocked
  BY <1>1, <1>2, <1>13 DEF Decisions
<1>15. /\ Len(plan'.out) = n /\ plan'.out[n] = d
       /\ \A i \in 1 .. Len(cands) : plan'.out[i] = plan.out[i]
  BY <1>1, <1>13, <1>14
<1>16. \A i \in 1 .. Len(cands) :
         /\ i \in Scheduled(cands', running, force, gate) <=> i \in taken
         /\ i \in Launches(cands', running, force, gate)
               <=> i \in Launches(cands, running, force, gate)
         /\ i \in Failures(cands', running) <=> i \in Failures(cands, running)
         /\ Reason(cands', running, force, gate, i) = Reason(cands, running, force, gate, i)
  BY <1>1, <1>2, LaterChangesNothing
<1>17. \A i \in 1 .. Len(cands') : Decided(i)'
  <2> SUFFICES ASSUME NEW i \in 1 .. n PROVE Decided(i)'
    BY <1>4
  <2>1. CASE i = n
    BY <1>3, <1>13, <1>15, <2>1 DEF Decided
  <2>2. CASE i \in 1 .. Len(cands)
    BY <1>3, <1>15, <1>16, <2>2 DEF Decided, LoopInv
  <2> QED
    BY <1>4, <2>1, <2>2
<1>18. plan'.free = Free(running) - Cardinality(Scheduled(cands', running, force, gate))
  <2> DEFINE now == Scheduled(cands', running, force, gate)
  <2>1. now \subseteq 1 .. n /\ taken \subseteq 1 .. Len(cands) /\ n \notin taken
    BY <1>1, <1>4 DEF Scheduled
  <2>2. CASE n \in now
    <3>1. now = taken \cup {n}
      BY <1>4, <1>16, <2>1, <2>2
    <3>2. Cardinality(now) = Cardinality(taken) + 1
      BY <1>6, <2>1, <3>1, FS_AddElement
    <3> HIDE DEF now
    <3> QED
      BY <1>1, <1>6, <1>13, <1>14, <2>2, <3>2 DEF Free, now
  <2>3. CASE n \notin now
    <3>1. now = taken
      BY <1>4, <1>16, <2>1, <2>3
    <3> QED
      BY <1>1, <1>6, <1>13, <1>14, <2>3, <3>1 DEF Free
  <2> QED
    BY <2>2, <2>3
<1>19. /\ \A i \in 1 .. Len(cands) : i \in Held(cands', running, force, gate)
                                         <=> i \in Held(cands, running, force, gate)
       /\ n \in Held(cands', running, force, gate)
             <=> d.action = "wait" /\ Blocking(d.reason)
       /\ Held(cands', running, force, gate) \subseteq 1 .. n
       /\ Held(cands, running, force, gate) \subseteq 1 .. Len(cands)
  BY <1>4, <1>13, <1>16 DEF Held
<1>20. IF plan'.firstBlocked = "none" THEN Held(cands', running, force, gate) = {}
       ELSE \E i \in 1 .. n :
              /\ i \in Held(cands', running, force, gate)
              /\ \A j \in Held(cands', running, force, gate) : i <= j
              /\ plan'.firstBlocked = Reason(cands', running, force, gate, i)
  <2>0. d.reason # "none"
    BY <1>13 DEF Decisions, Reasons, GateCodes
  <2>1. CASE plan.firstBlocked = "none"
    <3>1. Held(cands, running, force, gate) = {}
      BY <2>1 DEF LoopInv
    <3>2. Held(cands', running, force, gate) \subseteq {n}
      BY <1>4, <1>19, <3>1
    <3> QED
      BY <1>4, <1>13, <1>14, <1>19, <2>0, <2>1, <3>2
  <2>2. CASE plan.firstBlocked # "none"
    <3>1. PICK i \in 1 .. Len(cands) :
             FirstHeld(i) /\ plan.firstBlocked = Reason(cands, running, force, gate, i)
      BY <2>2 DEF LoopInv
    <3>2. \A j \in Held(cands', running, force, gate) : i <= j
      BY <1>4, <1>19, <3>1 DEF FirstHeld
    <3> QED
      BY <1>4, <1>14, <1>16, <1>19, <2>2, <3>1, <3>2 DEF FirstHeld
  <2> QED
    BY <2>1, <2>2
<1> QED
  BY <1>3, <1>4, <1>5, <1>14, <1>15, <1>17, <1>18, <1>20 DEF LoopInv, FirstHeld

LEMMA LoopInvHolds == CheckSpec => []LoopInv
<1>1. LoopInv /\ [CheckNext]_checkVars => LoopInv'
  <2> SUFFICES ASSUME LoopInv, [CheckNext]_checkVars PROVE LoopInv'
    OBVIOUS
  <2>1. CASE QueueFresh
    <3>1. PICK n \in Names : Considers([task |-> n, resume |-> 0, attempt |-> 0])
      BY <2>1 DEF QueueFresh
    <3>2. [task |-> n, resume |-> 0, attempt |-> 0] \in Candidates
      BY DEF Candidates
    <3>3. UNCHANGED <<running, force, usage>>
      BY <2>1 DEF QueueFresh
    <3> QED
      BY <3>1, <3>2, <3>3, LoopInvNext
  <2>2. CASE QueueResumable
    <3>1. PICK n \in Names, k \in Tries :
              Considers([task |-> n, resume |-> 1, attempt |-> k])
      BY <2>2 DEF QueueResumable
    <3>2. [task |-> n, resume |-> 1, attempt |-> k] \in Candidates
      BY CheckAssumption DEF Candidates
    <3>3. UNCHANGED <<running, force, usage>>
      BY <2>2 DEF QueueResumable
    <3> QED
      BY <3>1, <3>2, <3>3, LoopInvNext
  <2>3. CASE UNCHANGED checkVars
    BY <2>3 DEF checkVars, LoopInv, InputOK, Decided, FirstHeld, gate
  <2> QED
    BY <2>1, <2>2, <2>3 DEF CheckNext
<1> QED
  BY <1>1, LoopInvInit, PTL DEF CheckSpec

\* However many candidates, in whatever order, the loop of Decide launches,
\* fails and explains exactly what the sets say that the scheduler acts on, and
\* tells of the whole queue what the first candidate that is held up says.
THEOREM DecideIsPolicy == CheckSpec => []LoopAgrees
<1>1. LoopInv => LoopAgrees
  <2> SUFFICES ASSUME LoopInv PROVE LoopAgrees
    OBVIOUS
  <2> DEFINE held == Held(cands, running, force, gate)
             launches == Launches(cands, running, force, gate)
             first == CHOOSE i \in held : \A j \in held : i <= j
  <2>1. \A i \in 1 .. Len(cands) : Decided(i)
    BY DEF LoopInv
  <2>2. Len(plan.out) = Len(cands) /\ Len(cands) \in Nat /\ launches \subseteq 1 .. Len(cands)
    BY DEF LoopInv, InputOK, Launches, Scheduled, ByHand
  <2>3. (\E i \in 1 .. Len(plan.out) : plan.out[i].action = "launch") <=> launches # {}
    BY <2>1, <2>2 DEF Decided
  <2>4. ASSUME plan.firstBlocked # "none"
        PROVE  held # {} /\ plan.firstBlocked = Reason(cands, running, force, gate, first)
    <3>1. PICK i \in 1 .. Len(cands) :
             FirstHeld(i) /\ plan.firstBlocked = Reason(cands, running, force, gate, i)
      BY <2>4 DEF LoopInv
    <3>2. held \subseteq 1 .. Len(cands)
      BY DEF Held
    <3>3. i \in held /\ \A j \in held : i <= j
      BY <3>1 DEF FirstHeld
    <3> HIDE DEF held
    <3>4. first \in held /\ \A j \in held : first <= j
      BY <3>3
    <3> HIDE DEF first
    <3>5. first = i
      BY <2>2, <3>2, <3>3, <3>4
    <3> QED
      BY <3>1, <3>3, <3>5
  <2>5. plan.firstBlocked = "none" => held = {}
    BY DEF LoopInv
  <2>6. LoopGlobal = Global(cands, running, force, gate)
    <3>1. CASE Blocking(gate) \/ launches # {}
      <4>1. LoopGlobal = gate
        BY <2>3, <3>1 DEF LoopGlobal
      <4>2. cands = <<>> => launches = {}
        <5>1. Len(<<>>) = 0
          OBVIOUS
        <5> QED
          BY <2>2, <5>1
      <4>3. Global(cands, running, force, gate) = gate
        BY <3>1, <4>2 DEF Global
      <4> QED
        BY <4>1, <4>3
    <3>2. CASE ~Blocking(gate) /\ launches = {} /\ cands = <<>>
      BY <2>3, <3>2 DEF LoopGlobal, Global
    <3>3. CASE ~Blocking(gate) /\ launches = {} /\ cands # <<>>
      <4>1. Global(cands, running, force, gate) =
              IF held = {} THEN gate ELSE Reason(cands, running, force, gate, first)
        BY <3>3 DEF Global
      <4>2. LoopGlobal = IF plan.firstBlocked = "none" THEN gate ELSE plan.firstBlocked
        BY <2>3, <3>3 DEF LoopGlobal
      <4> QED
        BY <2>4, <2>5, <4>1, <4>2
    <3> QED
      BY <3>1, <3>2, <3>3
  <2> QED
    BY <2>1, <2>6 DEF LoopAgrees, Decided
<1> QED
  BY <1>1, LoopInvHolds, PTL

=============================================================================
