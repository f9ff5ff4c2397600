---------------------------- MODULE PolicyProofs ----------------------------
(***************************************************************************)
(* Facts about the scheduling decision that hold for every list of         *)
(* candidates, and about the largest element of a set of naturals, which   *)
(* the store's queries return.                                             *)
(***************************************************************************)
EXTENDS Policy, FiniteSetTheorems, WellFoundedInduction, TLAPS

\* A non-empty set of naturals has a least element.
LEMMA LeastNatural ==
    ASSUME NEW S, S \subseteq Nat, S # {}
    PROVE  \E x \in S : \A y \in S : x <= y
<1>1. \E x \in S : \A y \in S : ~ (<<y, x>> \in OpToRel(<, Nat))
  BY NatLessThanWellFounded, WFMin
<1>2. PICK x \in S : \A y \in S : ~ (<<y, x>> \in OpToRel(<, Nat))
  BY <1>1
<1>3. ASSUME NEW y \in S PROVE x <= y
  <2>1. ~ (<<y, x>> \in {ss \in Nat \X Nat : ss[1] < ss[2]})
    BY <1>2 DEF OpToRel
  <2>2. x \in Nat /\ y \in Nat
    BY <1>2
  <2> QED
    BY <2>1, <2>2
<1> QED
  BY <1>2, <1>3

\* A non-empty, bounded set of naturals has a largest element.
LEMMA LargestNatural ==
    ASSUME NEW n \in Nat, NEW S, S \subseteq 0 .. n, S # {}
    PROVE  \E x \in S : \A y \in S : y <= x
<1> DEFINE Gaps == {n - x : x \in S}
<1>1. Gaps \subseteq Nat /\ Gaps # {}
  <2>1. \A x \in S : n - x \in Nat
    OBVIOUS
  <2>2. Gaps \subseteq Nat
    BY <2>1
  <2>3. PICK x \in S : TRUE
    OBVIOUS
  <2>4. n - x \in Gaps
    BY <2>3
  <2> QED
    BY <2>2, <2>4
<1>2. PICK g \in Gaps : \A h \in Gaps : g <= h
  BY <1>1, LeastNatural
<1>3. PICK x \in S : g = n - x
  BY <1>2
<1>4. \A y \in S : n - x <= n - y
  BY <1>2, <1>3
<1> QED
  BY <1>3, <1>4

-----------------------------------------------------------------------------
\* Decide never plans more scheduled launches than there are free workers: the
\* last of them found all the others ahead of it and still a worker free.  If
\* launches by hand have filled the budget or more, it plans none.
THEOREM ScheduledWithinFree ==
    ASSUME NEW cands, Len(cands) \in Nat, NEW running, IsFiniteSet(running),
           NEW force, NEW gate
    PROVE  LET taken == Scheduled(cands, running, force, gate)
           IN  /\ IsFiniteSet(taken)
               /\ taken = {} \/ Cardinality(taken) <= Workers - Cardinality(running)
<1> DEFINE taken == Scheduled(cands, running, force, gate)
<1>1. /\ IsFiniteSet(1 .. Len(cands))
      /\ taken \subseteq 1 .. Len(cands)
      /\ taken \subseteq 0 .. Len(cands)
  BY FS_Interval DEF Scheduled
<1>2. IsFiniteSet(taken)
  BY <1>1, FS_Subset
<1>3. ASSUME taken # {} PROVE Cardinality(taken) <= Workers - Cardinality(running)
  <2>1. PICK m \in taken : \A j \in taken : j <= m
    BY <1>1, <1>3, LargestNatural
  <2> DEFINE ahead == Ahead(cands, running, force, gate, m)
  <2>2. m \in 1 .. Len(cands) /\ Cardinality(ahead) < Workers - Cardinality(running)
    BY <2>1 DEF Scheduled, Free
  <2>3. taken \ {m} \subseteq ahead
    BY <1>1, <2>1, <2>2 DEF Scheduled, Ahead
  <2>4. IsFiniteSet(ahead)
    <3>1. ahead \subseteq 1 .. Len(cands)
      BY <2>2 DEF Ahead
    <3> QED
      BY <3>1, <1>1, FS_Subset
  <2>5. Cardinality(taken \ {m}) <= Cardinality(ahead)
    BY <2>3, <2>4, FS_Subset
  <2>6. Cardinality(taken \ {m}) = Cardinality(taken) - 1
    BY <1>2, <2>1, FS_RemoveElement
  <2>7. /\ Cardinality(taken) \in Nat
        /\ Cardinality(ahead) \in Nat
        /\ Cardinality(running) \in Nat
        /\ Workers \in Nat
    BY <1>2, <2>4, FS_CardinalityType, PolicyAssumption
  <2> QED
    BY <2>2, <2>5, <2>6, <2>7
<1> QED
  BY <1>2, <1>3
=============================================================================
