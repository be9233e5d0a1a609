---------------------------- MODULE CeilingProofs ----------------------------
(***************************************************************************)
(* Proofs about Ceiling, for any set of keys, any finite set of holders    *)
(* and any limit.  CountsExact is inductive together with TypeOK, and it   *)
(* is what makes WithinLimit so: the limit is tested against the count,    *)
(* never against the holders.                                              *)
(***************************************************************************)
EXTENDS Ceiling, FiniteSetTheorems, TLAPS

CeilingInv == TypeOK /\ CountsExact /\ WithinLimit

\* The holders of a key are finitely many.
LEMMA HoldingFinite ==
    ASSUME NEW k
    PROVE  IsFiniteSet(Holding(k)) /\ Cardinality(Holding(k)) \in Nat
<1>1. Holding(k) \subseteq Holders
  BY DEF Holding
<1>2. IsFiniteSet(Holding(k))
  BY <1>1, CeilingAssumption, FS_Subset DEF CeilingAssumption
<1> QED
  BY <1>2, FS_CardinalityType

\* The new ceiling counts nobody.
LEMMA InitInv == NewCeiling => CeilingInv
<1> SUFFICES ASSUME NewCeiling PROVE CeilingInv
  OBVIOUS
<1>1. TypeOK
  BY DEF NewCeiling, TypeOK
<1>2. \A k \in Keys : Holding(k) = {}
  BY CeilingAssumption DEF NewCeiling, Holding, CeilingAssumption
<1>3. \A k \in Keys : InFlight(k) = 0
  BY DEF NewCeiling, InFlight
<1>4. CountsExact
  BY <1>2, <1>3, FS_EmptySet DEF CountsExact, NewCeiling
<1>5. WithinLimit
  BY <1>2, FS_EmptySet, CeilingAssumption DEF WithinLimit, CeilingAssumption
<1> QED
  BY <1>1, <1>4, <1>5 DEF CeilingInv

\* A step that leaves every key's holders and the counts alone keeps the invariant.
LEMMA SameHolders ==
    ASSUME CeilingInv, TypeOK', counts' = counts,
           \A k \in Keys : Holding(k)' = Holding(k)
    PROVE  CeilingInv'
<1>1. \A k \in Keys : InFlight(k)' = InFlight(k)
  BY DEF InFlight
<1>2. CountsExact'
  BY <1>1 DEF CeilingInv, CountsExact
<1>3. WithinLimit'
  BY DEF CeilingInv, WithinLimit
<1> QED
  BY <1>2, <1>3 DEF CeilingInv

\* An admitted request adds itself to its key's holders and one to its key's count.
LEMMA AcquireKeeps ==
    ASSUME CeilingInv, NEW h \in Holders, NEW k \in Keys, Acquire(h, k)
    PROVE  CeilingInv'
<1> USE CeilingAssumption DEF CeilingAssumption
<1>1. CASE Limit <= 0
  <2>1. counts' = counts /\ slot' = [slot EXCEPT ![h] = NoOp]
    BY <1>1 DEF Acquire
  <2>2. TypeOK'
    BY <2>1 DEF CeilingInv, TypeOK
  <2>3. \A x \in Keys : Holding(x)' = Holding(x)
    BY <2>1 DEF Holding, Acquire, CeilingInv, TypeOK
  <2> QED
    BY <2>1, <2>2, <2>3, SameHolders
<1>2. CASE Limit > 0
  <2>1. /\ slot' = [slot EXCEPT ![h] = k]
        /\ counts' = [x \in DOMAIN counts \cup {k} |->
                        IF x = k THEN InFlight(k) + 1 ELSE counts[x]]
        /\ slot[h] = Free
    <3>1. ~(Limit <= 0)
      BY <1>2
    <3> QED
      BY <3>1, Zenon DEF Acquire
  <2>2. InFlight(k) \in Nat
    BY DEF CeilingInv, TypeOK, InFlight
  <2>3. TypeOK'
    BY <2>1, <2>2 DEF CeilingInv, TypeOK
  <2>4. Holding(k)' = Holding(k) \cup {h} /\ h \notin Holding(k)
    BY <2>1 DEF Holding, CeilingInv, TypeOK
  <2>5. \A x \in Keys \ {k} : Holding(x)' = Holding(x)
    BY <2>1 DEF Holding, CeilingInv, TypeOK
  <2>6. Cardinality(Holding(k)') = Cardinality(Holding(k)) + 1
    BY <2>4, HoldingFinite, FS_AddElement
  <2>7. InFlight(k)' = InFlight(k) + 1
    BY <2>1 DEF InFlight
  <2>8. \A x \in Keys \ {k} : InFlight(x)' = InFlight(x)
    BY <2>1 DEF InFlight
  <2>9. CountsExact'
    <3>1. \A x \in Keys : InFlight(x)' = Cardinality(Holding(x)')
      BY <2>5, <2>6, <2>7, <2>8 DEF CeilingInv, CountsExact
    <3>2. \A x \in DOMAIN counts' : counts'[x] > 0
      BY <2>1, <2>2 DEF CeilingInv, CountsExact, TypeOK
    <3> QED
      BY <3>1, <3>2 DEF CountsExact
  <2>10. WithinLimit'
    <3>1. Cardinality(Holding(k)) < Limit
      BY <1>2, <2>2 DEF Acquire, AtLimit, CeilingInv, CountsExact
    <3>2. Cardinality(Holding(k)') <= Limit
      BY <2>6, <3>1, HoldingFinite
    <3> QED
      BY <2>5, <3>2 DEF WithinLimit, CeilingInv
  <2> QED
    BY <2>3, <2>9, <2>10 DEF CeilingInv
<1> QED
  BY <1>1, <1>2

\* A release that runs takes its holder and one from the count, and drops a zero count.
LEMMA ReleaseKeeps ==
    ASSUME CeilingInv, NEW h \in Holders, Release(h)
    PROVE  CeilingInv'
<1> USE CeilingAssumption DEF CeilingAssumption
<1>1. CASE slot[h] \in {NoOp, Released}
  <2>1. UNCHANGED vars
    BY <1>1 DEF Release
  <2>2. TypeOK' /\ \A x \in Keys : Holding(x)' = Holding(x)
    BY <2>1 DEF vars, CeilingInv, TypeOK, Holding
  <2> QED
    BY <2>1, <2>2, SameHolders DEF vars
<1>2. CASE slot[h] \in Keys
  <2> PICK k \in Keys : k = slot[h]
    BY <1>2
  <2>1. slot' = [slot EXCEPT ![h] = Released] /\ counts' = Decrement(k)
    BY <1>2 DEF Release
  <2>2. Holding(k)' = Holding(k) \ {h} /\ h \in Holding(k)
    BY <1>2, <2>1 DEF Holding, CeilingInv, TypeOK
  <2>3. \A x \in Keys \ {k} : Holding(x)' = Holding(x)
    BY <1>2, <2>1 DEF Holding, CeilingInv, TypeOK
  <2>4. Cardinality(Holding(k)') = Cardinality(Holding(k)) - 1
    BY ZenonT(30), <2>2, HoldingFinite, FS_RemoveElement
  <2>5. Cardinality(Holding(k)) > 0
    BY <2>2, HoldingFinite, FS_EmptySet
  <2>6. k \in DOMAIN counts /\ counts[k] = Cardinality(Holding(k)) /\ counts[k] \in Nat
    BY <1>2, <2>5 DEF CeilingInv, CountsExact, InFlight, TypeOK
  <2>7. /\ counts[k] = 1 => counts' = [x \in DOMAIN counts \ {k} |-> counts[x]]
        /\ counts[k] > 1 => counts' = [counts EXCEPT ![k] = @ - 1]
    BY <2>1, <2>6 DEF Decrement
  <2>8. counts[k] = 1 \/ counts[k] > 1
    BY <2>5, <2>6
  <2>9. TypeOK'
    BY <1>2, <2>1, <2>6, <2>7, <2>8 DEF CeilingInv, TypeOK
  <2>10. InFlight(k)' = counts[k] - 1
    BY <2>6, <2>7, <2>8 DEF InFlight
  <2>11. \A x \in Keys \ {k} : InFlight(x)' = InFlight(x)
    BY <2>7, <2>8 DEF InFlight
  <2>12. CountsExact'
    <3>1. \A x \in Keys : InFlight(x)' = Cardinality(Holding(x)')
      BY <2>3, <2>4, <2>6, <2>10, <2>11 DEF CeilingInv, CountsExact
    <3>2. \A x \in DOMAIN counts' : counts'[x] > 0
      BY <2>6, <2>7, <2>8 DEF CeilingInv, CountsExact
    <3> QED
      BY <3>1, <3>2 DEF CountsExact
  <2>13. WithinLimit'
    <3>1. Limit > 0 => Cardinality(Holding(k)') <= Limit
      BY <1>2, <2>4, HoldingFinite DEF WithinLimit, CeilingInv
    <3> QED
      BY <2>3, <3>1 DEF WithinLimit, CeilingInv
  <2> QED
    BY <2>9, <2>12, <2>13 DEF CeilingInv
<1> QED
  BY <1>1, <1>2 DEF Release

\* CeilingInv is inductive.
LEMMA NextKeeps == CeilingInv /\ [Next]_vars => CeilingInv'
<1> SUFFICES ASSUME CeilingInv, [Next]_vars PROVE CeilingInv'
  OBVIOUS
<1>1. ASSUME NEW h \in Holders, NEW k \in Keys, Acquire(h, k) PROVE CeilingInv'
  BY <1>1, AcquireKeeps
<1>2. ASSUME UNCHANGED vars PROVE CeilingInv'
  <2>1. TypeOK' /\ \A x \in Keys : Holding(x)' = Holding(x)
    BY <1>2 DEF vars, CeilingInv, TypeOK, Holding
  <2> QED
    BY <1>2, <2>1, SameHolders DEF vars
<1>3. ASSUME NEW h \in Holders, Release(h) PROVE CeilingInv'
  BY <1>3, ReleaseKeeps
<1>4. ASSUME NEW h \in Holders, Forget(h) PROVE CeilingInv'
  <2>1. TypeOK' /\ counts' = counts
    BY <1>4 DEF Forget, CeilingInv, TypeOK
  <2>2. \A x \in Keys : Holding(x)' = Holding(x)
    BY <1>4, CeilingAssumption DEF Forget, Holding, CeilingInv, TypeOK, CeilingAssumption
  <2> QED
    BY <2>1, <2>2, SameHolders
<1> QED
  BY <1>1, <1>2, <1>3, <1>4 DEF Next, Refuse

\* Once no holder has a slot left, the map is empty.
LEMMA NobodyHolds ==
    ASSUME CeilingInv, \A h \in Holders : slot[h] \notin Keys
    PROVE  DOMAIN counts = {}
<1> SUFFICES ASSUME NEW k \in DOMAIN counts PROVE FALSE
  OBVIOUS
<1>1. k \in Keys /\ counts[k] > 0 /\ counts[k] = Cardinality(Holding(k))
  BY DEF CeilingInv, TypeOK, CountsExact, InFlight
<1>2. Holding(k) = {}
  BY <1>1 DEF Holding
<1> QED
  BY <1>1, <1>2, FS_EmptySet

\* Type correctness: the map holds natural numbers for keys, and every slot is one a
\* release closure can have.
THEOREM TypeCorrect == Spec => []TypeOK
<1>1. CeilingInv => TypeOK
  BY DEF CeilingInv
<1> QED
  BY <1>1, InitInv, NextKeeps, PTL DEF Spec

\* Each count is the number of requests in flight for its key, and no entry of the map
\* outlives its requests (Ceiling.Acquire and its release closure).
THEOREM CountsExactHolds == Spec => []CountsExact
<1>1. CeilingInv => CountsExact
  BY DEF CeilingInv
<1> QED
  BY <1>1, InitInv, NextKeeps, PTL DEF Spec

\* No caller exceeds the ceiling, however its requests and releases interleave.
THEOREM WithinLimitHolds == Spec => []WithinLimit
<1>1. CeilingInv => WithinLimit
  BY DEF CeilingInv
<1> QED
  BY <1>1, InitInv, NextKeeps, PTL DEF Spec
===============================================================================
