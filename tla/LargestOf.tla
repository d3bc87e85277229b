------------------------------- MODULE LargestOf --------------------------------
(* The largest of a set of numbers, for proofs about the counters of catalogs. *)
EXTENDS FiniteSetsExt, FiniteSetTheorems, TLAPS

\* A set of numbers from -1 to some bound has a largest one: the smallest of the
\* intervals from its elements to the bound begins there.
LEMMA MaxOfBounded ==
    ASSUME NEW N \in Nat, NEW S \in SUBSET (-1 .. N), S # {}
    PROVE  Max(S) \in S /\ \A y \in S : y <= Max(S)
<1> DEFINE above(x) == x + 1 .. N
<1> DEFINE T == {above(x) : x \in S}
<1>1. IsFiniteSet(0 .. N)
    BY FS_Interval
<1>2. IsWellFoundedOn(StrictSubsetOrdering(0 .. N), SUBSET (0 .. N))
    BY <1>1, FS_StrictSubsetOrderingWellFounded, FS_FiniteSubsetsOfFinite
<1>3. T \subseteq SUBSET (0 .. N) /\ T # {}
    <2>1. \A x \in S : above(x) \in SUBSET (0 .. N)
        OBVIOUS
    <2> HIDE DEF above
    <2> QED
        BY <2>1
<1>4. PICK A \in T : \A B \in T : <<B, A>> \notin StrictSubsetOrdering(0 .. N)
    <2> HIDE DEF T
    <2> QED
        BY <1>2, <1>3, WFMin
<1>5. PICK x \in S : A = above(x)
    OBVIOUS
<1>6. \A y \in S : y <= x
    <2> SUFFICES ASSUME NEW y \in S, x < y
                 PROVE  FALSE
        OBVIOUS
    <2>1. above(y) \in T /\ above(y) \in SUBSET (0 .. N) /\ above(x) \in SUBSET (0 .. N)
        OBVIOUS
    <2>2. above(y) \subseteq above(x)
        OBVIOUS
    <2>3. x + 1 \in above(x) /\ x + 1 \notin above(y)
        OBVIOUS
    <2>4. <<above(y), above(x)>> \in StrictSubsetOrdering(0 .. N)
        <3> HIDE DEF above
        <3> QED
            BY <2>1, <2>2, <2>3 DEF StrictSubsetOrdering
    <2> QED
        BY <1>4, <1>5, <2>1, <2>4
<1> QED
    BY <1>6 DEF Max

================================================================================
