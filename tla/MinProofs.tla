------------------------------ MODULE MinProofs -------------------------------
(***************************************************************************)
(* Min of FiniteSetsExt, which the specifications use for the first index  *)
(* a loop of the code stops at.                                            *)
(***************************************************************************)
EXTENDS Integers, FiniteSetsExt, FiniteSetTheorems, TLAPS

\* A nonempty finite set of integers has a least element, and Min is it.
LEMMA MinFacts ==
    ASSUME NEW S \in SUBSET Int, IsFiniteSet(S), S # {}
    PROVE  Min(S) \in S /\ \A y \in S : Min(S) <= y
<1> DEFINE Upto(x) == {y \in S : y <= x}
           F == {Upto(x) : x \in S}
<1>1. IsWellFoundedOn(StrictSubsetOrdering(S), FiniteSubsetsOf(S))
  BY FS_StrictSubsetOrderingWellFounded
<1>2. F \subseteq FiniteSubsetsOf(S)
  <2>1. \A x \in S : Upto(x) \in SUBSET S
    OBVIOUS
  <2>2. \A x \in S : IsFiniteSet(Upto(x))
    BY <2>1, FS_Subset
  <2> QED BY <2>1, <2>2 DEF FiniteSubsetsOf
<1>3. F # {}
  OBVIOUS
<1>4. PICK U \in F : \A V \in F : ~ (<<V, U>> \in StrictSubsetOrdering(S))
  <2> HIDE DEF F
  <2> QED BY <1>1, <1>2, <1>3, WFMin
<1>5. PICK x \in S : U = Upto(x)
  OBVIOUS
<1>6. ASSUME NEW y \in S, y < x PROVE FALSE
  <2>1. Upto(y) \in F
    OBVIOUS
  <2>2. x \in Int /\ y \in Int /\ \A z \in S : z \in Int
    OBVIOUS
  <2>3. x \in Upto(x) /\ x \notin Upto(y)
    BY <2>2, <1>6
  <2>4. ASSUME NEW z \in Upto(y) PROVE z \in Upto(x)
    BY <2>2, <1>6
  <2>5. <<Upto(y), Upto(x)>> \in StrictSubsetOrdering(S)
    BY <2>3, <2>4 DEF StrictSubsetOrdering
  <2> QED BY <2>1, <2>5, <1>4, <1>5
<1>7. \A y \in S : x <= y
  BY <1>6
<1> QED BY <1>7 DEF Min
===============================================================================
