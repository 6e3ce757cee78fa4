---------------------------- MODULE BoundedSets -----------------------------
(* Least and greatest elements of bounded sets of naturals, for the proofs  *)
(* about searches: a task table's first slot, the block an address is in.   *)
EXTENDS Integers, FiniteSets, FiniteSetTheorems, WellFoundedInduction, TLAPS

(* A non-empty bounded set of naturals has a least element; from the well-  *)
(* foundedness of the strict subset ordering on the segments 0 .. n.        *)
LEMMA LeastElement ==
  ASSUME NEW N \in Nat, NEW S, S \subseteq 0 .. N, S # {}
  PROVE  \E x \in S : \A y \in S : x <= y
<1> DEFINE U == 0 .. N
           F == {0 .. n : n \in S}
           R == StrictSubsetOrdering(U)
<1>1. IsFiniteSet(U)
  BY FS_Interval
<1>2. IsWellFoundedOn(R, FiniteSubsetsOf(U))
  BY FS_StrictSubsetOrderingWellFounded
<1>3. FiniteSubsetsOf(U) = SUBSET U
  BY <1>1, FS_FiniteSubsetsOfFinite
<1>4. F \subseteq SUBSET U /\ F # {}
  <2>1. ASSUME NEW n \in S PROVE 0 .. n \subseteq U
    BY n \in 0 .. N
  <2> QED BY <2>1
<1>5. PICK A \in F : \A B \in F : ~(<<B, A>> \in R)
  <2> HIDE DEF F, R, U
  <2> QED BY <1>2, <1>3, <1>4, WFMin
<1>6. PICK x \in S : A = 0 .. x
  OBVIOUS
<1>7. ASSUME NEW y \in S, y < x PROVE FALSE
  <2>1. 0 .. y \in F
    OBVIOUS
  <2>2. 0 .. y \subseteq 0 .. x /\ 0 .. y # 0 .. x
    <3>1. x \in 0 .. x /\ x \notin 0 .. y
      BY <1>7
    <3> QED BY <3>1, <1>7
  <2>3. <<0 .. y, 0 .. x>> \in R
    BY <2>2, <1>4, <2>1, <1>6 DEF StrictSubsetOrdering
  <2> QED BY <2>1, <2>3, <1>5, <1>6
<1> QED BY <1>7

LEMMA GreatestElement ==
  ASSUME NEW N \in Nat, NEW S, S \subseteq 0 .. N, S # {}
  PROVE  \E x \in S : \A y \in S : y <= x
<1> DEFINE T == {N - x : x \in S}
<1>1. T \subseteq 0 .. N /\ T # {}
  <2>1. ASSUME NEW x \in S PROVE N - x \in 0 .. N
    BY x \in 0 .. N
  <2> QED BY <2>1
<1>2. PICK t \in T : \A u \in T : t <= u
  <2> HIDE DEF T
  <2> QED BY <1>1, LeastElement
<1>3. PICK x \in S : t = N - x
  OBVIOUS
<1>4. ASSUME NEW y \in S PROVE y <= x
  <2>1. N - x <= N - y
    BY <1>2, <1>3
  <2> QED BY <2>1, x \in 0 .. N, y \in 0 .. N
<1> QED BY <1>4

(* Induction over the naturals up to N, as a fact about the set of those    *)
(* that have a property.                                                    *)
LEMMA BoundedInduction ==
  ASSUME NEW N \in Nat, NEW S, 0 \in S,
         \A k \in 0 .. N - 1 : k \in S => k + 1 \in S
  PROVE  0 .. N \subseteq S
<1> SUFFICES ASSUME ~(0 .. N \subseteq S) PROVE FALSE
  OBVIOUS
<1> DEFINE T == 0 .. N \ S
<1>1. T \subseteq 0 .. N /\ T # {}
  OBVIOUS
<1>2. PICK x \in T : \A y \in T : x <= y
  <2> HIDE DEF T
  <2> QED BY <1>1, LeastElement
<1>3. x \in 1 .. N
  BY <1>1, <1>2
<1>4. x - 1 \in 0 .. N - 1 /\ x - 1 \notin T /\ (x - 1) + 1 = x
  BY <1>2, <1>3
<1>5. x - 1 \in S
  BY <1>4
<1> QED BY <1>2, <1>4, <1>5

(* The values 0 .. N of a function defined by recursion: the first is base, *)
(* and each of the others comes from the one before by a step of its own.   *)
StepsOf(step, N, T) == \A k \in 1 .. N, x \in T : step[k][x] \in T

Follows(g, N, T, base, step) ==
  /\ g \in [0 .. N -> T] /\ g[0] = base
  /\ \A k \in 1 .. N : g[k] = step[k][g[k - 1]]

(* There is one.                                                            *)
LEMMA BoundedRecursion ==
  ASSUME NEW N \in Nat, NEW T, NEW base \in T, NEW step, StepsOf(step, N, T)
  PROVE  \E g : Follows(g, N, T, base, step)
<1> DEFINE Upto(m, g) == /\ g \in [0 .. N -> T] /\ g[0] = base
                         /\ \A k \in 1 .. m : g[k] = step[k][g[k - 1]]
           S == {m \in 0 .. N : \E g : Upto(m, g)}
<1>1. 0 \in S
  <2>1. Upto(0, [k \in 0 .. N |-> base])
    OBVIOUS
  <2> HIDE DEF Upto
  <2> QED BY <2>1, 0 \in 0 .. N
<1>2. ASSUME NEW m \in 0 .. N - 1, m \in S PROVE m + 1 \in S
  <2>1. PICK g : Upto(m, g)
    BY <1>2
  <2> DEFINE h == [g EXCEPT ![m + 1] = step[m + 1][g[m]]]
  <2>2. m + 1 \in 1 .. N /\ m \in 0 .. N /\ m + 1 \in 0 .. N /\ m # m + 1
    BY <1>2
  <2>3. g \in [0 .. N -> T] /\ step[m + 1][g[m]] \in T
    BY <2>1, <2>2 DEF StepsOf
  <2>4. h \in [0 .. N -> T] /\ h[m + 1] = step[m + 1][g[m]]
        /\ \A k \in 0 .. m : h[k] = g[k]
    BY <2>2, <2>3
  <2>5. \A k \in 1 .. m + 1 : h[k] = step[k][h[k - 1]]
    <3> SUFFICES ASSUME NEW k \in 1 .. m + 1 PROVE h[k] = step[k][h[k - 1]]
      OBVIOUS
    <3>1. CASE k = m + 1
      <4>1. k - 1 = m /\ m \in 0 .. m
        BY <3>1, <2>2
      <4> HIDE DEF h
      <4> QED BY <2>4, <3>1, <4>1
    <3>2. CASE k # m + 1
      <4>1. k \in 0 .. m /\ k - 1 \in 0 .. m /\ k \in 1 .. m
        BY <3>2, <2>2
      <4> HIDE DEF h
      <4> QED BY <2>1, <2>4, <4>1
    <3> QED BY <3>1, <3>2
  <2>6. Upto(m + 1, h)
    <3>1. h[0] = base
      <4> HIDE DEF h
      <4> QED BY <2>1, <2>2, <2>4
    <3> QED BY <2>4, <2>5, <3>1
  <2> HIDE DEF Upto
  <2> QED BY <2>2, <2>6
<1>3. N \in S
  <2> HIDE DEF S
  <2>1. \A k \in 0 .. N - 1 : k \in S => k + 1 \in S
    BY <1>2
  <2>2. 0 .. N \subseteq S
    BY <1>1, <2>1, BoundedInduction
  <2> QED BY <2>2
<1>4. PICK g : Upto(N, g)
  BY <1>3
<1> QED BY <1>4 DEF Follows

=============================================================================
