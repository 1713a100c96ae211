---------------------------- MODULE NatRecursion ----------------------------
(***************************************************************************)
(* Induction and recursion over the naturals, stated for sets and          *)
(* functions, so that the proofs about the walks of the code (along a hash *)
(* chain, round a list, over the zones of a segment) can cite them.  Both  *)
(* follow from the library's theorem that proper inclusion of finite sets  *)
(* is well-founded.                                                        *)
(***************************************************************************)
EXTENDS FiniteSetTheorems, TLAPS

(* A nonempty set of naturals has a least element.                         *)
LEMMA LeastNumber ==
    ASSUME NEW T \in SUBSET Nat, T # {}
    PROVE  \E m \in T : \A k \in T : m <= k
  <1> DEFINE below == {0 .. k : k \in T}
  <1>1. ASSUME NEW k \in T PROVE 0 .. k \in FiniteSubsetsOf(Nat)
    <2>1. 0 .. k \in SUBSET Nat
      OBVIOUS
    <2>2. k \in Int /\ 0 \in Int
      OBVIOUS
    <2>3. IsFiniteSet(0 .. k)
      BY <2>2, FS_Interval
    <2> QED BY <2>1, <2>3 DEF FiniteSubsetsOf
  <1>2. below \subseteq FiniteSubsetsOf(Nat) /\ below # {}
    BY <1>1
  <1>3. \E x \in below : \A y \in below : ~ (<<y, x>> \in StrictSubsetOrdering(Nat))
    <2> HIDE DEF below
    <2> QED BY <1>2, WFMin, FS_StrictSubsetOrderingWellFounded
  <1>4. PICK m \in T : \A y \in below : ~ (<<y, 0 .. m>> \in StrictSubsetOrdering(Nat))
    BY <1>3
  <1>5. ASSUME NEW k \in T, k < m PROVE FALSE
    <2>1. 0 .. k \in SUBSET Nat /\ 0 .. m \in SUBSET Nat
      OBVIOUS
    <2>2. 0 .. k \subseteq 0 .. m
      BY <1>5
    <2>3. m \in 0 .. m /\ m \notin 0 .. k
      BY <1>5
    <2>4. <<0 .. k, 0 .. m>> \in StrictSubsetOrdering(Nat)
      <3> DEFINE a == 0 .. k
                 b == 0 .. m
      <3>1. a \in SUBSET Nat /\ b \in SUBSET Nat /\ a \subseteq b /\ a # b
        BY <2>1, <2>2, <2>3
      <3> HIDE DEF a, b
      <3>2. <<a, b>> \in StrictSubsetOrdering(Nat)
        BY <3>1 DEF StrictSubsetOrdering
      <3> QED BY <3>2 DEF a, b
    <2> QED BY <1>4, <2>4
  <1>6. \A k \in T : m <= k
    BY <1>5
  <1> QED BY <1>6

(* A set with 0 in it, and with every number the next, holds them all.     *)
LEMMA InductionOnSet ==
    ASSUME NEW T, 0 \in T, \A n \in Nat : n \in T => n + 1 \in T
    PROVE  \A n \in Nat : n \in T
  <1> DEFINE out == {n \in Nat : n \notin T}
  <1> SUFFICES ASSUME out # {} PROVE FALSE
    OBVIOUS
  <1>1. PICK m \in out : \A k \in out : m <= k
    BY LeastNumber
  <1>2. m # 0 /\ m \in Nat /\ m - 1 \in Nat /\ m - 1 \notin out
    BY <1>1
  <1>3. m - 1 \in T /\ (m - 1) + 1 = m
    BY <1>2
  <1> QED BY <1>1, <1>2, <1>3

(* A walk of n steps that starts at a, each step given by a function.      *)
IsWalk(f, a, g, n) == f[0] = a /\ \A k \in 1 .. n : f[k] = g[k][f[k - 1]]

(* There is such a walk.                                                   *)
LEMMA WalkExists ==
    ASSUME NEW S, NEW a \in S, NEW n \in Nat, NEW g \in [1 .. n -> [S -> S]]
    PROVE  \E f \in [0 .. n -> S] : IsWalk(f, a, g, n)
  <1> DEFINE T == {m \in Nat : m <= n => \E f \in [0 .. m -> S] : IsWalk(f, a, g, m)}
  <1>1. 0 \in T
    <2> DEFINE f == [k \in 0 .. 0 |-> a]
    <2>1. f \in [0 .. 0 -> S] /\ IsWalk(f, a, g, 0)
      BY DEF IsWalk
    <2> QED BY <2>1
  <1>2. ASSUME NEW m \in Nat, m \in T PROVE m + 1 \in T
    <2> SUFFICES ASSUME m + 1 <= n
                 PROVE  \E h \in [0 .. m + 1 -> S] : IsWalk(h, a, g, m + 1)
      OBVIOUS
    <2>1. PICK f \in [0 .. m -> S] : IsWalk(f, a, g, m)
      BY <1>2
    <2> DEFINE h == [k \in 0 .. m + 1 |-> IF k = m + 1 THEN g[k][f[k - 1]] ELSE f[k]]
    <2>2. g[m + 1][f[m]] \in S
      OBVIOUS
    <2>3. h \in [0 .. m + 1 -> S]
      BY <2>2
    <2>4. h[0] = a
      BY <2>1 DEF IsWalk
    <2>5. ASSUME NEW k \in 1 .. m + 1 PROVE h[k] = g[k][h[k - 1]]
      <3>1. k \in 0 .. m + 1 /\ k - 1 \in 0 .. m /\ h[k - 1] = f[k - 1]
        OBVIOUS
      <3>2. CASE k = m + 1
        BY <3>1, <3>2
      <3>3. CASE k # m + 1
        <4>1. k \in 1 .. m
          BY <3>3
        <4> QED BY <2>1, <3>1, <3>3, <4>1 DEF IsWalk
      <3> QED BY <3>2, <3>3
    <2> HIDE DEF h
    <2> QED BY <2>3, <2>4, <2>5 DEF IsWalk
  <1>3. n \in T
    <2> HIDE DEF T
    <2> QED BY <1>1, <1>2, InductionOnSet
  <1> QED BY <1>3

(* Two walks with the same start and steps are the same.                   *)
LEMMA WalkUnique ==
    ASSUME NEW a, NEW n \in Nat, NEW g, NEW e, NEW f, IsWalk(e, a, g, n), IsWalk(f, a, g, n)
    PROVE  \A k \in 0 .. n : e[k] = f[k]
  <1> DEFINE T == {k \in Nat : k <= n => e[k] = f[k]}
  <1>1. 0 \in T
    BY DEF IsWalk
  <1>2. ASSUME NEW k \in Nat, k \in T PROVE k + 1 \in T
    <2> SUFFICES ASSUME k + 1 <= n PROVE e[k + 1] = f[k + 1]
      OBVIOUS
    <2>1. k + 1 \in 1 .. n /\ (k + 1) - 1 = k /\ e[k] = f[k]
      BY <1>2
    <2> QED BY <2>1 DEF IsWalk
  <1>3. \A k \in Nat : k \in T
    <2> HIDE DEF T
    <2> QED BY <1>1, <1>2, InductionOnSet
  <1> QED BY <1>3
=============================================================================
