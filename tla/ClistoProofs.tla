---------------------------- MODULE ClistoProofs ----------------------------
(***************************************************************************)
(* Lemmas about the circular lists of clisto.h, for any finite number of   *)
(* entries.  While next and prev are inverse to each other, following next *)
(* from an entry leads back to it; what clist_for_each visits is closed    *)
(* under both links; and clist_splice joins two lists one behind the       *)
(* other.                                                                  *)
(***************************************************************************)
EXTENDS Clisto, Integers, NatRecursion, SequenceTheorems

-----------------------------------------------------------------------------
(* Rings                                                                   *)

\* next and prev are inverse to each other.
Inverse2(l) ==
    \A e \in Entries : /\ l.next[e] \in Entries /\ l.prev[e] \in Entries
                       /\ l.prev[l.next[e]] = e /\ l.next[l.prev[e]] = e

RingSet(l, h) == {clist_for_each(l, h)[i] : i \in DOMAIN clist_for_each(l, h)}

(* Where the next links lead.                                              *)
LEMMA VisitedIs ==
    ASSUME NEW l, Inverse2(l), NEW h \in Entries
    PROVE  LET n == Cardinality(Entries)
               v == Visited(l, h)
           IN  /\ n \in Nat /\ v[0] = h
               /\ \A k \in 0 .. n : v[k] \in Entries
               /\ \A k \in 1 .. n : v[k] = l.next[v[k - 1]]
  <1> DEFINE n == Cardinality(Entries)
             nx == [e \in Entries \cup {Null} |-> IF e = Null THEN Null ELSE l.next[e]]
             g == [k \in 1 .. n |-> [e \in Entries |-> l.next[e]]]
             Q(f) == f = [k \in 0 .. n |-> IF k = 0 THEN h ELSE nx[f[k - 1]]]
  <1>0. n \in Nat
    BY FiniteAssumption, FS_CardinalityType
  <1> HIDE DEF n
  <1>1. g \in [1 .. n -> [Entries -> Entries]]
    BY DEF Inverse2
  <1>2. PICK f \in [0 .. n -> Entries] : IsWalk(f, h, g, n)
    <2> HIDE DEF g
    <2> QED BY <1>0, <1>1, WalkExists
  <1>3. \A e \in Entries : nx[e] = l.next[e]
    BY NullAssumption
  <1>4. ASSUME NEW k \in 1 .. n PROVE k - 1 \in 0 .. n /\ f[k] = nx[f[k - 1]]
    <2>1. k - 1 \in 0 .. n /\ f[k - 1] \in Entries
      BY <1>0
    <2>2. f[k] = g[k][f[k - 1]]
      <3> HIDE DEF g
      <3> QED BY <1>2 DEF IsWalk
    <2>3. f[k] = l.next[f[k - 1]]
      BY <2>1, <2>2
    <2> HIDE DEF nx, g
    <2> QED BY <1>3, <2>1, <2>3
  <1> HIDE DEF nx, g
  <1>5. Q(f)
    <2>1. ASSUME NEW k \in 0 .. n PROVE f[k] = IF k = 0 THEN h ELSE nx[f[k - 1]]
      <3>1. k = 0 \/ k \in 1 .. n
        BY <1>0
      <3> QED BY <1>2, <1>4, <3>1 DEF IsWalk
    <2>2. f = [k \in 0 .. n |-> f[k]]
      OBVIOUS
    <2> QED BY <2>1, <2>2
  <1>6. Q(CHOOSE f1 : Q(f1))
    <2> HIDE DEF Q
    <2> QED BY <1>5
  <1>7. Visited(l, h) = CHOOSE f1 : Q(f1)
    BY DEF Visited, n, nx
  <1> DEFINE v == Visited(l, h)
  <1>8. Q(v)
    <2> HIDE DEF Q
    <2> QED BY <1>6, <1>7
  <1> HIDE DEF v
  <1>9. v[0] = h /\ \A k \in 1 .. n : v[k] = nx[v[k - 1]]
    <2>1. \A k \in 0 .. n : v[k] = IF k = 0 THEN h ELSE nx[v[k - 1]]
      BY <1>8
    <2>2. 0 \in 0 .. n /\ \A k \in 1 .. n : k \in 0 .. n /\ k # 0
      BY <1>0
    <2> HIDE DEF Q
    <2> QED BY <2>1, <2>2
  <1> HIDE DEF Q
  <1> DEFINE T == {k \in Nat : k <= n => v[k] \in Entries}
  <1>10. 0 \in T
    BY <1>9
  <1>11. ASSUME NEW k \in Nat, k \in T PROVE k + 1 \in T
    <2> SUFFICES ASSUME k + 1 <= n PROVE v[k + 1] \in Entries
      OBVIOUS
    <2>1. k + 1 \in 1 .. n /\ (k + 1) - 1 = k /\ v[k] \in Entries
      BY <1>0, <1>11
    <2>2. v[k + 1] = l.next[v[k]]
      BY <1>3, <1>9, <2>1
    <2> QED BY <2>1, <2>2 DEF Inverse2
  <1>12. \A k \in Nat : k \in T
    <2> HIDE DEF T
    <2> QED BY <1>10, <1>11, InductionOnSet
  <1>13. \A k \in 0 .. n : v[k] \in Entries
    BY <1>0, <1>12
  <1>14. \A k \in 1 .. n : v[k] = l.next[v[k - 1]]
    <2> SUFFICES ASSUME NEW k \in 1 .. n PROVE v[k] = l.next[v[k - 1]]
      OBVIOUS
    <2>1. k - 1 \in 0 .. n
      BY <1>0
    <2> QED BY <1>3, <1>9, <1>13, <2>1
  <1> QED BY <1>0, <1>9, <1>13, <1>14 DEF v, n

\* v is the way along next from h that comes back to h for the first time after m steps.
Round(l, h, v, m) ==
    /\ m \in Nat \ {0} /\ v[0] = h /\ v[m] = h
    /\ \A k \in 0 .. m : v[k] \in Entries
    /\ \A k \in 1 .. m : v[k] = l.next[v[k - 1]]
    /\ \A k \in 1 .. m - 1 : v[k] # h

(* The walk comes back to where it started, and clist_for_each visits what *)
(* is on the way.                                                          *)
LEMMA WalkComesBack ==
    ASSUME NEW l, Inverse2(l), NEW h \in Entries
    PROVE  \E m \in Nat : /\ Round(l, h, Visited(l, h), m)
                          /\ clist_for_each(l, h) = [i \in 1 .. m |-> Visited(l, h)[i - 1]]
  <1> DEFINE n == Cardinality(Entries)
             v == Visited(l, h)
             back == {k \in 1 .. n : v[k] = h}
  <1>0. /\ n \in Nat /\ v[0] = h /\ \A k \in 0 .. n : v[k] \in Entries
        /\ \A k \in 1 .. n : v[k] = l.next[v[k - 1]]
    BY VisitedIs
  <1> HIDE DEF v, n
  <1> DEFINE twice == {x \in 0 .. n : \E y \in 0 .. n : x < y /\ v[x] = v[y]}
  <1>1. twice # {}
    <2> DEFINE u == [k \in 0 .. n |-> v[k]]
    <2>1. u \in [0 .. n -> Entries]
      BY <1>0
    <2>2. IsFiniteSet(0 .. n) /\ Cardinality(0 .. n) = n + 1
      <3>1. 0 \in Int /\ n \in Int
        BY <1>0
      <3>2. Cardinality(0 .. n) = IF 0 > n THEN 0 ELSE n - 0 + 1
        BY <3>1, FS_Interval
      <3> QED BY <1>0, <3>1, <3>2, FS_Interval
    <2>3. Cardinality(Entries) < Cardinality(0 .. n)
      BY <1>0, <2>2 DEF n
    <2> HIDE DEF u
    <2>4. PICK x \in 0 .. n, y \in 0 .. n : x # y /\ u[x] = u[y]
      BY <2>1, <2>2, <2>3, FiniteAssumption, FS_PigeonHole
    <2>5. v[x] = v[y]
      BY <2>4 DEF u
    <2>6. x < y \/ y < x
      BY <1>0, <2>4
    <2> QED BY <2>5, <2>6
  <1>2. 0 \in twice
    <2>1. PICK x \in twice : \A z \in twice : x <= z
      <3>1. twice \in SUBSET Nat
        BY <1>0
      <3> HIDE DEF twice
      <3> QED BY <1>1, <3>1, LeastNumber
    <2>2. PICK y \in 0 .. n : x < y /\ v[x] = v[y]
      OBVIOUS
    <2>3. CASE x # 0
      <3>1. x \in 1 .. n /\ y \in 1 .. n /\ x - 1 \in 0 .. n /\ y - 1 \in 0 .. n /\ x - 1 < y - 1
        BY <1>0, <2>2, <2>3
      <3>2. v[x - 1] \in Entries /\ v[y - 1] \in Entries
        BY <1>0, <3>1
      <3>3. l.next[v[x - 1]] = l.next[v[y - 1]]
        BY <1>0, <2>2, <3>1
      <3>4. v[x - 1] = v[y - 1]
        BY <3>2, <3>3 DEF Inverse2
      <3>5. x - 1 \in twice
        BY <3>1, <3>4
      <3> HIDE DEF twice
      <3> QED BY <1>0, <2>1, <3>1, <3>5
    <2> QED BY <2>1, <2>3
  <1>3. back # {}
    <2>1. PICK y \in 0 .. n : 0 < y /\ v[0] = v[y]
      BY <1>2
    <2>2. y \in 1 .. n
      BY <1>0, <2>1
    <2> QED BY <1>0, <2>1, <2>2
  <1> DEFINE m == CHOOSE k \in back : \A j \in back : k <= j
  <1>4. m \in back /\ \A j \in back : m <= j
    <2>1. back \in SUBSET Nat
      BY <1>0
    <2> HIDE DEF back
    <2>2. \E k \in back : \A j \in back : k <= j
      BY <1>3, <2>1, LeastNumber
    <2> QED BY <2>2
  <1>5. clist_for_each(l, h) = [i \in 1 .. m |-> v[i - 1]]
    <2>1. clist_for_each(l, h) =
            LET len == IF back = {} THEN n + 1 ELSE CHOOSE k \in back : \A j \in back : k <= j
            IN  [i \in 1 .. len |-> v[i - 1]]
      BY DEF clist_for_each, v, n
    <2> HIDE DEF back
    <2> QED BY <1>3, <2>1
  <1> HIDE DEF m
  <1>6. m \in 1 .. n /\ v[m] = h /\ m \in Nat \ {0}
    BY <1>0, <1>4
  <1>7. \A k \in 1 .. m - 1 : v[k] # h
    <2> SUFFICES ASSUME NEW k \in 1 .. m - 1, v[k] = h PROVE FALSE
      OBVIOUS
    <2>1. k \in 1 .. n /\ k < m
      BY <1>0, <1>6
    <2>2. k \in back
      BY <2>1
    <2> HIDE DEF back
    <2> QED BY <1>4, <1>6, <2>1, <2>2
  <1>8. Round(l, h, v, m)
    <2>1. (\A k \in 0 .. m : k \in 0 .. n) /\ (\A k \in 1 .. m : k \in 1 .. n)
      BY <1>0, <1>6
    <2> QED BY <1>0, <1>6, <1>7, <2>1 DEF Round
  <1> QED BY <1>5, <1>6, <1>8 DEF v

(* What is on the way is closed under both links.                          *)
LEMMA RingIsClosed ==
    ASSUME NEW l, Inverse2(l), NEW h \in Entries
    PROVE  /\ h \in RingSet(l, h) /\ RingSet(l, h) \subseteq Entries
           /\ \A e \in RingSet(l, h) : l.next[e] \in RingSet(l, h) /\ l.prev[e] \in RingSet(l, h)
  <1> DEFINE v == Visited(l, h)
             R == RingSet(l, h)
  <1>1. PICK m \in Nat : Round(l, h, v, m) /\ clist_for_each(l, h) = [i \in 1 .. m |-> v[i - 1]]
    BY WalkComesBack
  <1> HIDE DEF v
  <1>2. R = {v[i - 1] : i \in 1 .. m}
    BY <1>1 DEF RingSet
  <1>3. /\ m # 0 /\ v[0] = h /\ v[m] = h /\ \A k \in 0 .. m : v[k] \in Entries
        /\ \A k \in 1 .. m : v[k] = l.next[v[k - 1]]
    BY <1>1 DEF Round
  <1> HIDE DEF R
  <1>4. \A k \in 0 .. m - 1 : v[k] \in R
    <2> SUFFICES ASSUME NEW k \in 0 .. m - 1 PROVE v[k] \in R
      OBVIOUS
    <2>1. k + 1 \in 1 .. m /\ (k + 1) - 1 = k
      OBVIOUS
    <2> QED BY <1>2, <2>1
  <1>5. h \in R /\ R \subseteq Entries
    <2>1. 0 \in 0 .. m - 1 /\ \A i \in 1 .. m : i - 1 \in 0 .. m
      BY <1>3
    <2> QED BY <1>2, <1>3, <1>4, <2>1
  <1>6. ASSUME NEW e \in R PROVE l.next[e] \in R /\ l.prev[e] \in R
    <2>1. PICK i \in 1 .. m : e = v[i - 1]
      BY <1>2
    <2>2. l.next[e] = v[i]
      BY <1>3, <2>1
    <2>3. l.next[e] \in R
      <3>1. CASE i = m
        BY <1>3, <1>5, <2>2, <3>1
      <3>2. CASE i # m
        <4>1. i \in 0 .. m - 1
          BY <3>2
        <4> QED BY <1>4, <2>2, <4>1
      <3> QED BY <3>1, <3>2
    <2>4. l.prev[e] \in R
      <3>1. CASE i = 1
        <4>1. m \in 1 .. m /\ m - 1 \in 0 .. m - 1 /\ m - 1 \in 0 .. m
          BY <1>3
        <4>2. e = v[m] /\ v[m] = l.next[v[m - 1]] /\ v[m - 1] \in Entries
          BY <1>3, <2>1, <3>1, <4>1
        <4>3. l.prev[e] = v[m - 1]
          BY <4>2 DEF Inverse2
        <4> QED BY <1>4, <4>1, <4>3
      <3>2. CASE i # 1
        <4>1. i - 1 \in 1 .. m /\ (i - 1) - 1 \in 0 .. m - 1 /\ (i - 1) - 1 \in 0 .. m
          BY <3>2
        <4>2. e = l.next[v[(i - 1) - 1]] /\ v[(i - 1) - 1] \in Entries
          BY <1>3, <2>1, <4>1
        <4>3. l.prev[e] = v[(i - 1) - 1]
          BY <4>2 DEF Inverse2
        <4> QED BY <1>4, <4>1, <4>3
      <3> QED BY <3>1, <3>2
    <2> QED BY <2>3, <2>4
  <1> QED BY <1>5, <1>6 DEF R

(* It is the least such set.                                               *)
LEMMA RingIsLeast ==
    ASSUME NEW l, Inverse2(l), NEW h \in Entries,
           NEW S, h \in S, \A e \in S : l.next[e] \in S
    PROVE  RingSet(l, h) \subseteq S
  <1> DEFINE v == Visited(l, h)
  <1>1. PICK m \in Nat : Round(l, h, v, m) /\ clist_for_each(l, h) = [i \in 1 .. m |-> v[i - 1]]
    BY WalkComesBack
  <1> HIDE DEF v
  <1> DEFINE T == {k \in Nat : k <= m => v[k] \in S}
  <1>2. 0 \in T
    BY <1>1 DEF Round
  <1>3. ASSUME NEW k \in Nat, k \in T PROVE k + 1 \in T
    <2> SUFFICES ASSUME k + 1 <= m PROVE v[k + 1] \in S
      OBVIOUS
    <2>1. k + 1 \in 1 .. m /\ (k + 1) - 1 = k /\ v[k] \in S
      BY <1>3
    <2>2. v[k + 1] = l.next[v[k]]
      BY <1>1, <2>1 DEF Round
    <2> QED BY <2>1, <2>2
  <1>4. \A k \in Nat : k \in T
    <2> HIDE DEF T
    <2> QED BY <1>2, <1>3, InductionOnSet
  <1>5. \A i \in 1 .. m : v[i - 1] \in S
    <2> SUFFICES ASSUME NEW i \in 1 .. m PROVE v[i - 1] \in S
      OBVIOUS
    <2>1. i - 1 \in Nat /\ i - 1 <= m
      OBVIOUS
    <2> QED BY <1>4, <2>1
  <1> QED BY <1>1, <1>5 DEF RingSet

(* What clist_splice does to the links.                                    *)
LEMMA SpliceLinks ==
    ASSUME NEW l \in Links, Inverse2(l), NEW a \in Entries, NEW b \in Entries, a # b,
           NEW k, k = clist_splice(l, a, b)
    PROVE  /\ Inverse2(k)
           /\ k.next = [l.next EXCEPT ![l.prev[a]] = b, ![l.prev[b]] = a]
           /\ k.prev = [l.prev EXCEPT ![b] = l.prev[a], ![a] = l.prev[b]]
  <1>1. /\ k.next = [[l.next EXCEPT ![l.prev[a]] = b] EXCEPT ![l.prev[b]] = a]
        /\ k.prev = [[l.prev EXCEPT ![b] = l.prev[a]] EXCEPT ![a] = l.prev[b]]
    BY DEF clist_splice, SetNext, SetPrev, Links
  <1>2. /\ l.next \in [Entries -> Entries \cup {Null}] /\ l.prev \in [Entries -> Entries \cup {Null}]
        /\ l.prev[a] \in Entries /\ l.prev[b] \in Entries /\ l.prev[a] # l.prev[b]
        /\ l.next[l.prev[a]] = a /\ l.next[l.prev[b]] = b
    BY DEF Links, Inverse2
  <1>3. \A e \in Entries : /\ k.next[e] = IF e = l.prev[b] THEN a ELSE IF e = l.prev[a] THEN b ELSE l.next[e]
                           /\ k.prev[e] = IF e = a THEN l.prev[b] ELSE IF e = b THEN l.prev[a] ELSE l.prev[e]
    BY <1>1, <1>2
  <1>4. Inverse2(k)
    <2> SUFFICES ASSUME NEW e \in Entries
                 PROVE  /\ k.next[e] \in Entries /\ k.prev[e] \in Entries
                        /\ k.prev[k.next[e]] = e /\ k.next[k.prev[e]] = e
      BY DEF Inverse2
    <2>1. l.next[e] \in Entries /\ l.prev[e] \in Entries /\ l.prev[l.next[e]] = e /\ l.next[l.prev[e]] = e
      BY DEF Inverse2
    <2> QED BY <1>2, <1>3, <2>1
  <1> QED BY <1>1, <1>4

-----------------------------------------------------------------------------
(* Lists in order                                                          *)

\* The sequence of what is on the way, but for the return to its start.
Along(v, m) == [i \in 1 .. m |-> v[i - 1]]

(* clist_for_each visits what any way round the list visits.               *)
LEMMA RoundIs ==
    ASSUME NEW l, Inverse2(l), NEW h \in Entries, NEW v, NEW m, Round(l, h, v, m)
    PROVE  clist_for_each(l, h) = Along(v, m) /\ \A i \in 1 .. m : v[i - 1] \in RingSet(l, h)
  <1> DEFINE u == Visited(l, h)
  <1>1. PICK n \in Nat : Round(l, h, u, n) /\ clist_for_each(l, h) = [i \in 1 .. n |-> u[i - 1]]
    BY WalkComesBack
  <1> HIDE DEF u
  <1>2. m \in Nat \ {0} /\ n \in Nat \ {0}
    BY <1>1 DEF Round
  <1> DEFINE T == {k \in Nat : k <= m /\ k <= n => v[k] = u[k]}
  <1>3. 0 \in T
    BY <1>1 DEF Round
  <1>4. ASSUME NEW k \in Nat, k \in T PROVE k + 1 \in T
    <2> SUFFICES ASSUME k + 1 <= m, k + 1 <= n PROVE v[k + 1] = u[k + 1]
      OBVIOUS
    <2>1. k + 1 \in 1 .. m /\ k + 1 \in 1 .. n /\ (k + 1) - 1 = k /\ v[k] = u[k]
      BY <1>2, <1>4
    <2>2. v[k + 1] = l.next[v[k]]
      BY ONLY Round(l, h, v, m), <2>1 DEF Round
    <2>3. u[k + 1] = l.next[u[k]]
      BY ONLY <1>1, <2>1 DEF Round
    <2> QED BY <2>1, <2>2, <2>3
  <1>5. \A k \in Nat : k <= m /\ k <= n => v[k] = u[k]
    <2>1. \A k \in Nat : k \in T
      <3> HIDE DEF T
      <3> QED BY <1>3, <1>4, InductionOnSet
    <2> QED BY <2>1
  <1>6. m = n
    <2>1. CASE m < n
      <3>1. m \in 1 .. n - 1 /\ v[m] = u[m]
        BY <1>2, <1>5, <2>1
      <3> QED BY <1>1, <3>1 DEF Round
    <2>2. CASE n < m
      <3>1. n \in 1 .. m - 1 /\ v[n] = u[n]
        BY <1>2, <1>5, <2>2
      <3> QED BY <1>1, <3>1 DEF Round
    <2> QED BY <1>2, <2>1, <2>2
  <1>7. \A i \in 1 .. m : u[i - 1] = v[i - 1]
    <2> SUFFICES ASSUME NEW i \in 1 .. m PROVE u[i - 1] = v[i - 1]
      OBVIOUS
    <2>1. i - 1 \in Nat /\ i - 1 <= m /\ i - 1 <= n
      BY <1>2, <1>6
    <2> QED BY <1>5, <2>1
  <1>8. clist_for_each(l, h) = [i \in 1 .. m |-> v[i - 1]]
    BY <1>1, <1>6, <1>7
  <1>9. \A i \in 1 .. m : v[i - 1] \in RingSet(l, h)
    <2> SUFFICES ASSUME NEW i \in 1 .. m PROVE v[i - 1] \in RingSet(l, h)
      OBVIOUS
    <2>1. i \in DOMAIN clist_for_each(l, h) /\ clist_for_each(l, h)[i] = v[i - 1]
      BY <1>8
    <2> QED BY <2>1 DEF RingSet
  <1> QED BY <1>8, <1>9 DEF Along

(* A list is a sequence of nodes.                                          *)
LEMMA ListIsSeq ==
    ASSUME NEW l, Inverse2(l), NEW h \in Entries \cup {Null}
    PROVE  ListAt(l, h) \in Seq(Entries) /\ (h # Null => Len(ListAt(l, h)) > 0)
  <1>1. CASE h = Null
    BY <1>1 DEF ListAt
  <1>2. CASE h # Null
    <2> DEFINE v == Visited(l, h)
    <2>1. h \in Entries /\ ListAt(l, h) = clist_for_each(l, h)
      BY <1>2 DEF ListAt
    <2>2. PICK m \in Nat : Round(l, h, v, m) /\ clist_for_each(l, h) = [i \in 1 .. m |-> v[i - 1]]
      BY <2>1, WalkComesBack
    <2> HIDE DEF v
    <2>3. m > 0 /\ \A i \in 1 .. m : v[i - 1] \in Entries
      BY <2>2 DEF Round
    <2> DEFINE s == [i \in 1 .. m |-> v[i - 1]]
    <2>4. s \in Seq(Entries) /\ Len(s) = m
      BY <2>3
    <2> HIDE DEF s
    <2> QED BY <2>1, <2>2, <2>3, <2>4 DEF s
  <1> QED BY <1>1, <1>2

(* A list is as it was when the links of its nodes are.                    *)
LEMMA SameList ==
    ASSUME NEW l, Inverse2(l), NEW k, Inverse2(k), NEW h \in Entries \cup {Null},
           h # Null => \A e \in RingSet(l, h) : k.next[e] = l.next[e]
    PROVE  ListAt(k, h) = ListAt(l, h)
  <1>1. CASE h = Null
    BY <1>1 DEF ListAt
  <1>2. CASE h # Null
    <2> DEFINE v == Visited(l, h)
    <2>1. h \in Entries /\ ListAt(l, h) = clist_for_each(l, h) /\ ListAt(k, h) = clist_for_each(k, h)
      BY <1>2 DEF ListAt
    <2>2. PICK m \in Nat : Round(l, h, v, m) /\ clist_for_each(l, h) = [i \in 1 .. m |-> v[i - 1]]
      BY <2>1, WalkComesBack
    <2> HIDE DEF v
    <2>3. \A i \in 1 .. m : v[i - 1] \in RingSet(l, h)
      BY <2>1, <2>2, RoundIs
    <2>4. Round(k, h, v, m)
      BY <1>2, <2>2, <2>3 DEF Round
    <2>5. clist_for_each(k, h) = Along(v, m)
      BY <2>1, <2>4, RoundIs
    <2> QED BY <2>1, <2>2, <2>5 DEF Along
  <1> QED BY <1>1, <1>2

(* A node that is linked to itself is a list of one.                       *)
LEMMA SingleList ==
    ASSUME NEW l, Inverse2(l), NEW h \in Entries, l.next[h] = h
    PROVE  ListAt(l, h) = <<h>>
  <1> DEFINE v == [i \in 0 .. 1 |-> h]
  <1>1. Round(l, h, v, 1)
    BY DEF Round
  <1>2. clist_for_each(l, h) = Along(v, 1)
    <2> HIDE DEF v
    <2> QED BY <1>1, RoundIs
  <1>3. ListAt(l, h) = clist_for_each(l, h)
    BY NullAssumption DEF ListAt
  <1>4. Along(v, 1) = <<h>>
    BY DEF Along
  <1> QED BY <1>2, <1>3, <1>4

(* Concatenation of sequences of nodes: the library's facts for this set.  *)
LEMMA NodesConcat ==
    ASSUME NEW p \in Seq(Entries), NEW q \in Seq(Entries)
    PROVE  /\ p \o q \in Seq(Entries) /\ Len(p \o q) = Len(p) + Len(q)
           /\ \A i \in 1 .. Len(p) + Len(q) :
                 (p \o q)[i] = IF i <= Len(p) THEN p[i] ELSE q[i - Len(p)]
  BY ConcatProperties

LEMMA NodesAssociate ==
    ASSUME NEW p \in Seq(Entries), NEW q \in Seq(Entries), NEW r \in Seq(Entries)
    PROVE  (p \o q) \o r = p \o (q \o r)
  BY ConcatAssociative, SMTT(30)

(* A function on an interval from 1 is a sequence.                         *)
LEMMA NodesFrom ==
    ASSUME NEW m \in Nat, NEW v, \A i \in 1 .. m : v[i - 1] \in Entries
    PROVE  [i \in 1 .. m |-> v[i - 1]] \in Seq(Entries) /\ Len([i \in 1 .. m |-> v[i - 1]]) = m
  OBVIOUS

(* clist_splice puts the list of a behind the list of b.                   *)
LEMMA SpliceJoins ==
    ASSUME NEW l \in Links, Inverse2(l), NEW a \in Entries, NEW b \in Entries,
           a \notin RingSet(l, b), b \notin RingSet(l, a),
           NEW k, k = clist_splice(l, a, b)
    PROVE  ListAt(k, b) = ListAt(l, b) \o ListAt(l, a)
  <1> DEFINE va == Visited(l, a)
             vb == Visited(l, b)
  <1>0. a \in Entries /\ b \in Entries /\ a # b
    BY RingIsClosed
  <1>1. /\ Inverse2(k)
        /\ k.next = [l.next EXCEPT ![l.prev[a]] = b, ![l.prev[b]] = a]
        /\ k.prev = [l.prev EXCEPT ![b] = l.prev[a], ![a] = l.prev[b]]
    BY <1>0, SpliceLinks
  <1>2. PICK m \in Nat : Round(l, a, va, m) /\ clist_for_each(l, a) = [i \in 1 .. m |-> va[i - 1]]
    BY <1>0, WalkComesBack
  <1>3. PICK n \in Nat : Round(l, b, vb, n) /\ clist_for_each(l, b) = [i \in 1 .. n |-> vb[i - 1]]
    BY <1>0, WalkComesBack
  <1> HIDE DEF va, vb
  <1>4. m > 0 /\ n > 0
    BY <1>2, <1>3 DEF Round
  <1>5. \A e \in Entries : k.next[e] = IF l.next[e] = b THEN a ELSE IF l.next[e] = a THEN b ELSE l.next[e]
    BY <1>0, <1>1 DEF Links, Inverse2
  <1>6. (\A i \in 1 .. n : vb[i - 1] # a) /\ (\A i \in 1 .. m : va[i - 1] # b)
    <2>1. \A i \in 1 .. m : va[i - 1] \in RingSet(l, a)
      BY <1>0, <1>2, RoundIs
    <2>2. \A i \in 1 .. n : vb[i - 1] \in RingSet(l, b)
      BY <1>0, <1>3, RoundIs
    <2> QED BY <2>1, <2>2
  <1> DEFINE v == [i \in 0 .. n + m |-> IF i < n THEN vb[i] ELSE IF i < n + m THEN va[i - n] ELSE b]
  <1>7. Round(k, b, v, n + m)
    <2>1. n + m \in Nat \ {0} /\ v[0] = b /\ v[n + m] = b
      BY <1>3, <1>4 DEF Round
    <2>2. ASSUME NEW i \in 0 .. n + m PROVE v[i] \in Entries
      <3>1. CASE i < n
        BY <1>3, <3>1 DEF Round
      <3>2. CASE i >= n /\ i < n + m
        <4>1. i - n \in 0 .. m
          BY <3>2
        <4> QED BY <1>2, <3>2, <4>1 DEF Round
      <3>3. CASE i = n + m
        BY <1>0, <1>4, <3>3
      <3> QED BY <3>1, <3>2, <3>3
    <2>3. ASSUME NEW i \in 1 .. n + m PROVE v[i] = k.next[v[i - 1]]
      <3>1. CASE i < n
        <4>1. /\ i \in 1 .. n - 1 /\ i \in 1 .. n /\ i - 1 \in 0 .. n /\ i + 1 \in 1 .. n /\ (i + 1) - 1 = i
              /\ v[i] = vb[i] /\ v[i - 1] = vb[i - 1]
          BY <3>1
        <4>2. vb[i - 1] \in Entries /\ vb[i] = l.next[vb[i - 1]] /\ vb[i] # b /\ vb[i] # a
          BY <1>3, <1>6, <4>1 DEF Round
        <4> HIDE DEF v
        <4> QED BY <1>5, <4>1, <4>2
      <3>2. CASE i = n
        <4>1. /\ n \in 1 .. n /\ n - 1 \in 0 .. n /\ v[i] = va[0] /\ v[i - 1] = vb[n - 1]
          BY <1>4, <3>2
        <4>2. vb[n - 1] \in Entries /\ l.next[vb[n - 1]] = b /\ va[0] = a
          BY <1>2, <1>3, <4>1 DEF Round
        <4> HIDE DEF v
        <4> QED BY <1>5, <4>1, <4>2
      <3>3. CASE i > n /\ i < n + m
        <4>1. /\ i - n \in 1 .. m - 1 /\ i - n \in 1 .. m /\ (i - n) - 1 \in 0 .. m
              /\ (i - n) + 1 \in 1 .. m /\ ((i - n) + 1) - 1 = i - n
              /\ v[i] = va[i - n] /\ v[i - 1] = va[(i - n) - 1]
          BY <3>3
        <4>2. /\ va[(i - n) - 1] \in Entries /\ va[i - n] = l.next[va[(i - n) - 1]]
              /\ va[i - n] # b /\ va[i - n] # a
          BY <1>2, <1>6, <4>1 DEF Round
        <4> HIDE DEF v
        <4> QED BY <1>5, <4>1, <4>2
      <3>4. CASE i = n + m
        <4>1. m \in 1 .. m /\ m - 1 \in 0 .. m /\ v[i] = b /\ v[i - 1] = va[m - 1]
          BY <1>4, <3>4
        <4>2. va[m - 1] \in Entries /\ l.next[va[m - 1]] = a
          BY <1>2, <4>1 DEF Round
        <4> HIDE DEF v
        <4> QED BY <1>0, <1>5, <4>1, <4>2
      <3> QED BY <3>1, <3>2, <3>3, <3>4
    <2>4. ASSUME NEW i \in 1 .. n + m - 1 PROVE v[i] # b
      <3>1. CASE i < n
        <4>1. i \in 1 .. n - 1 /\ v[i] = vb[i]
          BY <3>1
        <4> QED BY <1>3, <4>1 DEF Round
      <3>2. CASE i >= n
        <4>1. (i - n) + 1 \in 1 .. m /\ ((i - n) + 1) - 1 = i - n /\ v[i] = va[i - n]
          BY <3>2
        <4> QED BY <1>6, <4>1
      <3> QED BY <3>1, <3>2
    <2> HIDE DEF v
    <2> QED BY <2>1, <2>2, <2>3, <2>4 DEF Round
  <1>8. clist_for_each(k, b) = [i \in 1 .. n + m |-> v[i - 1]]
    <2> HIDE DEF v
    <2>1. clist_for_each(k, b) = Along(v, n + m)
      BY <1>0, <1>1, <1>7, RoundIs
    <2> QED BY <2>1 DEF Along
  <1> DEFINE sa == [i \in 1 .. m |-> va[i - 1]]
             sb == [i \in 1 .. n |-> vb[i - 1]]
  <1>9. /\ sa \in Seq(Entries) /\ sb \in Seq(Entries) /\ Len(sa) = m /\ Len(sb) = n
        /\ ListAt(l, a) = sa /\ ListAt(l, b) = sb /\ ListAt(k, b) = clist_for_each(k, b)
    <2>1. (\A i \in 1 .. m : va[i - 1] \in Entries) /\ (\A i \in 1 .. n : vb[i - 1] \in Entries)
      <3>1. (\A i \in 1 .. m : i - 1 \in 0 .. m) /\ (\A i \in 1 .. n : i - 1 \in 0 .. n)
        OBVIOUS
      <3>2. (\A i \in 0 .. m : va[i] \in Entries) /\ (\A i \in 0 .. n : vb[i] \in Entries)
        BY ONLY <1>2, <1>3 DEF Round
      <3> QED BY ONLY <3>1, <3>2
    <2>2. sa \in Seq(Entries) /\ sb \in Seq(Entries) /\ Len(sa) = m /\ Len(sb) = n
      BY ONLY m \in Nat, n \in Nat, <2>1, NodesFrom
    <2>3. ListAt(l, a) = sa /\ ListAt(l, b) = sb /\ ListAt(k, b) = clist_for_each(k, b)
      BY <1>0, <1>2, <1>3, NullAssumption DEF ListAt
    <2> QED BY <2>2, <2>3
  <1>10. sb \o sa = [i \in 1 .. n + m |-> v[i - 1]]
    <2>1. /\ sb \o sa \in Seq(Entries) /\ Len(sb \o sa) = n + m
          /\ \A i \in 1 .. n + m : (sb \o sa)[i] = IF i <= n THEN sb[i] ELSE sa[i - n]
      <3> HIDE DEF sa, sb
      <3> QED BY ONLY <1>9, NodesConcat, ZenonT(30)
    <2>2. ASSUME NEW i \in 1 .. n + m PROVE (IF i <= n THEN sb[i] ELSE sa[i - n]) = v[i - 1]
      <3>1. CASE i <= n
        <4>1. i \in 1 .. n /\ i - 1 \in 0 .. n + m /\ i - 1 < n
          BY <3>1
        <4> QED BY <3>1, <4>1
      <3>2. CASE i > n
        <4>1. /\ i - n \in 1 .. m /\ i - 1 \in 0 .. n + m /\ ~(i - 1 < n) /\ i - 1 < n + m
              /\ (i - 1) - n = (i - n) - 1
          BY <3>2
        <4> QED BY <3>2, <4>1
      <3> QED BY <3>1, <3>2
    <2> HIDE DEF sa, sb, v
    <2>3. PICK s \in Seq(Entries) : s = sb \o sa
      BY <2>1
    <2>4. s = [i \in 1 .. n + m |-> s[i]]
      <3>1. Len(s) = n + m
        BY <2>1, <2>3
      <3>2. s \in [1 .. Len(s) -> Entries]
        BY LenProperties
      <3> QED BY <3>1, <3>2
    <2>5. \A i \in 1 .. n + m : s[i] = v[i - 1]
      BY <2>1, <2>2, <2>3
    <2> QED BY <2>3, <2>4, <2>5
  <1> HIDE DEF sa, sb, v
  <1> QED BY <1>8, <1>9, <1>10
=============================================================================
