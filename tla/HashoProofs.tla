---------------------------- MODULE HashoProofs ----------------------------
(***************************************************************************)
(* Proofs about the hash table for every number of buckets and nodes, any  *)
(* keys and any hash function: the chains stay exact, and the table is a   *)
(* map.                                                                    *)
(* The argument: a table is well-formed when there are sequences of nodes, *)
(* one per bucket, that its links agree with (Shape).  Linking a node puts *)
(* it in front of one of them, unlinking takes it out.  The walk of        *)
(* hasho_find, which is a recursion along the next offsets, gives just     *)
(* these sequences.  The search of memg_alloc comes to every header, and   *)
(* by the count there is a free one when it starts.                        *)
(***************************************************************************)
EXTENDS HashoTable, NatRecursion

(* The assumption on the constants, one by one.                            *)
LEMMA Counts ==
    /\ HashSize \in Nat /\ HashSize # 0 /\ NodesPerBucket \in Nat /\ NodesPerBucket # 0
    /\ TotCnt \in Nat /\ TotCnt # 0
    /\ hasho_func \in [Keys -> Bucket] /\ NoKey \notin Keys
  <1>1. HashSize \in Nat /\ HashSize # 0 /\ NodesPerBucket \in Nat /\ NodesPerBucket # 0
    BY HashAssumption
  <1>2. HashSize * NodesPerBucket \in Nat /\ HashSize * NodesPerBucket # 0
    BY <1>1
  <1> QED BY <1>1, <1>2, HashAssumption DEF TotCnt

\* s is the chain of bucket b of table T.
Linked(T, b, s) ==
    /\ s \in Seq(HNode)
    /\ T.head[b] = IF Len(s) = 0 THEN 0 ELSE s[1]
    /\ \A i \in 1 .. Len(s) :
          /\ s[i] \in T.alloced /\ T.key[s[i]] \in Keys /\ hasho_func[T.key[s[i]]] = b
          /\ T.prev[s[i]] = IF i = 1 THEN 0 ELSE s[i - 1]
          /\ T.next[s[i]] = IF i = Len(s) THEN 0 ELSE s[i + 1]
    /\ \A i, j \in 1 .. Len(s) : T.key[s[i]] = T.key[s[j]] => i = j

\* c holds the chains of table T, and every allocated node is on one.
Shape(T, c) ==
    /\ \A b \in Bucket : Linked(T, b, c[b])
    /\ \A p \in T.alloced : \E b \in Bucket : \E i \in 1 .. Len(c[b]) : c[b][i] = p
    /\ T.allocedCnt = Cardinality(T.alloced)

WellFormed(T) == T \in TableType(Datas) /\ \E c \in [Bucket -> Seq(HNode)] : Shape(T, c)

-----------------------------------------------------------------------------
(* The chains                                                              *)

(* A chain is no longer than there are nodes.                              *)
LEMMA ChainFits ==
    ASSUME NEW T, NEW b, NEW s, Linked(T, b, s)
    PROVE  Len(s) \in Nat /\ Len(s) <= TotCnt /\ \A i \in 1 .. Len(s) : s[i] \in HNode /\ s[i] # 0
  <1>0. s \in Seq(HNode) /\ Len(s) \in Nat /\ s \in [1 .. Len(s) -> HNode]
    BY DEF Linked
  <1>1. s \in Injection(1 .. Len(s), HNode)
    BY <1>0 DEF Injection, IsInjective, Linked
  <1>2. /\ IsFiniteSet(HNode) /\ Cardinality(HNode) = TotCnt
        /\ Cardinality(1 .. Len(s)) = Len(s)
    <2>1. 1 \in Int /\ TotCnt \in Int /\ Len(s) \in Int /\ TotCnt >= 1
      BY <1>0, Counts
    <2>2. IsFiniteSet(1 .. TotCnt) /\ Cardinality(1 .. TotCnt) = TotCnt
      <3>1. Cardinality(1 .. TotCnt) = IF 1 > TotCnt THEN 0 ELSE TotCnt - 1 + 1
        BY <2>1, FS_Interval
      <3> QED BY <2>1, <3>1, FS_Interval
    <2>3. Cardinality(1 .. Len(s)) = Len(s)
      <3>1. Cardinality(1 .. Len(s)) = IF 1 > Len(s) THEN 0 ELSE Len(s) - 1 + 1
        BY <2>1, FS_Interval
      <3> QED BY <1>0, <3>1
    <2> QED BY <2>2, <2>3 DEF HNode
  <1>3. Len(s) <= TotCnt
    BY <1>1, <1>2, FS_Injection
  <1> QED BY <1>0, <1>3, Counts DEF HNode

(* hasho_find visits the nodes of the chain in turn, then stands still.    *)
LEMMA VisitIsChain ==
    ASSUME NEW T, NEW b, NEW s, Linked(T, b, s)
    PROVE  \A i \in 0 .. TotCnt : Visit(T, b)[i] = IF i < Len(s) THEN s[i + 1] ELSE 0
  <1> DEFINE n == Len(s)
             nx == [o \in HOffset |-> IF o = 0 THEN 0 ELSE T.next[o]]
             v == [i \in 0 .. TotCnt |-> IF i < n THEN s[i + 1] ELSE 0]
             P(f) == f = [i \in 0 .. TotCnt |-> IF i = 0 THEN T.head[b] ELSE nx[f[i - 1]]]
  <1>0. n \in Nat /\ n <= TotCnt /\ TotCnt \in Nat /\ \A i \in 1 .. n : s[i] \in HNode /\ s[i] # 0
    BY ChainFits, Counts
  <1>1. \A o \in HNode : o \in HOffset /\ (o # 0 => nx[o] = T.next[o])
    BY Counts DEF HNode, HOffset
  <1>2. nx[0] = 0
    BY Counts DEF HOffset
  <1>3. v[0] = T.head[b]
    BY <1>0 DEF Linked
  <1>4. ASSUME NEW i \in 1 .. TotCnt PROVE v[i] = nx[v[i - 1]]
    <2>1. i - 1 \in 0 .. TotCnt /\ i \in 0 .. TotCnt /\ (i - 1) + 1 = i
      BY <1>0
    <2>2. CASE i - 1 < n
      <3>1. i \in 1 .. n /\ v[i - 1] = s[i] /\ s[i] \in HNode /\ s[i] # 0
        BY <1>0, <2>1, <2>2
      <3>2. nx[v[i - 1]] = T.next[s[i]]
        BY <1>1, <3>1
      <3>3. T.next[s[i]] = IF i = n THEN 0 ELSE s[i + 1]
        BY <3>1 DEF Linked
      <3>4. v[i] = IF i = n THEN 0 ELSE s[i + 1]
        BY <1>0, <2>1, <3>1
      <3> QED BY <3>2, <3>3, <3>4
    <2>3. CASE ~ (i - 1 < n)
      <3>1. v[i - 1] = 0 /\ v[i] = 0
        BY <1>0, <2>1, <2>3
      <3> QED BY <1>2, <3>1
    <2> QED BY <2>2, <2>3
  <1>5. P(v)
    <2>1. ASSUME NEW i \in 0 .. TotCnt
          PROVE  v[i] = IF i = 0 THEN T.head[b] ELSE nx[v[i - 1]]
      <3>1. i = 0 \/ i \in 1 .. TotCnt
        BY <1>0
      <3> HIDE DEF v, nx
      <3> QED BY <1>3, <1>4, <3>1
    <2>2. v = [i \in 0 .. TotCnt |-> v[i]]
      OBVIOUS
    <2> HIDE DEF v, nx
    <2> QED BY <2>1, <2>2
  <1>6. P(CHOOSE f : P(f))
    <2> HIDE DEF P
    <2> QED BY <1>5
  <1>7. Visit(T, b) = CHOOSE f : P(f)
    BY DEF Visit
  <1> DEFINE f == Visit(T, b)
  <1>8. P(f)
    <2> HIDE DEF P
    <2> QED BY <1>6, <1>7
  <1> HIDE DEF f
  <1>9. f[0] = v[0] /\ \A i \in 1 .. TotCnt : f[i] = nx[f[i - 1]]
    <2>1. ASSUME NEW i \in 0 .. TotCnt
          PROVE  f[i] = IF i = 0 THEN T.head[b] ELSE nx[f[i - 1]]
      <3> HIDE DEF nx, v
      <3> QED BY <1>8
    <2>2. 0 \in 0 .. TotCnt /\ \A i \in 1 .. TotCnt : i \in 0 .. TotCnt /\ i # 0
      BY <1>0
    <2> HIDE DEF P, nx, v
    <2> QED BY <1>3, <2>1, <2>2
  <1> DEFINE S == {i \in Nat : i <= TotCnt => f[i] = v[i]}
  <1>10. 0 \in S
    BY <1>9
  <1>11. ASSUME NEW i \in Nat, i \in S PROVE i + 1 \in S
    <2> SUFFICES ASSUME i + 1 <= TotCnt PROVE f[i + 1] = v[i + 1]
      OBVIOUS
    <2>1. i + 1 \in 1 .. TotCnt /\ (i + 1) - 1 = i /\ f[i] = v[i]
      BY <1>0, <1>11
    <2> HIDE DEF v, nx, P
    <2> QED BY <1>4, <1>9, <2>1
  <1>12. \A i \in Nat : i \in S
    <2> HIDE DEF S
    <2> QED BY <1>10, <1>11, InductionOnSet
  <1>13. \A i \in 0 .. TotCnt : f[i] = v[i]
    <2> HIDE DEF v, nx, P
    <2> QED BY <1>0, <1>12
  <1> QED BY <1>13 DEF f

(* The chain as the code sees it is the chain of the shape.                *)
LEMMA ChainIs ==
    ASSUME NEW T, NEW b, NEW s, Linked(T, b, s)
    PROVE  Chain(T, b) = s
  <1> DEFINE n == Len(s)
             v == Visit(T, b)
             on == {i \in 0 .. TotCnt - 1 : v[i] # 0}
  <1>0. /\ n \in Nat /\ n <= TotCnt /\ TotCnt \in Nat /\ s = [i \in 1 .. n |-> s[i]]
        /\ \A i \in 1 .. n : s[i] # 0
    <2>1. s \in Seq(HNode)
      BY DEF Linked
    <2>2. s = [i \in 1 .. n |-> s[i]]
      BY <2>1
    <2> QED BY <2>2, ChainFits, Counts
  <1>1. \A i \in 0 .. TotCnt : v[i] = IF i < n THEN s[i + 1] ELSE 0
    BY VisitIsChain
  <1> HIDE DEF v
  <1>2. on = 0 .. n - 1
    BY <1>0, <1>1
  <1>3. Cardinality(on) = n
    <2>1. 0 \in Int /\ n - 1 \in Int
      BY <1>0
    <2>2. Cardinality(0 .. n - 1) = IF 0 > n - 1 THEN 0 ELSE (n - 1) - 0 + 1
      <3> HIDE DEF n
      <3> QED BY <2>1, FS_Interval
    <2> HIDE DEF on
    <2> QED BY <1>0, <1>2, <2>2
  <1>4. Chain(T, b) = [i \in 1 .. Cardinality(on) |-> v[i - 1]]
    BY DEF Chain, v
  <1>5. \A i \in 1 .. n : v[i - 1] = s[i]
    BY <1>0, <1>1
  <1> HIDE DEF on, n
  <1>6. [i \in 1 .. n |-> v[i - 1]] = [i \in 1 .. n |-> s[i]]
    BY <1>5
  <1> QED BY <1>0, <1>3, <1>4, <1>6

(* A table with a shape is exact.                                          *)
LEMMA ShapeIsExact ==
    ASSUME NEW T, NEW c \in [Bucket -> Seq(HNode)], Shape(T, c)
    PROVE  TableOK(T)
  <1>1. ASSUME NEW b \in Bucket
        PROVE  Linked(T, b, c[b]) /\ Chain(T, b) = c[b] /\ DOMAIN c[b] = 1 .. Len(c[b])
    BY ChainIs DEF Shape
  <1>2. ASSUME NEW b \in Bucket
        PROVE  LET s == Chain(T, b)
               IN  /\ \A i \in DOMAIN s :
                        /\ s[i] \in T.alloced /\ T.key[s[i]] \in Keys
                        /\ hasho_func[T.key[s[i]]] = b
                        /\ T.prev[s[i]] = (IF i = 1 THEN 0 ELSE s[i - 1])
                        /\ T.next[s[i]] = (IF i = Len(s) THEN 0 ELSE s[i + 1])
                   /\ \A i, j \in DOMAIN s : T.key[s[i]] = T.key[s[j]] => i = j
    <2> DEFINE s == c[b]
    <2>1. /\ \A i \in DOMAIN s :
                /\ s[i] \in T.alloced /\ T.key[s[i]] \in Keys
                /\ hasho_func[T.key[s[i]]] = b
                /\ T.prev[s[i]] = (IF i = 1 THEN 0 ELSE s[i - 1])
                /\ T.next[s[i]] = (IF i = Len(s) THEN 0 ELSE s[i + 1])
          /\ \A i, j \in DOMAIN s : T.key[s[i]] = T.key[s[j]] => i = j
      <3>1. Linked(T, b, s) /\ DOMAIN s = 1 .. Len(s)
        BY <1>1
      <3> HIDE DEF s
      <3> QED BY <3>1 DEF Linked
    <2>2. Chain(T, b) = s
      BY <1>1
    <2> HIDE DEF s
    <2> QED BY <2>1, <2>2
  <1>3. \A p \in T.alloced : \E b \in Bucket : \E i \in DOMAIN Chain(T, b) : Chain(T, b)[i] = p
    BY <1>1 DEF Shape
  <1>4. T.allocedCnt = Cardinality(T.alloced)
    BY DEF Shape
  <1> QED BY <1>2, <1>3, <1>4 DEF TableOK

-----------------------------------------------------------------------------
(* hasho_find                                                              *)

(* The fields of a table.                                                  *)
LEMMA Fields ==
    ASSUME NEW T \in TableType(Datas)
    PROVE  /\ T.head \in [Bucket -> HOffset] /\ T.next \in [HNode -> HOffset]
           /\ T.prev \in [HNode -> HOffset] /\ T.key \in [HNode -> Keys \cup {NoKey}]
           /\ T.data \in [HNode -> Datas \cup {NoData}] /\ T.alloced \in SUBSET HNode
           /\ T.allocedCnt \in HOffset /\ T.freeList \in HNode
  BY DEF TableType

(* A node is in one place of one chain.                                    *)
LEMMA OnePlace ==
    ASSUME NEW T, NEW c, Shape(T, c),
           NEW a \in Bucket, NEW b \in Bucket, NEW i \in 1 .. Len(c[a]), NEW j \in 1 .. Len(c[b]),
           T.key[c[a][i]] = T.key[c[b][j]]
    PROVE  a = b /\ i = j
  <1>1. Linked(T, a, c[a]) /\ Linked(T, b, c[b])
    BY DEF Shape
  <1>2. hasho_func[T.key[c[a][i]]] = a /\ hasho_func[T.key[c[b][j]]] = b
    BY <1>1 DEF Linked
  <1>3. a = b
    BY <1>2
  <1> QED BY <1>1, <1>3 DEF Linked

(* The allocated nodes have keys, each another one.                        *)
LEMMA KeysDiffer ==
    ASSUME NEW T, WellFormed(T)
    PROVE  /\ \A p \in T.alloced : T.key[p] \in Keys
           /\ \A p, q \in T.alloced : T.key[p] = T.key[q] => p = q
  <1>1. PICK c \in [Bucket -> Seq(HNode)] : Shape(T, c)
    BY DEF WellFormed
  <1>2. ASSUME NEW p \in T.alloced PROVE T.key[p] \in Keys
    <2>1. PICK b \in Bucket : \E i \in 1 .. Len(c[b]) : c[b][i] = p
      BY <1>1 DEF Shape
    <2> QED BY <1>1, <2>1 DEF Shape, Linked
  <1>3. ASSUME NEW p \in T.alloced, NEW q \in T.alloced, T.key[p] = T.key[q] PROVE p = q
    <2>10. PICK a \in Bucket : \E i \in 1 .. Len(c[a]) : c[a][i] = p
      BY <1>1 DEF Shape
    <2>1. PICK i \in 1 .. Len(c[a]) : c[a][i] = p
      BY <2>10
    <2>20. PICK b \in Bucket : \E j \in 1 .. Len(c[b]) : c[b][j] = q
      BY <1>1 DEF Shape
    <2>2. PICK j \in 1 .. Len(c[b]) : c[b][j] = q
      BY <2>20
    <2>3. a = b /\ i = j
      BY <1>1, <1>3, <2>1, <2>2, OnePlace
    <2> QED BY <2>1, <2>2, <2>3
  <1> QED BY <1>2, <1>3

(* The least of some naturals is one of them.                              *)
LEMMA MinIsIn ==
    ASSUME NEW S \in SUBSET Nat, S # {}
    PROVE  Min(S) \in S
  <1>1. \E m \in S : \A k \in S : m <= k
    BY LeastNumber
  <1> QED BY <1>1 DEF Min

(* hasho_find returns the node with the key, and 0 when there is none.     *)
LEMMA FindIs ==
    ASSUME NEW T, WellFormed(T), NEW k \in Keys
    PROVE  \/ hasho_find(T, k) \in T.alloced /\ T.key[hasho_find(T, k)] = k
           \/ hasho_find(T, k) = 0 /\ \A p \in T.alloced : T.key[p] # k
  <1>1. PICK c \in [Bucket -> Seq(HNode)] : Shape(T, c)
    BY DEF WellFormed
  <1> DEFINE b == hasho_func[k]
             s == c[b]
             hits == {i \in DOMAIN s : T.key[s[i]] = k}
  <1>2. b \in Bucket
    BY Counts
  <1>3. Linked(T, b, s) /\ Chain(T, b) = s /\ DOMAIN s = 1 .. Len(s) /\ Len(s) \in Nat
    <2>1. Linked(T, b, s)
      BY <1>1, <1>2 DEF Shape
    <2>2. s \in Seq(HNode)
      BY <1>2
    <2> HIDE DEF s, b
    <2> QED BY <2>1, <2>2, ChainIs
  <1>4. hasho_find(T, k) = IF hits = {} THEN 0 ELSE s[Min(hits)]
    <2>1. hasho_find(T, k) = LET h == {i \in DOMAIN Chain(T, b) : T.key[Chain(T, b)[i]] = k}
                             IN  IF h = {} THEN 0 ELSE Chain(T, b)[Min(h)]
      BY DEF hasho_find
    <2> HIDE DEF s, b
    <2> QED BY <1>3, <2>1
  <1>5. CASE hits = {}
    <2>1. ASSUME NEW p \in T.alloced, T.key[p] = k PROVE FALSE
      <3>10. PICK a \in Bucket : \E i \in 1 .. Len(c[a]) : c[a][i] = p
        BY <1>1 DEF Shape
      <3>1. PICK i \in 1 .. Len(c[a]) : c[a][i] = p
        BY <3>10
      <3>2. a = b
        BY <1>1, <2>1, <3>1 DEF Shape, Linked
      <3>3. i \in hits
        BY <1>3, <2>1, <3>1, <3>2
      <3> QED BY <1>5, <3>3
    <2> HIDE DEF hits, s, b
    <2> QED BY <1>4, <1>5, <2>1
  <1>6. CASE hits # {}
    <2>1. hits \in SUBSET Nat
      BY <1>3
    <2>2. Min(hits) \in hits
      <3> HIDE DEF hits
      <3> QED BY <1>6, <2>1, MinIsIn
    <2>3. Min(hits) \in 1 .. Len(s) /\ T.key[s[Min(hits)]] = k
      BY <1>3, <2>2
    <2> HIDE DEF hits, s, b
    <2>4. s[Min(hits)] \in T.alloced
      BY <1>3, <2>3 DEF Linked
    <2> QED BY <1>4, <1>6, <2>3, <2>4
  <1> QED BY <1>5, <1>6

-----------------------------------------------------------------------------
(* memg_alloc                                                              *)

(* The remainder of a number that is at most once round.                   *)
LEMMA Round ==
    ASSUME NEW n \in Nat \ {0}, NEW x \in 0 .. n - 1
    PROVE  x % n = x /\ (x + n) % n = x
  OBVIOUS

(* The search inspects headers, and comes to every one.                    *)
LEMMA ProbeIsOnto ==
    ASSUME NEW T, T.freeList \in HNode
    PROVE  /\ \A i \in Nat : Probe(T, i) \in HNode
           /\ \A q \in HNode : \E i \in 0 .. TotCnt : Probe(T, i) = q
  <1> DEFINE n == TotCnt
             f == T.freeList
  <1>0. n \in Nat \ {0} /\ f \in 1 .. n /\ HNode = 1 .. n
    BY Counts DEF HNode
  <1>1. ASSUME NEW i \in Nat PROVE Probe(T, i) \in HNode
    <2>1. (f - 1 + i) \in Nat
      BY <1>0
    <2>2. (f - 1 + i) % n \in 0 .. n - 1
      <3> HIDE DEF f, n
      <3> QED BY <1>0, <2>1
    <2> QED BY <1>0, <2>2 DEF Probe
  <1>2. ASSUME NEW q \in HNode PROVE \E i \in 0 .. TotCnt : Probe(T, i) = q
    <2>0. q - 1 \in 0 .. n - 1 /\ q \in Int
      BY <1>0
    <2>r. (q - 1) % n = q - 1 /\ ((q - 1) + n) % n = q - 1
      <3> HIDE DEF n
      <3> QED BY <1>0, <2>0, Round
    <2>1. CASE f <= q
      <3>1. q - f \in 0 .. n /\ f - 1 + (q - f) = q - 1
        BY <1>0, <2>0, <2>1
      <3>2. Probe(T, q - f) = q
        BY <2>0, <2>r, <3>1 DEF Probe
      <3> QED BY <3>1, <3>2
    <2>2. CASE q < f
      <3>1. q - f + n \in 0 .. n /\ f - 1 + (q - f + n) = (q - 1) + n
        BY <1>0, <2>0, <2>2
      <3>2. Probe(T, q - f + n) = q
        BY <2>0, <2>r, <3>1 DEF Probe
      <3> QED BY <3>1, <3>2
    <2> QED BY <1>0, <2>0, <2>1, <2>2
  <1> QED BY <1>1, <1>2

(* memg_alloc refuses only when every node is allocated, and otherwise     *)
(* marks a free one.                                                       *)
LEMMA AllocIs ==
    ASSUME NEW T \in TableType(Datas), T.allocedCnt = Cardinality(T.alloced)
    PROVE  \/ T.allocedCnt = TotCnt /\ memg_alloc(T) = [t |-> T, p |-> 0]
           \/ /\ T.allocedCnt < TotCnt
              /\ \E p \in HNode \ T.alloced, f \in HNode :
                    memg_alloc(T) = [t |-> [T EXCEPT !.alloced = @ \cup {p}, !.allocedCnt = @ + 1,
                                                     !.freeList = f], p |-> p]
  <1> DEFINE hits == {i \in 0 .. TotCnt : Probe(T, i) \notin T.alloced}
             p == Probe(T, Min(hits))
             f == Probe(T, Min(hits) + 1)
  <1>0. /\ TotCnt \in Nat /\ T.allocedCnt \in 0 .. TotCnt /\ T.alloced \subseteq HNode
        /\ T.freeList \in HNode
    BY Fields, Counts DEF HOffset
  <1>1. CASE T.allocedCnt >= TotCnt
    <2>1. memg_alloc(T) = [t |-> T, p |-> 0]
      BY <1>1 DEF memg_alloc
    <2>2. T.allocedCnt = TotCnt
      BY <1>0, <1>1
    <2> QED BY <2>1, <2>2
  <1>2. CASE ~ (T.allocedCnt >= TotCnt)
    <2>1. T.allocedCnt < TotCnt
      BY <1>0, <1>2
    <2>2. \E q \in HNode : q \notin T.alloced
      <3>1. Cardinality(HNode) = IF 1 > TotCnt THEN 0 ELSE TotCnt - 1 + 1
        <4>1. 1 \in Int /\ TotCnt \in Int
          BY <1>0
        <4> QED BY <4>1, FS_Interval DEF HNode
      <3>2. Cardinality(HNode) = TotCnt
        BY <1>0, <3>1, Counts
      <3>3. T.alloced # HNode
        BY <1>0, <2>1, <3>2
      <3> QED BY <1>0, <3>3
    <2>3. hits # {}
      BY <1>0, <2>2, ProbeIsOnto
    <2>4. hits \in SUBSET Nat
      BY <1>0
    <2>5. Min(hits) \in hits
      <3> HIDE DEF hits
      <3> QED BY <2>3, <2>4, MinIsIn
    <2>6. p \in HNode \ T.alloced /\ f \in HNode
      <3>1. Min(hits) \in Nat /\ Min(hits) + 1 \in Nat /\ Probe(T, Min(hits)) \notin T.alloced
        <4>1. \A i \in hits : i \in Nat /\ i + 1 \in Nat /\ Probe(T, i) \notin T.alloced
          BY <2>4
        <4> HIDE DEF hits
        <4> QED BY <2>5, <4>1
      <3> HIDE DEF hits
      <3> QED BY <1>0, <3>1, ProbeIsOnto
    <2>7. memg_alloc(T) = [t |-> [T EXCEPT !.alloced = @ \cup {p}, !.allocedCnt = @ + 1,
                                           !.freeList = f], p |-> p]
      <3>1. memg_alloc(T) =
              IF T.allocedCnt >= TotCnt THEN [t |-> T, p |-> 0]
              ELSE IF hits = {} THEN [t |-> [T EXCEPT !.freeList = Probe(T, TotCnt + 1)], p |-> 0]
              ELSE [t |-> [T EXCEPT !.alloced = @ \cup {p}, !.allocedCnt = @ + 1,
                                    !.freeList = f], p |-> p]
        BY DEF memg_alloc
      <3> HIDE DEF hits, p, f
      <3> QED BY <1>2, <2>3, <3>1
    <2> HIDE DEF hits, p, f
    <2> QED BY <2>1, <2>6, <2>7
  <1> QED BY <1>1, <1>2

-----------------------------------------------------------------------------
(* hasho_add: the new node comes in front of its chain                     *)

\* The table with node p taken from the allocator, as AllocIs gives it.
Taken(T, p, f) ==
    [T EXCEPT !.alloced = @ \cup {p}, !.allocedCnt = @ + 1, !.freeList = f]

Linking(T, p, f, k, d) == hasho_link_node(FillBody(Taken(T, p, f), p, k, d), p)

LinkWrites(U, T, p, k, d) ==
    LET b   == hasho_func[k]
        old == T.head[b]
    IN  /\ U \in TableType(Datas)
        /\ U.head = [T.head EXCEPT ![b] = p]
        /\ U.next = [T.next EXCEPT ![p] = old]
        /\ U.prev = [q \in HNode |-> IF q = p THEN 0 ELSE IF q = old THEN p ELSE T.prev[q]]
        /\ U.key = [T.key EXCEPT ![p] = k] /\ U.data = [T.data EXCEPT ![p] = d]
        /\ U.alloced = T.alloced \cup {p} /\ U.allocedCnt = T.allocedCnt + 1

(* What linking a node writes.                                             *)
LEMMA LinkFields ==
    ASSUME NEW T \in TableType(Datas), NEW c \in [Bucket -> Seq(HNode)], Shape(T, c),
           T.allocedCnt < TotCnt,
           NEW p \in HNode \ T.alloced, NEW f \in HNode, NEW k \in Keys, NEW d \in Datas
    PROVE  LinkWrites(Linking(T, p, f, k, d), T, p, k, d)
  <1> DEFINE A == Taken(T, p, f)
             F == FillBody(A, p, k, d)
             U == Linking(T, p, f, k, d)
             b == hasho_func[k]
             old == T.head[b]
             pv == [q \in HNode |-> IF q = p THEN 0 ELSE IF q = old THEN p ELSE T.prev[q]]
  <1>t. /\ T.head \in [Bucket -> HOffset] /\ T.next \in [HNode -> HOffset]
        /\ T.prev \in [HNode -> HOffset] /\ T.key \in [HNode -> Keys \cup {NoKey}]
        /\ T.data \in [HNode -> Datas \cup {NoData}] /\ T.alloced \in SUBSET HNode
        /\ T.allocedCnt \in HOffset /\ T.freeList \in HNode
    BY Fields
  <1>o. 0 \in HOffset /\ 0 \notin HNode /\ HNode \subseteq HOffset /\ T.allocedCnt + 1 \in HOffset
    <2>1. T.allocedCnt \in 0 .. TotCnt /\ TotCnt \in Nat
      BY <1>t, Counts DEF HOffset
    <2>2. T.allocedCnt + 1 \in 0 .. TotCnt
      BY <2>1
    <2>3. 0 \in HOffset /\ 0 \notin HNode /\ HNode \subseteq HOffset
      BY Counts DEF HOffset, HNode
    <2> QED BY <2>2, <2>3 DEF HOffset
  <1>b. b \in Bucket /\ old \in HOffset
    BY <1>t, Counts
  <1>h. old # 0 => /\ old \in HNode /\ old # p /\ T.prev[old] = 0
    <2> SUFFICES ASSUME old # 0 PROVE old \in HNode /\ old # p /\ T.prev[old] = 0
      OBVIOUS
    <2> DEFINE s == c[b]
    <2>1. Linked(T, b, s)
      BY <1>b DEF Shape
    <2> HIDE DEF s
    <2>2. Len(s) \in Nat /\ Len(s) # 0 /\ old = s[1]
      BY <2>1 DEF Linked
    <2>3. 1 \in 1 .. Len(s)
      BY <2>2
    <2>4. s[1] \in T.alloced /\ T.prev[s[1]] = 0
      BY <2>1, <2>3 DEF Linked
    <2> QED BY <1>t, <2>2, <2>4
  <1> HIDE DEF old, b, pv
  <1>1. /\ A \in TableType(Datas)
        /\ A.head = T.head /\ A.next = T.next /\ A.prev = T.prev /\ A.key = T.key
        /\ A.data = T.data /\ A.alloced = T.alloced \cup {p} /\ A.allocedCnt = T.allocedCnt + 1
    <2>1. T.alloced \cup {p} \in SUBSET HNode
      BY <1>t
    <2> QED BY <1>o, <2>1 DEF TableType, Taken
  <1> HIDE DEF A
  <1>2. /\ F \in TableType(Datas)
        /\ F.head = A.head /\ F.next = [A.next EXCEPT ![p] = 0]
        /\ F.prev = [A.prev EXCEPT ![p] = 0] /\ F.key = [A.key EXCEPT ![p] = k]
        /\ F.data = [A.data EXCEPT ![p] = d] /\ F.alloced = A.alloced
        /\ F.allocedCnt = A.allocedCnt
    BY <1>1, <1>o DEF TableType, FillBody
  <1> HIDE DEF F
  <1>3. U = hasho_link_node(F, p) /\ F.key[p] = k /\ F.head[b] = old
    BY <1>1, <1>2, <1>t DEF Linking, F, A, old
  <1> HIDE DEF U
  <1>p. pv \in [HNode -> HOffset]
    BY <1>t, <1>o DEF pv
  <1>4. /\ U \in TableType(Datas)
        /\ U.head = [T.head EXCEPT ![b] = p] /\ U.next = [T.next EXCEPT ![p] = old] /\ U.prev = pv
        /\ U.key = F.key /\ U.data = F.data /\ U.alloced = F.alloced /\ U.allocedCnt = F.allocedCnt
    <2>1. CASE old = 0
      <3>1. U = [F EXCEPT !.head[b] = p]
        BY <1>3, <2>1 DEF hasho_link_node, b
      <3>2. pv = [T.prev EXCEPT ![p] = 0] /\ [T.next EXCEPT ![p] = 0] = [T.next EXCEPT ![p] = old]
        BY <1>t, <1>o, <2>1 DEF pv
      <3>3. /\ U \in TableType(Datas)
            /\ U.head = [F.head EXCEPT ![b] = p] /\ U.next = F.next /\ U.prev = F.prev
            /\ U.key = F.key /\ U.data = F.data /\ U.alloced = F.alloced
            /\ U.allocedCnt = F.allocedCnt
        BY <1>2, <1>o, <1>b, <3>1 DEF TableType
      <3> QED BY <1>1, <1>2, <3>2, <3>3
    <2>2. CASE old # 0
      <3>1. F.prev[old] = 0
        BY <1>1, <1>2, <1>t, <1>h, <2>2
      <3>2. U = [F EXCEPT !.prev[p] = 0, !.prev[old] = p, !.next[p] = old, !.head[b] = p]
        BY <1>3, <2>2, <3>1 DEF hasho_link_node, b
      <3>3. pv = [[[T.prev EXCEPT ![p] = 0] EXCEPT ![p] = 0] EXCEPT ![old] = p]
        BY <1>t, <1>h, <2>2 DEF pv
      <3>4. [[T.next EXCEPT ![p] = 0] EXCEPT ![p] = old] = [T.next EXCEPT ![p] = old]
        BY <1>t
      <3>5. /\ U \in TableType(Datas)
            /\ U.head = [F.head EXCEPT ![b] = p] /\ U.next = [F.next EXCEPT ![p] = old]
            /\ U.prev = [[F.prev EXCEPT ![p] = 0] EXCEPT ![old] = p]
            /\ U.key = F.key /\ U.data = F.data /\ U.alloced = F.alloced
            /\ U.allocedCnt = F.allocedCnt
        BY <1>2, <1>o, <1>b, <1>h, <2>2, <3>2 DEF TableType
      <3> QED BY <1>1, <1>2, <3>3, <3>4, <3>5
    <2> QED BY <2>1, <2>2
  <1> QED BY <1>1, <1>2, <1>4 DEF LinkWrites, U, b, old, pv

(* Linking puts the node in front of the chain of its bucket, and leaves   *)
(* the other chains alone.                                                 *)
LEMMA LinkShape ==
    ASSUME NEW T \in TableType(Datas), NEW c \in [Bucket -> Seq(HNode)], Shape(T, c),
           T.allocedCnt < TotCnt,
           NEW p \in HNode \ T.alloced, NEW f \in HNode, NEW k \in Keys, NEW d \in Datas,
           \A q \in T.alloced : T.key[q] # k
    PROVE  WellFormed(Linking(T, p, f, k, d))
  <1> DEFINE U == Linking(T, p, f, k, d)
             b == hasho_func[k]
             old == T.head[b]
             s == c[b]
             n == Len(s)
             s1 == [i \in 1 .. n + 1 |-> IF i = 1 THEN p ELSE s[i - 1]]
             c1 == [x \in Bucket |-> IF x = b THEN s1 ELSE c[x]]
  <1>t. /\ T.head \in [Bucket -> HOffset] /\ T.next \in [HNode -> HOffset]
        /\ T.prev \in [HNode -> HOffset] /\ T.key \in [HNode -> Keys \cup {NoKey}]
        /\ T.alloced \in SUBSET HNode /\ p \notin T.alloced /\ p \in HNode
    BY Fields
  <1>o. 0 \notin HNode /\ p # 0
    BY Counts DEF HNode
  <1>u. /\ U \in TableType(Datas)
        /\ U.head = [T.head EXCEPT ![b] = p] /\ U.next = [T.next EXCEPT ![p] = old]
        /\ U.prev = [q \in HNode |-> IF q = p THEN 0 ELSE IF q = old THEN p ELSE T.prev[q]]
        /\ U.key = [T.key EXCEPT ![p] = k]
        /\ U.alloced = T.alloced \cup {p} /\ U.allocedCnt = T.allocedCnt + 1
    <2>1. LinkWrites(U, T, p, k, d)
      <3> HIDE DEF s1, c1, s, n
      <3> QED BY LinkFields
    <2> HIDE DEF U
    <2> QED BY <2>1 DEF LinkWrites
  <1> HIDE DEF U
  <1>b. b \in Bucket /\ Linked(T, b, s) /\ n \in Nat /\ s \in Seq(HNode)
    <2>1. b \in Bucket
      BY Counts
    <2> HIDE DEF b
    <2>2. Linked(T, b, s) /\ s \in Seq(HNode)
      BY <2>1 DEF Shape
    <2> QED BY <2>1, <2>2
  <1> HIDE DEF b
  <1>v. ASSUME NEW q \in T.alloced
        PROVE  /\ q \in HNode /\ q # p /\ U.key[q] = T.key[q] /\ U.next[q] = T.next[q]
               /\ U.prev[q] = IF q = old THEN p ELSE T.prev[q]
    <2> HIDE DEF old
    <2> QED BY <1>t, <1>u
  <1>w. U.key[p] = k /\ U.next[p] = old /\ U.prev[p] = 0
    <2> HIDE DEF old
    <2> QED BY <1>t, <1>u
  <1>s. /\ \A i \in 1 .. n : s[i] \in T.alloced
        /\ old = IF n = 0 THEN 0 ELSE s[1]
    BY <1>b DEF Linked
  <1> HIDE DEF old
  <1>1. s1 \in Seq(HNode) /\ Len(s1) = n + 1 /\ c1 \in [Bucket -> Seq(HNode)]
    <2>1. \A i \in 1 .. n + 1 : (IF i = 1 THEN p ELSE s[i - 1]) \in HNode
      BY <1>t, <1>b, <1>s
    <2>2. s1 \in [1 .. n + 1 -> HNode] /\ n + 1 \in Nat
      <3> HIDE DEF n
      <3> QED BY <1>b, <2>1
    <2>3. s1 \in Seq(HNode) /\ Len(s1) = n + 1
      <3> HIDE DEF s1, n
      <3> QED BY <2>2
    <2> HIDE DEF s1
    <2> QED BY <2>3
  <1>2. s1[1] = p /\ \A i \in 2 .. n + 1 : i - 1 \in 1 .. n /\ s1[i] = s[i - 1]
    BY <1>b
  <1>3. Linked(U, b, s1)
    <2>1. U.head[b] = IF Len(s1) = 0 THEN 0 ELSE s1[1]
      <3>1. U.head[b] = p
        BY <1>b, <1>t, <1>u
      <3> HIDE DEF s1, n
      <3> QED BY <1>1, <1>2, <1>b, <3>1
    <2>2. ASSUME NEW i \in 1 .. Len(s1)
          PROVE  /\ s1[i] \in U.alloced /\ U.key[s1[i]] \in Keys /\ hasho_func[U.key[s1[i]]] = b
                 /\ U.prev[s1[i]] = IF i = 1 THEN 0 ELSE s1[i - 1]
                 /\ U.next[s1[i]] = IF i = Len(s1) THEN 0 ELSE s1[i + 1]
      <3>1. CASE i = 1
        <4>1. s1[i] = p /\ p \in U.alloced /\ U.key[p] \in Keys /\ hasho_func[U.key[p]] = b
              /\ U.prev[p] = 0
          <5> HIDE DEF s1
          <5> QED BY <1>2, <1>u, <1>w, <3>1 DEF b
        <4>2. old = IF 1 = n + 1 THEN 0 ELSE s1[2]
          <5>1. n # 0 => 2 \in 2 .. n + 1 /\ s1[2] = s[1]
            <6> HIDE DEF s1
            <6> QED BY <1>2, <1>b
          <5> HIDE DEF s1
          <5> QED BY <1>s, <1>b, <5>1
        <4> HIDE DEF s1, n, s
        <4> QED BY <1>1, <1>w, <3>1, <4>1, <4>2
      <3>2. CASE i # 1
        <4>1. i \in 2 .. n + 1 /\ i - 1 \in 1 .. n
          BY <1>1, <1>b, <3>2
        <4> DEFINE q == s[i - 1]
                   j == i - 1
        <4>2. s1[i] = q /\ q \in T.alloced
          <5> HIDE DEF s1
          <5> QED BY <1>2, <1>s, <4>1
        <4>3. /\ T.key[q] \in Keys /\ hasho_func[T.key[q]] = b
              /\ T.prev[q] = IF j = 1 THEN 0 ELSE s[j - 1]
              /\ T.next[q] = IF j = n THEN 0 ELSE s[j + 1]
          <5> HIDE DEF s
          <5> QED BY <1>b, <4>1 DEF Linked
        <4>4. U.next[q] = IF i = Len(s1) THEN 0 ELSE s1[i + 1]
          <5>1. i # n + 1 => i + 1 \in 2 .. n + 1 /\ s1[i + 1] = s[i]
            <6>1. i # n + 1 => i + 1 \in 2 .. n + 1 /\ (i + 1) - 1 = i
              BY <1>b, <4>1
            <6> HIDE DEF s1, n
            <6> QED BY <1>2, <6>1
          <5>2. U.next[q] = T.next[q]
            BY <1>v, <4>2
          <5>3. (j = n <=> i = n + 1) /\ j + 1 = i
            BY <1>b, <4>1
          <5> HIDE DEF s1, n, j, q
          <5> QED BY <1>1, <4>3, <5>1, <5>2, <5>3
        <4>5. U.prev[q] = s1[i - 1]
          <5>1. CASE j = 1
            <6>1. q = old /\ s1[i - 1] = p
              <7> HIDE DEF s1
              <7> QED BY <1>2, <1>s, <1>b, <4>1, <5>1
            <6> QED BY <1>v, <4>2, <6>1
          <5>2. CASE j # 1
            <6>1. q # old
              <7>1. old = s[1] /\ 1 \in 1 .. n
                BY <1>s, <1>b, <4>1
              <7>2. T.key[s[j]] = T.key[s[1]] => j = 1
                <8> HIDE DEF s
                <8> QED BY <1>b, <4>1, <7>1 DEF Linked
              <7> QED BY <5>2, <7>1, <7>2
            <6>2. s1[i - 1] = s[j - 1]
              <7>1. i - 1 \in 2 .. n + 1 /\ (i - 1) - 1 = j - 1
                BY <1>b, <4>1, <5>2
              <7> HIDE DEF s1, n
              <7> QED BY <1>2, <7>1
            <6> HIDE DEF s1, q, j, n
            <6> QED BY <1>v, <4>2, <4>3, <5>2, <6>1, <6>2
          <5> QED BY <5>1, <5>2
        <4>6. q \in U.alloced /\ U.key[q] = T.key[q]
          BY <1>u, <1>v, <4>2
        <4> HIDE DEF s1, q, j, n
        <4> QED BY <3>2, <4>2, <4>3, <4>4, <4>5, <4>6
      <3> QED BY <3>1, <3>2
    <2>3. ASSUME NEW i \in 1 .. Len(s1), NEW j \in 1 .. Len(s1), U.key[s1[i]] = U.key[s1[j]]
          PROVE  i = j
      <3>1. ASSUME NEW x \in 2 .. n + 1
            PROVE  s1[x] = s[x - 1] /\ U.key[s1[x]] = T.key[s[x - 1]] /\ U.key[s1[x]] # k
        <4>1. x - 1 \in 1 .. n /\ s1[x] = s[x - 1] /\ s[x - 1] \in T.alloced
          <5> HIDE DEF s1
          <5> QED BY <1>2, <1>s
        <4> HIDE DEF s1
        <4> QED BY <1>v, <4>1
      <3>2. U.key[s1[1]] = k
        <4> HIDE DEF s1
        <4> QED BY <1>2, <1>w
      <3>3. (i = 1 \/ i \in 2 .. n + 1) /\ (j = 1 \/ j \in 2 .. n + 1)
        BY <1>1, <1>b
      <3>4. CASE i \in 2 .. n + 1 /\ j \in 2 .. n + 1
        <4>1. T.key[s[i - 1]] = T.key[s[j - 1]] /\ i - 1 \in 1 .. n /\ j - 1 \in 1 .. n
          <5> HIDE DEF s1
          <5> QED BY <1>2, <2>3, <3>1, <3>4
        <4>2. i - 1 = j - 1
          <5> HIDE DEF s
          <5> QED BY <1>b, <4>1 DEF Linked
        <4> QED BY <3>4, <4>2
      <3> HIDE DEF s1
      <3> QED BY <2>3, <3>1, <3>2, <3>3, <3>4
    <2> HIDE DEF s1
    <2> QED BY <1>1, <2>1, <2>2, <2>3 DEF Linked
  <1>4. ASSUME NEW x \in Bucket, x # b PROVE Linked(U, x, c[x])
    <2> DEFINE r == c[x]
    <2>1. Linked(T, x, r)
      BY DEF Shape
    <2>2. U.head[x] = T.head[x]
      BY <1>4, <1>t, <1>u
    <2> HIDE DEF r
    <2>3. ASSUME NEW i \in 1 .. Len(r)
          PROVE  /\ r[i] \in T.alloced /\ r[i] \in U.alloced /\ U.key[r[i]] = T.key[r[i]]
                 /\ U.next[r[i]] = T.next[r[i]] /\ U.prev[r[i]] = T.prev[r[i]]
      <3>1. r[i] \in T.alloced /\ hasho_func[T.key[r[i]]] = x
        BY <2>1 DEF Linked
      <3>2. r[i] # old
        <4>1. CASE n = 0
          BY <1>s, <1>o, <1>t, <3>1, <4>1
        <4>2. CASE n # 0
          <5>1. 1 \in 1 .. n /\ old = s[1]
            BY <1>s, <1>b, <4>2
          <5>2. hasho_func[T.key[s[1]]] = b
            <6> HIDE DEF s
            <6> QED BY <1>b, <5>1 DEF Linked
          <5> QED BY <1>4, <3>1, <5>1, <5>2
        <4> QED BY <4>1, <4>2
      <3> QED BY <1>u, <1>v, <3>1, <3>2
    <2>4. /\ r \in Seq(HNode) /\ U.head[x] = IF Len(r) = 0 THEN 0 ELSE r[1]
      BY <2>1, <2>2 DEF Linked
    <2>5. \A i \in 1 .. Len(r) :
             /\ r[i] \in U.alloced /\ U.key[r[i]] \in Keys /\ hasho_func[U.key[r[i]]] = x
             /\ U.prev[r[i]] = IF i = 1 THEN 0 ELSE r[i - 1]
             /\ U.next[r[i]] = IF i = Len(r) THEN 0 ELSE r[i + 1]
      BY <2>1, <2>3 DEF Linked
    <2>6. \A i, j \in 1 .. Len(r) : U.key[r[i]] = U.key[r[j]] => i = j
      BY <2>1, <2>3 DEF Linked
    <2>7. Linked(U, x, r)
      BY <2>4, <2>5, <2>6 DEF Linked
    <2> QED BY <2>7 DEF r
  <1>5. \A q \in U.alloced : \E x \in Bucket : \E i \in 1 .. Len(c1[x]) : c1[x][i] = q
    <2> SUFFICES ASSUME NEW q \in U.alloced
                 PROVE  \E x \in Bucket : \E i \in 1 .. Len(c1[x]) : c1[x][i] = q
      OBVIOUS
    <2>0. c1[b] = s1 /\ \A x \in Bucket : x # b => c1[x] = c[x]
      <3> HIDE DEF s1
      <3> QED BY <1>b
    <2>1. CASE q = p
      <3>1. 1 \in 1 .. Len(s1) /\ s1[1] = p
        <4> HIDE DEF s1
        <4> QED BY <1>1, <1>2, <1>b
      <3> HIDE DEF s1, c1
      <3> QED BY <1>b, <2>0, <2>1, <3>1
    <2>2. CASE q \in T.alloced
      <3>0. PICK x \in Bucket : \E i \in 1 .. Len(c[x]) : c[x][i] = q
        BY <2>2 DEF Shape
      <3>1. PICK i \in 1 .. Len(c[x]) : c[x][i] = q
        BY <3>0
      <3>2. CASE x = b
        <4>1. i + 1 \in 2 .. n + 1 /\ (i + 1) - 1 = i /\ i + 1 \in 1 .. Len(s1)
          BY <1>1, <1>b, <3>2
        <4>2. s1[i + 1] = q
          <5>1. s1[i + 1] = s[(i + 1) - 1]
            <6> HIDE DEF s1, n
            <6> QED BY <1>2, <4>1
          <5> QED BY <3>1, <3>2, <4>1, <5>1
        <4> HIDE DEF s1, c1
        <4> QED BY <1>b, <2>0, <4>1, <4>2
      <3>3. CASE x # b
        <4> HIDE DEF s1, c1
        <4> QED BY <2>0, <3>1, <3>3
      <3> QED BY <3>2, <3>3
    <2> QED BY <1>u, <2>1, <2>2
  <1>6. U.allocedCnt = Cardinality(U.alloced)
    <2>1. IsFiniteSet(T.alloced)
      <3>1. IsFiniteSet(HNode)
        <4>1. 1 \in Int /\ TotCnt \in Int
          BY Counts
        <4> QED BY <4>1, FS_Interval DEF HNode
      <3> QED BY <1>t, <3>1, FS_Subset
    <2>2. T.allocedCnt = Cardinality(T.alloced)
      BY DEF Shape
    <2>3. Cardinality(T.alloced \cup {p}) = Cardinality(T.alloced) + 1
      BY <1>t, <2>1, FS_AddElement
    <2> QED BY <1>u, <2>2, <2>3
  <1>7. Shape(U, c1)
    <2>1. ASSUME NEW x \in Bucket PROVE Linked(U, x, c1[x])
      <3> HIDE DEF s1
      <3> QED BY <1>3, <1>4
    <2> HIDE DEF c1
    <2> QED BY <1>5, <1>6, <2>1 DEF Shape
  <1> HIDE DEF c1
  <1> QED BY <1>1, <1>7, <1>u DEF WellFormed, U

-----------------------------------------------------------------------------
(* hasho_del: the node is taken out of its chain and freed                 *)

Unlinking(T, p) == memg_free(hasho_unlink_node(T, p), p)

UnlinkWrites(U, T, p) ==
    LET b  == hasho_func[T.key[p]]
        pr == T.prev[p]
        nx == T.next[p]
    IN  /\ U \in TableType(Datas)
        /\ U.head = [x \in Bucket |-> IF pr = 0 /\ x = b THEN nx ELSE T.head[x]]
        /\ U.next = [q \in HNode |-> IF q = pr THEN nx ELSE T.next[q]]
        /\ U.prev = [q \in HNode |-> IF q = nx THEN pr ELSE T.prev[q]]
        /\ U.key = T.key /\ U.data = T.data
        /\ U.alloced = T.alloced \ {p} /\ U.allocedCnt = T.allocedCnt - 1

(* What taking a node out writes.                                          *)
LEMMA UnlinkFields ==
    ASSUME NEW T \in TableType(Datas), NEW p \in T.alloced, T.key[p] \in Keys,
           T.allocedCnt = Cardinality(T.alloced)
    PROVE  UnlinkWrites(Unlinking(T, p), T, p)
  <1> DEFINE b == hasho_func[T.key[p]]
             pr == T.prev[p]
             nx == T.next[p]
             W == ForwardUnlink(T, p)
             V == hasho_unlink_node(T, p)
             U == Unlinking(T, p)
             hd == [x \in Bucket |-> IF pr = 0 /\ x = b THEN nx ELSE T.head[x]]
             fw == [q \in HNode |-> IF q = pr THEN nx ELSE T.next[q]]
             bw == [q \in HNode |-> IF q = nx THEN pr ELSE T.prev[q]]
  <1>t. /\ T.head \in [Bucket -> HOffset] /\ T.next \in [HNode -> HOffset]
        /\ T.prev \in [HNode -> HOffset] /\ T.key \in [HNode -> Keys \cup {NoKey}]
        /\ T.data \in [HNode -> Datas \cup {NoData}] /\ T.alloced \in SUBSET HNode
        /\ T.allocedCnt \in HOffset /\ T.freeList \in HNode /\ p \in HNode
    BY Fields
  <1>o. 0 \notin HNode /\ \A q \in HOffset : q # 0 => q \in HNode
    BY Counts DEF HOffset, HNode
  <1>b. b \in Bucket /\ pr \in HOffset /\ nx \in HOffset
    BY <1>t, Counts
  <1>c. T.allocedCnt - 1 \in HOffset
    <2>1. IsFiniteSet(T.alloced)
      <3>1. IsFiniteSet(HNode)
        <4>1. 1 \in Int /\ TotCnt \in Int
          BY Counts
        <4> QED BY <4>1, FS_Interval DEF HNode
      <3> QED BY <1>t, <3>1, FS_Subset
    <2>2. T.allocedCnt # 0
      BY <2>1, FS_EmptySet
    <2> QED BY <1>t, <2>2, Counts DEF HOffset
  <1> HIDE DEF b, pr, nx
  <1>h. hd \in [Bucket -> HOffset] /\ fw \in [HNode -> HOffset] /\ bw \in [HNode -> HOffset]
    BY <1>t, <1>b
  <1>1. /\ W \in TableType(Datas) /\ W.head = hd /\ W.next = fw /\ W.prev = T.prev
        /\ W.key = T.key /\ W.data = T.data /\ W.alloced = T.alloced
        /\ W.allocedCnt = T.allocedCnt
    <2>1. CASE pr # 0
      <3>1. W = [T EXCEPT !.next[pr] = nx]
        BY <2>1 DEF ForwardUnlink, pr, nx
      <3>2. hd = T.head /\ fw = [T.next EXCEPT ![pr] = nx]
        BY <1>t, <1>o, <1>b, <2>1
      <3> HIDE DEF W, hd, fw
      <3>3. /\ W \in TableType(Datas) /\ W.head = T.head /\ W.next = [T.next EXCEPT ![pr] = nx]
            /\ W.prev = T.prev /\ W.key = T.key /\ W.data = T.data /\ W.alloced = T.alloced
            /\ W.allocedCnt = T.allocedCnt
        BY <1>b, <3>1 DEF TableType
      <3> QED BY <3>2, <3>3
    <2>2. CASE pr = 0
      <3>1. W = [T EXCEPT !.head[b] = nx]
        BY <2>2 DEF ForwardUnlink, pr, nx, b
      <3>2. hd = [T.head EXCEPT ![b] = nx] /\ fw = T.next
        BY <1>t, <1>o, <1>b, <2>2
      <3> HIDE DEF W, hd, fw
      <3>3. /\ W \in TableType(Datas) /\ W.head = [T.head EXCEPT ![b] = nx] /\ W.next = T.next
            /\ W.prev = T.prev /\ W.key = T.key /\ W.data = T.data /\ W.alloced = T.alloced
            /\ W.allocedCnt = T.allocedCnt
        BY <1>b, <3>1 DEF TableType
      <3> QED BY <3>2, <3>3
    <2> QED BY <2>1, <2>2
  <1> HIDE DEF W, hd, fw
  <1>2. /\ V \in TableType(Datas) /\ V.head = hd /\ V.next = fw /\ V.prev = bw
        /\ V.key = T.key /\ V.data = T.data /\ V.alloced = T.alloced
        /\ V.allocedCnt = T.allocedCnt
    <2>1. CASE nx = 0
      <3>1. V = W
        BY <2>1 DEF hasho_unlink_node, W, nx
      <3>2. bw = T.prev
        BY <1>t, <1>o, <2>1
      <3> HIDE DEF V, bw
      <3> QED BY <1>1, <3>1, <3>2
    <2>2. CASE nx # 0
      <3>1. V = [W EXCEPT !.prev[nx] = pr]
        BY <2>2 DEF hasho_unlink_node, W, nx, pr
      <3>2. bw = [T.prev EXCEPT ![nx] = pr]
        BY <1>t, <1>o, <1>b, <2>2
      <3> HIDE DEF V, bw
      <3>3. /\ V \in TableType(Datas) /\ V.head = W.head /\ V.next = W.next
            /\ V.prev = [W.prev EXCEPT ![nx] = pr] /\ V.key = W.key /\ V.data = W.data
            /\ V.alloced = W.alloced /\ V.allocedCnt = W.allocedCnt
        BY <1>1, <1>b, <3>1 DEF TableType
      <3> QED BY <1>1, <3>2, <3>3
    <2> QED BY <2>1, <2>2
  <1> HIDE DEF bw
  <1>3. U = [V EXCEPT !.alloced = @ \ {p}, !.allocedCnt = @ - 1]
    <2>1. U = memg_free(V, p)
      BY DEF Unlinking
    <2> HIDE DEF U, V
    <2> QED BY <1>2, <2>1 DEF memg_free
  <1> HIDE DEF U, V
  <1>4. /\ U \in TableType(Datas) /\ U.head = V.head /\ U.next = V.next /\ U.prev = V.prev
        /\ U.key = V.key /\ U.data = V.data /\ U.alloced = V.alloced \ {p}
        /\ U.allocedCnt = V.allocedCnt - 1
    BY <1>2, <1>3, <1>c DEF TableType
  <1> QED BY <1>2, <1>4 DEF UnlinkWrites, U, hd, fw, bw, b, pr, nx

(* Taking a node out shortens its chain by it.                             *)
LEMMA UnlinkShape ==
    ASSUME NEW T \in TableType(Datas), NEW c \in [Bucket -> Seq(HNode)], Shape(T, c),
           NEW p \in T.alloced
    PROVE  WellFormed(Unlinking(T, p)) /\ UnlinkWrites(Unlinking(T, p), T, p)
  <1> DEFINE U == Unlinking(T, p)
             b == hasho_func[T.key[p]]
             pr == T.prev[p]
             nx == T.next[p]
             s == c[b]
             n == Len(s)
  <1>k. WellFormed(T)
    BY DEF WellFormed
  <1>t. /\ T.head \in [Bucket -> HOffset] /\ T.next \in [HNode -> HOffset]
        /\ T.prev \in [HNode -> HOffset] /\ T.alloced \in SUBSET HNode /\ T.key[p] \in Keys
    BY <1>k, KeysDiffer, Fields
  <1>o. 0 \notin HNode
    BY Counts DEF HNode
  <1>w. UnlinkWrites(U, T, p)
    <2>1. T.allocedCnt = Cardinality(T.alloced)
      BY DEF Shape
    <2> HIDE DEF s, n
    <2> QED BY <1>t, <2>1, UnlinkFields
  <1> HIDE DEF U
  <1>u. /\ U \in TableType(Datas)
        /\ U.head = [x \in Bucket |-> IF pr = 0 /\ x = b THEN nx ELSE T.head[x]]
        /\ U.next = [q \in HNode |-> IF q = pr THEN nx ELSE T.next[q]]
        /\ U.prev = [q \in HNode |-> IF q = nx THEN pr ELSE T.prev[q]]
        /\ U.key = T.key /\ U.alloced = T.alloced \ {p} /\ U.allocedCnt = T.allocedCnt - 1
    BY <1>w DEF UnlinkWrites
  <1>a. PICK a \in Bucket : \E i \in 1 .. Len(c[a]) : c[a][i] = p
    BY DEF Shape
  <1>b. b \in Bucket /\ Linked(T, b, s) /\ n \in Nat /\ s \in Seq(HNode) /\ a = b
    <2>1. b \in Bucket
      BY <1>t, Counts
    <2>2. a = b
      BY <1>a DEF Shape, Linked
    <2> HIDE DEF b
    <2>3. Linked(T, b, s) /\ s \in Seq(HNode)
      BY <2>1 DEF Shape
    <2> QED BY <2>1, <2>2, <2>3
  <1>j. PICK j \in 1 .. n : s[j] = p
    BY <1>a, <1>b
  <1> HIDE DEF b, s, n
  <1>s. ASSUME NEW i \in 1 .. n
        PROVE  /\ s[i] \in T.alloced /\ s[i] \in HNode /\ T.key[s[i]] \in Keys
               /\ hasho_func[T.key[s[i]]] = b
               /\ T.prev[s[i]] = IF i = 1 THEN 0 ELSE s[i - 1]
               /\ T.next[s[i]] = IF i = n THEN 0 ELSE s[i + 1]
    BY <1>b, <1>t DEF Linked, n
  <1>i. ASSUME NEW x \in 1 .. n, NEW y \in 1 .. n, s[x] = s[y] \/ T.key[s[x]] = T.key[s[y]]
        PROVE  x = y
    BY <1>b, <1>i DEF Linked, n
  <1>p. pr = (IF j = 1 THEN 0 ELSE s[j - 1]) /\ nx = (IF j = n THEN 0 ELSE s[j + 1])
    BY <1>s, <1>j
  <1> HIDE DEF pr, nx
  <1>q. ASSUME NEW q \in HNode
        PROVE  /\ U.next[q] = IF q = pr THEN nx ELSE T.next[q]
               /\ U.prev[q] = IF q = nx THEN pr ELSE T.prev[q]
    BY <1>u
  <1> DEFINE s1 == [i \in 1 .. n - 1 |-> IF i < j THEN s[i] ELSE s[i + 1]]
             c1 == [x \in Bucket |-> IF x = b THEN s1 ELSE c[x]]
  <1>0. n - 1 \in Nat /\ j \in Int /\ n \in Nat /\ 1 <= j /\ j <= n
    BY <1>b, <1>j
  <1>1. s1 \in Seq(HNode) /\ Len(s1) = n - 1 /\ c1 \in [Bucket -> Seq(HNode)]
    <2>1. ASSUME NEW i \in 1 .. n - 1 PROVE (IF i < j THEN s[i] ELSE s[i + 1]) \in HNode
      <3>1. i \in 1 .. n /\ i + 1 \in 1 .. n
        BY <1>0
      <3> QED BY <1>s, <3>1
    <2>2. s1 \in [1 .. n - 1 -> HNode]
      BY <2>1
    <2>3. s1 \in Seq(HNode) /\ Len(s1) = n - 1
      <3> HIDE DEF s1
      <3> QED BY <1>0, <2>2
    <2> HIDE DEF s1
    <2> QED BY <2>3
  \* Where the i-th node of the shorter chain was before.
  <1> DEFINE at(i) == IF i < j THEN i ELSE i + 1
  <1>2. ASSUME NEW i \in 1 .. n - 1
        PROVE  at(i) \in 1 .. n /\ s1[i] = s[at(i)] /\ at(i) # j
    BY <1>0
  <1> HIDE DEF s1
  <1>3. Linked(U, b, s1)
    <2>1. U.head[b] = IF Len(s1) = 0 THEN 0 ELSE s1[1]
      <3>0. U.head[b] = IF pr = 0 THEN nx ELSE T.head[b]
        BY <1>b, <1>u
      <3>h. T.head[b] = s[1] /\ 1 \in 1 .. n
        BY <1>0, <1>b DEF Linked, n
      <3>1. CASE j = 1
        <4>1. U.head[b] = IF n = 1 THEN 0 ELSE s[2]
          BY <1>p, <3>0, <3>1
        <4>2. n # 1 => s1[1] = s[2]
          <5>1. n # 1 => 1 \in 1 .. n - 1 /\ at(1) = 2
            BY <1>0, <3>1
          <5> QED BY <1>2, <5>1
        <4> QED BY <1>0, <1>1, <4>1, <4>2
      <3>2. CASE j # 1
        <4>1. j - 1 \in 1 .. n /\ 1 \in 1 .. n - 1 /\ at(1) = 1
          BY <1>0, <3>2
        <4>2. pr # 0
          BY <1>o, <1>p, <1>s, <3>2, <4>1
        <4>3. s1[1] = s[1]
          BY <1>2, <4>1
        <4> QED BY <1>0, <1>1, <3>0, <3>h, <3>2, <4>2, <4>3
      <3> QED BY <3>1, <3>2
    <2>2. ASSUME NEW i \in 1 .. Len(s1)
          PROVE  /\ s1[i] \in U.alloced /\ U.key[s1[i]] \in Keys /\ hasho_func[U.key[s1[i]]] = b
                 /\ U.prev[s1[i]] = IF i = 1 THEN 0 ELSE s1[i - 1]
                 /\ U.next[s1[i]] = IF i = Len(s1) THEN 0 ELSE s1[i + 1]
      <3> DEFINE m == at(i)
                 q == s[m]
      <3>0. i \in 1 .. n - 1 /\ m \in 1 .. n /\ s1[i] = q /\ m # j
        BY <1>1, <1>2
      <3>1. q \in T.alloced /\ q \in HNode /\ q # p
        BY <1>i, <1>j, <1>s, <3>0
      <3>2. q \in U.alloced /\ U.key[q] \in Keys /\ hasho_func[U.key[q]] = b
        BY <1>s, <1>u, <3>0, <3>1
      <3>3. U.prev[q] = IF i = 1 THEN 0 ELSE s1[i - 1]
        <4>1. CASE m = j + 1
          <5>1. q = nx /\ i = j
            BY <1>0, <1>p, <3>0, <4>1
          <5>2. U.prev[q] = IF j = 1 THEN 0 ELSE s[j - 1]
            BY <1>p, <1>q, <3>1, <5>1
          <5>3. j # 1 => s1[i - 1] = s[j - 1]
            <6>1. j # 1 => i - 1 \in 1 .. n - 1 /\ at(i - 1) = j - 1
              BY <1>0, <3>0, <5>1
            <6> QED BY <1>2, <6>1
          <5> QED BY <5>1, <5>2, <5>3
        <4>2. CASE m # j + 1
          <5>1. q # nx
            <6>1. CASE j = n
              BY <1>o, <1>p, <3>1, <6>1
            <6>2. CASE j # n
              <7>1. j + 1 \in 1 .. n /\ nx = s[j + 1]
                BY <1>0, <1>p, <6>2
              <7> QED BY <1>i, <3>0, <4>2, <7>1
            <6> QED BY <6>1, <6>2
          <5>2. U.prev[q] = IF m = 1 THEN 0 ELSE s[m - 1]
            BY <1>q, <1>s, <3>0, <3>1, <5>1, ZenonT(30)
          <5>3. i # 1 => i - 1 \in 1 .. n - 1 /\ at(i - 1) = m - 1
            BY <1>0, <3>0, <4>2
          <5>4. i # 1 => s1[i - 1] = s[m - 1]
            BY <1>2, <5>3
          <5>5. m = 1 <=> i = 1
            BY <1>0, <3>0, <4>2
          <5> HIDE DEF m, q
          <5> QED BY <5>2, <5>4, <5>5
        <4> QED BY <4>1, <4>2
      <3>4. U.next[q] = IF i = Len(s1) THEN 0 ELSE s1[i + 1]
        <4>1. CASE m = j - 1
          <5>1. q = pr /\ i = j - 1
            BY <1>0, <1>p, <3>0, <4>1
          <5>2. U.next[q] = IF j = n THEN 0 ELSE s[j + 1]
            BY <1>p, <1>q, <3>1, <5>1
          <5>3. j # n => s1[i + 1] = s[j + 1]
            <6>1. j # n => i + 1 \in 1 .. n - 1 /\ at(i + 1) = j + 1
              BY <1>0, <3>0, <5>1
            <6> QED BY <1>2, <6>1
          <5>4. i = Len(s1) <=> j = n
            BY <1>0, <1>1, <5>1
          <5> HIDE DEF m, q
          <5> QED BY <5>2, <5>3, <5>4
        <4>2. CASE m # j - 1
          <5>1. q # pr
            <6>1. CASE j = 1
              BY <1>o, <1>p, <3>1, <6>1
            <6>2. CASE j # 1
              <7>1. j - 1 \in 1 .. n /\ pr = s[j - 1]
                BY <1>0, <1>p, <6>2
              <7> QED BY <1>i, <3>0, <4>2, <7>1
            <6> QED BY <6>1, <6>2
          <5>2. U.next[q] = IF m = n THEN 0 ELSE s[m + 1]
            BY <1>q, <1>s, <3>0, <3>1, <5>1, ZenonT(30)
          <5>3. i # n - 1 => i + 1 \in 1 .. n - 1 /\ at(i + 1) = m + 1
            BY <1>0, <3>0, <4>2
          <5>4. i # n - 1 => s1[i + 1] = s[m + 1]
            BY <1>2, <5>3
          <5>5. m = n <=> i = n - 1
            BY <1>0, <3>0, <4>2
          <5> HIDE DEF m, q
          <5> QED BY <1>1, <5>2, <5>4, <5>5
        <4> QED BY <4>1, <4>2
      <3> HIDE DEF m, q
      <3> QED BY <3>0, <3>2, <3>3, <3>4
    <2>3. ASSUME NEW x \in 1 .. Len(s1), NEW y \in 1 .. Len(s1), U.key[s1[x]] = U.key[s1[y]]
          PROVE  x = y
      <3>1. x \in 1 .. n - 1 /\ y \in 1 .. n - 1
        BY <1>1
      <3>2. at(x) \in 1 .. n /\ at(y) \in 1 .. n /\ T.key[s[at(x)]] = T.key[s[at(y)]]
        BY <1>2, <1>u, <2>3, <3>1
      <3>3. at(x) = at(y)
        <4> HIDE DEF at
        <4> QED BY <1>i, <3>2
      <3> QED BY <1>0, <3>1, <3>3
    <2> QED BY <1>1, <2>1, <2>2, <2>3 DEF Linked
  <1>4. ASSUME NEW x \in Bucket, x # b PROVE Linked(U, x, c[x])
    <2> DEFINE r == c[x]
    <2>1. Linked(T, x, r)
      BY DEF Shape
    <2>2. U.head[x] = T.head[x]
      BY <1>4, <1>u
    <2> HIDE DEF r
    <2>3. ASSUME NEW i \in 1 .. Len(r)
          PROVE  /\ r[i] \in U.alloced /\ U.key[r[i]] = T.key[r[i]]
                 /\ U.next[r[i]] = T.next[r[i]] /\ U.prev[r[i]] = T.prev[r[i]]
      <3>1. r[i] \in T.alloced /\ hasho_func[T.key[r[i]]] = x /\ r[i] \in HNode
        BY <1>t, <2>1 DEF Linked
      <3>2. \A y \in 1 .. n : r[i] # s[y]
        BY <1>4, <1>s, <3>1
      <3>3. r[i] # p /\ r[i] # pr /\ r[i] # nx
        <4>1. (j # 1 => j - 1 \in 1 .. n) /\ (j # n => j + 1 \in 1 .. n)
          BY <1>0
        <4> QED BY <1>j, <1>o, <1>p, <3>1, <3>2, <4>1
      <3> QED BY <1>q, <1>u, <3>1, <3>3
    <2>4. /\ r \in Seq(HNode) /\ U.head[x] = IF Len(r) = 0 THEN 0 ELSE r[1]
      BY <2>1, <2>2 DEF Linked
    <2>5. \A i \in 1 .. Len(r) :
             /\ r[i] \in U.alloced /\ U.key[r[i]] \in Keys /\ hasho_func[U.key[r[i]]] = x
             /\ U.prev[r[i]] = IF i = 1 THEN 0 ELSE r[i - 1]
             /\ U.next[r[i]] = IF i = Len(r) THEN 0 ELSE r[i + 1]
      BY <2>1, <2>3 DEF Linked
    <2>6. \A i, y \in 1 .. Len(r) : U.key[r[i]] = U.key[r[y]] => i = y
      BY <2>1, <2>3 DEF Linked
    <2>7. Linked(U, x, r)
      BY <2>4, <2>5, <2>6 DEF Linked
    <2> QED BY <2>7 DEF r
  <1>5. \A q \in U.alloced : \E x \in Bucket : \E i \in 1 .. Len(c1[x]) : c1[x][i] = q
    <2> SUFFICES ASSUME NEW q \in U.alloced
                 PROVE  \E x \in Bucket : \E i \in 1 .. Len(c1[x]) : c1[x][i] = q
      OBVIOUS
    <2>0. c1[b] = s1 /\ \A x \in Bucket : x # b => c1[x] = c[x]
      BY <1>b
    <2>1. q \in T.alloced /\ q # p
      BY <1>u
    <2>2. PICK x \in Bucket : \E i \in 1 .. Len(c[x]) : c[x][i] = q
      BY <2>1 DEF Shape
    <2>3. PICK i \in 1 .. Len(c[x]) : c[x][i] = q
      BY <2>2
    <2> HIDE DEF c1
    <2>4. CASE x = b
      <3>1. i \in 1 .. n /\ s[i] = q
        BY <2>3, <2>4 DEF s, n
      <3>2. i # j
        BY <1>j, <2>1, <3>1
      <3> DEFINE z == IF i < j THEN i ELSE i - 1
      <3>3. z \in 1 .. n - 1 /\ at(z) = i
        BY <1>0, <3>1, <3>2
      <3>4. z \in 1 .. Len(s1) /\ s1[z] = q
        BY <1>1, <1>2, <3>1, <3>3
      <3> HIDE DEF z
      <3> QED BY <1>b, <2>0, <3>4
    <2>5. CASE x # b
      BY <2>0, <2>3, <2>5
    <2> QED BY <2>4, <2>5
  <1>6. U.allocedCnt = Cardinality(U.alloced)
    <2>1. IsFiniteSet(T.alloced)
      <3>1. IsFiniteSet(HNode)
        <4>1. 1 \in Int /\ TotCnt \in Int
          BY Counts
        <4> QED BY <4>1, FS_Interval DEF HNode
      <3> QED BY <1>t, <3>1, FS_Subset
    <2>2. T.allocedCnt = Cardinality(T.alloced)
      BY DEF Shape
    <2>3. Cardinality(T.alloced \ {p}) = Cardinality(T.alloced) - 1
      BY <2>1, FS_RemoveElement
    <2> QED BY <1>u, <2>2, <2>3
  <1>7. Shape(U, c1)
    <2>1. ASSUME NEW x \in Bucket PROVE Linked(U, x, c1[x])
      BY <1>3, <1>4
    <2> HIDE DEF c1
    <2> QED BY <1>5, <1>6, <2>1 DEF Shape
  <1> HIDE DEF c1
  <1> QED BY <1>1, <1>7, <1>u, <1>w DEF WellFormed, U

-----------------------------------------------------------------------------
(* The calls                                                               *)

(* A table whose heads are all 0 and of which no node is allocated.        *)
LEMMA EmptyShape ==
    ASSUME NEW T \in TableType(Datas), T.head = [b \in Bucket |-> 0], T.alloced = {},
           T.allocedCnt = 0
    PROVE  WellFormed(T)
  <1> DEFINE e == [i \in 1 .. 0 |-> 1]
             c == [b \in Bucket |-> e]
  <1>1. e \in Seq(HNode) /\ Len(e) = 0
    <2>1. e \in [1 .. 0 -> HNode] /\ 0 \in Nat
      OBVIOUS
    <2> HIDE DEF e
    <2> QED BY <2>1
  <1> HIDE DEF e
  <1>2. ASSUME NEW b \in Bucket PROVE Linked(T, b, c[b])
    <2>1. c[b] = e /\ T.head[b] = 0
      OBVIOUS
    <2>2. 1 .. Len(e) = {}
      BY <1>1
    <2>3. Linked(T, b, e)
      BY <1>1, <2>1, <2>2 DEF Linked
    <2> QED BY <2>1, <2>3
  <1>3. c \in [Bucket -> Seq(HNode)]
    BY <1>1
  <1>4. Shape(T, c)
    <2> HIDE DEF c
    <2> QED BY <1>2, FS_EmptySet DEF Shape
  <1> HIDE DEF c
  <1> QED BY <1>3, <1>4 DEF WellFormed

LEMMA InitIs == WellFormed(hasho_init) /\ hasho_init.alloced = {}
  <1> DEFINE T == hasho_init
  <1>1. 0 \in HOffset /\ 1 \in HNode
    BY Counts DEF HOffset, HNode
  <1>2. T \in TableType(Datas) /\ T.head = [b \in Bucket |-> 0] /\ T.alloced = {} /\ T.allocedCnt = 0
    BY <1>1 DEF hasho_init, TableType
  <1> HIDE DEF T
  <1>3. WellFormed(T)
    BY <1>2, EmptyShape
  <1> QED BY <1>2, <1>3 DEF T

LEMMA ResetIs ==
    ASSUME NEW T, WellFormed(T)
    PROVE  WellFormed(hasho_reset(T)) /\ hasho_reset(T).alloced = {}
  <1> DEFINE U == hasho_reset(T)
  <1>1. 0 \in HOffset /\ 1 \in HNode
    BY Counts DEF HOffset, HNode
  <1>2. T \in TableType(Datas)
    BY DEF WellFormed
  <1>3. [b \in Bucket |-> 0] \in [Bucket -> HOffset]
    BY <1>1
  <1>4. U \in TableType(Datas) /\ U.head = [b \in Bucket |-> 0] /\ U.alloced = {} /\ U.allocedCnt = 0
    BY <1>1, <1>2, <1>3 DEF hasho_reset, TableType
  <1> HIDE DEF U
  <1>5. WellFormed(U)
    BY <1>4, EmptyShape
  <1> QED BY <1>4, <1>5 DEF U

(* hasho_add refuses a key that is there and any key when every node is    *)
(* allocated, and otherwise links a node.                                  *)
LEMMA AddIs ==
    ASSUME NEW T, WellFormed(T), NEW k \in Keys, NEW d \in Datas
    PROVE  \/ /\ (\E q \in T.alloced : T.key[q] = k) \/ T.allocedCnt = TotCnt
              /\ hasho_add(T, k, d).t = T /\ hasho_add(T, k, d).p = 0
           \/ /\ \A q \in T.alloced : T.key[q] # k
              /\ T.allocedCnt < TotCnt
              /\ WellFormed(hasho_add(T, k, d).t)
              /\ \E p \in HNode \ T.alloced :
                    hasho_add(T, k, d).p = p /\ LinkWrites(hasho_add(T, k, d).t, T, p, k, d)
  <1> DEFINE r == hasho_add(T, k, d)
             a == memg_alloc(T)
  <1>0. T \in TableType(Datas) /\ 0 \notin HNode
    BY Counts DEF WellFormed, HNode
  <1>1. PICK c \in [Bucket -> Seq(HNode)] : Shape(T, c)
    BY DEF WellFormed
  <1>2. T.allocedCnt = Cardinality(T.alloced) /\ T.alloced \subseteq HNode
    BY <1>0, <1>1, Fields DEF Shape
  <1>3. CASE hasho_find(T, k) # 0
    <2>1. hasho_find(T, k) \in T.alloced /\ T.key[hasho_find(T, k)] = k
      BY <1>3, FindIs
    <2>2. r = [t |-> T, p |-> 0]
      BY <1>3 DEF hasho_add
    <2> HIDE DEF r
    <2>3. r.t = T /\ r.p = 0
      BY <2>2
    <2> QED BY <2>1, <2>3 DEF r
  <1>4. CASE hasho_find(T, k) = 0
    <2>1. \A q \in T.alloced : T.key[q] # k
      <3>1. 0 \notin T.alloced
        BY <1>0, <1>2
      <3> QED BY <1>4, <3>1, FindIs
    <2>2. r = IF a.p = 0 THEN a
              ELSE [t |-> hasho_link_node(FillBody(a.t, a.p, k, d), a.p), p |-> a.p]
      BY <1>4 DEF hasho_add
    <2> HIDE DEF r, a
    <2>3. CASE T.allocedCnt = TotCnt /\ a = [t |-> T, p |-> 0]
      <3>1. a.p = 0 /\ a.t = T
        BY <2>3
      <3> QED BY <2>2, <2>3, <3>1 DEF r
    <2>4. ASSUME T.allocedCnt < TotCnt,
                 NEW p \in HNode \ T.alloced, NEW f \in HNode, a = [t |-> Taken(T, p, f), p |-> p]
          PROVE  WellFormed(r.t) /\ r.p = p /\ LinkWrites(r.t, T, p, k, d)
      <3>1. a.p = p /\ a.t = Taken(T, p, f) /\ p # 0
        BY <1>0, <2>4
      <3>2. r = [t |-> Linking(T, p, f, k, d), p |-> p]
        BY <2>2, <3>1 DEF Linking
      <3>3. WellFormed(Linking(T, p, f, k, d))
        BY <1>0, <1>1, <2>1, <2>4, LinkShape
      <3>4. LinkWrites(Linking(T, p, f, k, d), T, p, k, d)
        BY <1>0, <1>1, <2>4, LinkFields
      <3>5. r.t = Linking(T, p, f, k, d) /\ r.p = p
        BY <3>2
      <3> QED BY <3>3, <3>4, <3>5
    <2>5. \/ T.allocedCnt = TotCnt /\ a = [t |-> T, p |-> 0]
          \/ /\ T.allocedCnt < TotCnt
             /\ \E p \in HNode \ T.alloced, f \in HNode : a = [t |-> Taken(T, p, f), p |-> p]
      BY <1>0, <1>2, AllocIs DEF a, Taken
    <2>6. CASE T.allocedCnt < TotCnt /\ \E p \in HNode \ T.alloced, f \in HNode :
                                           a = [t |-> Taken(T, p, f), p |-> p]
      <3>1. PICK p \in HNode \ T.alloced, f \in HNode : a = [t |-> Taken(T, p, f), p |-> p]
        BY <2>6
      <3>2. WellFormed(r.t) /\ r.p = p /\ LinkWrites(r.t, T, p, k, d)
        BY <2>4, <2>6, <3>1
      <3> QED BY <2>1, <2>6, <3>2 DEF r
    <2> QED BY <2>3, <2>5, <2>6
  <1> QED BY <1>3, <1>4

(* hasho_del takes the node with the key out, if there is one.             *)
LEMMA DelIs ==
    ASSUME NEW T, WellFormed(T), NEW k \in Keys
    PROVE  \/ hasho_del(T, k) = T /\ \A q \in T.alloced : T.key[q] # k
           \/ /\ WellFormed(hasho_del(T, k))
              /\ \E p \in T.alloced : T.key[p] = k /\ UnlinkWrites(hasho_del(T, k), T, p)
  <1>0. T \in TableType(Datas)
    BY DEF WellFormed
  <1>1. PICK c \in [Bucket -> Seq(HNode)] : Shape(T, c)
    BY DEF WellFormed
  <1> DEFINE p == hasho_find(T, k)
  <1>2. CASE p = 0
    <2>1. hasho_del(T, k) = T
      BY <1>2 DEF hasho_del
    <2>2. 0 \notin T.alloced
      BY <1>0, Fields, Counts DEF HNode
    <2> QED BY <1>2, <2>1, <2>2, FindIs
  <1>3. CASE p # 0
    <2>1. p \in T.alloced /\ T.key[p] = k
      BY <1>3, FindIs
    <2>2. hasho_del(T, k) = Unlinking(T, p)
      BY <1>3 DEF hasho_del, Unlinking
    <2> HIDE DEF p
    <2> QED BY <1>0, <1>1, <2>1, <2>2, UnlinkShape
  <1> QED BY <1>2, <1>3

-----------------------------------------------------------------------------
(* The invariant and the map                                               *)

Rets   == {<<>>} \cup (Keys \X BOOLEAN)
TabInv == WellFormed(t) /\ ret \in Rets

(* Every call leaves a well-formed table.                                  *)
LEMMA TabInvHolds == Spec => []TabInv
  <1>1. Init => TabInv
    BY InitIs DEF Init, TabInv, Rets
  <1>2. TabInv /\ [Next]_vars => TabInv'
    <2> SUFFICES ASSUME TabInv, [Next]_vars PROVE TabInv'
      OBVIOUS
    <2>0. WellFormed(t)
      BY DEF TabInv
    <2>1. CASE Reset
      BY <2>0, <2>1, ResetIs DEF Reset, TabInv, Rets
    <2>2. ASSUME NEW k \in Keys, Del(k) PROVE TabInv'
      <3>1. WellFormed(hasho_del(t, k))
        BY <2>0, DelIs
      <3> QED BY <2>2, <3>1 DEF Del, TabInv, Rets
    <2>3. ASSUME NEW k \in Keys, NEW d \in Datas, Add(k, d) PROVE TabInv'
      <3>1. WellFormed(hasho_add(t, k, d).t)
        BY <2>0, AddIs
      <3>2. t' = hasho_add(t, k, d).t /\ ret' = <<k, hasho_add(t, k, d).p # 0>>
        BY <2>3 DEF Add
      <3> QED BY <3>1, <3>2 DEF TabInv, Rets
    <2>4. CASE UNCHANGED vars
      BY <2>4 DEF vars, TabInv
    <2> QED BY <2>1, <2>2, <2>3, <2>4 DEF Next
  <1> QED BY <1>1, <1>2, PTL DEF Spec

(* Every offset in the segment stays inside it, and so do the cursor of    *)
(* memg_alloc and its count.                                               *)
THEOREM TableTypes == Spec => []TypeOK
  <1>1. TabInv => TypeOK
    BY DEF TabInv, Rets, WellFormed, TypeOK
  <1> QED BY <1>1, TabInvHolds, PTL

(* After any calls of hasho_add, hasho_del and hasho_reset the chains are  *)
(* exact and the allocator's count is right.                               *)
THEOREM ChainsStayExact == Spec => []ChainsExact
  <1>1. TabInv => ChainsExact
    BY ShapeIsExact DEF TabInv, WellFormed, ChainsExact
  <1> QED BY <1>1, TabInvHolds, PTL

-----------------------------------------------------------------------------
(* A lookup finds the allocated node with the key, so the keys that are    *)
(* stored are those of the allocated nodes, and as many.                   *)
LEMMA StoredIs ==
    ASSUME NEW T, WellFormed(T)
    PROVE  /\ Stored(T) = {T.key[p] : p \in T.alloced}
           /\ \A p \in T.alloced : hasho_find(T, T.key[p]) = p
           /\ Cardinality(Stored(T)) = T.allocedCnt
           /\ \A k \in Stored(T) : hasho_find(T, k) \in T.alloced /\ T.key[hasho_find(T, k)] = k
  <1>0. T \in TableType(Datas) /\ T.alloced \subseteq HNode /\ 0 \notin HNode
    <2>1. T \in TableType(Datas)
      BY DEF WellFormed
    <2> QED BY <2>1, Fields, Counts DEF HNode
  <1>1. ASSUME NEW p \in T.alloced PROVE T.key[p] \in Keys /\ hasho_find(T, T.key[p]) = p
    <2>1. T.key[p] \in Keys
      BY KeysDiffer
    <2>2. hasho_find(T, T.key[p]) \in T.alloced /\ T.key[hasho_find(T, T.key[p])] = T.key[p]
      BY <2>1, FindIs
    <2> QED BY <2>1, <2>2, KeysDiffer
  <1>2. ASSUME NEW k \in Stored(T)
        PROVE  hasho_find(T, k) \in T.alloced /\ T.key[hasho_find(T, k)] = k
    BY FindIs DEF Stored
  <1>3. Stored(T) = {T.key[p] : p \in T.alloced}
    <2>1. ASSUME NEW p \in T.alloced PROVE T.key[p] \in Stored(T)
      BY <1>0, <1>1 DEF Stored
    <2>2. ASSUME NEW k \in Stored(T) PROVE \E p \in T.alloced : T.key[p] = k
      BY <1>2
    <2> QED BY <2>1, <2>2
  <1>4. Cardinality(Stored(T)) = T.allocedCnt
    <2> DEFINE g == [p \in T.alloced |-> T.key[p]]
    <2>1. g \in [T.alloced -> Stored(T)]
      BY <1>3
    <2>2. \A p, q \in T.alloced : g[p] = g[q] => p = q
      BY KeysDiffer
    <2>3. \A k \in Stored(T) : \E p \in T.alloced : g[p] = k
      BY <1>3
    <2> HIDE DEF g
    <2>4. g \in Bijection(T.alloced, Stored(T))
      BY <2>1, <2>2, <2>3 DEF Bijection, Injection, IsInjective, Surjection
    <2>5. IsFiniteSet(T.alloced)
      <3>1. 1 \in Int /\ TotCnt \in Int
        BY Counts
      <3>2. IsFiniteSet(HNode)
        BY <3>1, FS_Interval DEF HNode
      <3> QED BY <1>0, <3>2, FS_Subset
    <2>6. Cardinality(Stored(T)) = Cardinality(T.alloced)
      BY <2>4, <2>5, FS_Bijection DEF ExistsBijection
    <2> QED BY <2>6 DEF WellFormed, Shape
  <1> QED BY <1>1, <1>2, <1>3, <1>4

(* A table with no node allocated is the empty map.                        *)
LEMMA EmptyMap ==
    ASSUME NEW T, WellFormed(T), T.alloced = {}
    PROVE  Contents(T) = [k \in {} |-> k]
  <1>1. Stored(T) = {}
    BY StoredIs
  <1> QED BY <1>1 DEF Contents

(* Linking a node adds its key to the map.                                 *)
LEMMA LinkMap ==
    ASSUME NEW T, WellFormed(T), NEW U, WellFormed(U), NEW k \in Keys, NEW d \in Datas,
           NEW p \in HNode \ T.alloced, LinkWrites(U, T, p, k, d)
    PROVE  Contents(U) = [j \in DOMAIN Contents(T) \cup {k} |->
                             IF j = k THEN d ELSE Contents(T)[j]]
  <1>0. /\ T.key \in [HNode -> Keys \cup {NoKey}] /\ T.data \in [HNode -> Datas \cup {NoData}]
        /\ T.alloced \subseteq HNode /\ U.alloced = T.alloced \cup {p}
        /\ U.key = [T.key EXCEPT ![p] = k] /\ U.data = [T.data EXCEPT ![p] = d]
    <2>1. T \in TableType(Datas)
      BY DEF WellFormed
    <2> QED BY <2>1, Fields DEF LinkWrites
  <1>1. U.key[p] = k /\ U.data[p] = d /\ p \in U.alloced
    BY <1>0
  <1>2. ASSUME NEW q \in T.alloced
        PROVE  U.key[q] = T.key[q] /\ U.data[q] = T.data[q] /\ q \in U.alloced
    BY <1>0
  <1>3. Stored(U) = Stored(T) \cup {k}
    <2>1. Stored(U) = {U.key[q] : q \in U.alloced} /\ Stored(T) = {T.key[q] : q \in T.alloced}
      BY StoredIs
    <2> QED BY <1>0, <1>1, <1>2, <2>1
  <1>4. hasho_find(U, k) = p
    BY <1>1, StoredIs
  <1>5. ASSUME NEW j \in Stored(T), j # k
        PROVE  U.data[hasho_find(U, j)] = T.data[hasho_find(T, j)]
    <2> DEFINE q == hasho_find(T, j)
    <2>1. q \in T.alloced /\ T.key[q] = j
      BY StoredIs
    <2> HIDE DEF q
    <2>2. hasho_find(U, j) = q
      BY <1>2, <2>1, StoredIs
    <2> QED BY <1>2, <2>1, <2>2 DEF q
  <1>6. DOMAIN Contents(T) = Stored(T) /\ \A j \in Stored(T) : Contents(T)[j] = T.data[hasho_find(T, j)]
    BY DEF Contents
  <1>7. \A j \in Stored(U) : U.data[hasho_find(U, j)] = IF j = k THEN d ELSE Contents(T)[j]
    BY <1>1, <1>3, <1>4, <1>5, <1>6
  <1> QED BY <1>3, <1>6, <1>7 DEF Contents

(* Taking a node out takes its key out of the map.                         *)
LEMMA UnlinkMap ==
    ASSUME NEW T, WellFormed(T), NEW U, WellFormed(U), NEW p \in T.alloced,
           UnlinkWrites(U, T, p)
    PROVE  Contents(U) = [j \in DOMAIN Contents(T) \ {T.key[p]} |-> Contents(T)[j]]
  <1>0. U.alloced = T.alloced \ {p} /\ U.key = T.key /\ U.data = T.data
    BY DEF UnlinkWrites
  <1>1. Stored(U) = Stored(T) \ {T.key[p]}
    <2>1. Stored(U) = {U.key[q] : q \in U.alloced} /\ Stored(T) = {T.key[q] : q \in T.alloced}
      BY StoredIs
    <2>2. \A q \in T.alloced : T.key[q] = T.key[p] => q = p
      BY KeysDiffer
    <2> QED BY <1>0, <2>1, <2>2
  <1>2. ASSUME NEW j \in Stored(U) PROVE hasho_find(U, j) = hasho_find(T, j)
    <2>1. hasho_find(U, j) \in U.alloced /\ U.key[hasho_find(U, j)] = j
      BY StoredIs
    <2>2. hasho_find(T, T.key[hasho_find(U, j)]) = hasho_find(U, j)
      BY <1>0, <2>1, StoredIs
    <2> QED BY <1>0, <2>1, <2>2
  <1>3. DOMAIN Contents(T) = Stored(T) /\ \A j \in Stored(T) : Contents(T)[j] = T.data[hasho_find(T, j)]
    BY DEF Contents
  <1>4. \A j \in Stored(U) : U.data[hasho_find(U, j)] = Contents(T)[j]
    BY <1>0, <1>1, <1>2, <1>3
  <1> QED BY <1>1, <1>3, <1>4 DEF Contents

(* Every call of hasho.c does what the same call does to a map.            *)
LEMMA CallsAreMapCalls ==
    TabInv /\ [Next]_vars => [Map!Next]_<<Contents(t), ret>>
  <1> SUFFICES ASSUME TabInv, [Next]_vars PROVE [Map!Next]_<<Contents(t), ret>>
    OBVIOUS
  <1>0. WellFormed(t)
    BY DEF TabInv
  <1>1. CASE Reset
    <2>1. Contents(t)' = [k \in {} |-> k]
      <3>1. Contents(hasho_reset(t)) = [k \in {} |-> k]
        BY <1>0, ResetIs, EmptyMap
      <3> QED BY <1>1, <3>1 DEF Reset
    <2>2. Map!Reset
      BY <1>1, <2>1 DEF Reset, Map!Reset
    <2> QED BY <2>2 DEF Map!Next
  <1>2. ASSUME NEW k \in Keys, Del(k) PROVE Map!Del(k)
    <2> DEFINE U == hasho_del(t, k)
               C == Contents(t)
    <2>1. t' = U /\ ret' = <<>>
      BY <1>2 DEF Del
    <2>2. C = [j \in DOMAIN C |-> C[j]] /\ DOMAIN C = {t.key[p] : p \in t.alloced}
      BY <1>0, StoredIs DEF Contents
    <2>3. Contents(U) = [j \in DOMAIN C \ {k} |-> C[j]]
      <3>1. CASE U = t /\ \A q \in t.alloced : t.key[q] # k
        <4>1. DOMAIN C \ {k} = DOMAIN C
          BY <2>2, <3>1
        <4>2. Contents(U) = C
          BY <3>1
        <4> HIDE DEF C, U
        <4> QED BY <2>2, <4>1, <4>2
      <3>2. CASE WellFormed(U) /\ \E p \in t.alloced : t.key[p] = k /\ UnlinkWrites(U, t, p)
        <4>1. PICK p \in t.alloced : t.key[p] = k /\ UnlinkWrites(U, t, p)
          BY <3>2
        <4> HIDE DEF U
        <4>2. Contents(U) = [j \in DOMAIN Contents(t) \ {t.key[p]} |-> Contents(t)[j]]
          <5>1. WellFormed(t) /\ WellFormed(U) /\ UnlinkWrites(U, t, p)
            BY <1>0, <3>2, <4>1
          <5> HIDE DEF C
          <5> QED BY <5>1, UnlinkMap
        <4> QED BY <4>1, <4>2
      <3> HIDE DEF C
      <3> QED BY <1>0, <3>1, <3>2, DelIs
    <2>4. C' = [j \in DOMAIN C \ {k} |-> C[j]]
      BY <2>1, <2>3
    <2> QED BY <2>1, <2>4 DEF Map!Del, Map!Restrict
  <1>3. ASSUME NEW k \in Keys, NEW d \in Datas, Add(k, d) PROVE Map!Add(k, d)
    <2> DEFINE r == hasho_add(t, k, d)
               C == Contents(t)
               fits == k \notin DOMAIN C /\ Cardinality(DOMAIN C) < TotCnt
    <2>1. t' = r.t /\ ret' = <<k, r.p # 0>>
      BY <1>3 DEF Add
    <2>2. DOMAIN C = {t.key[p] : p \in t.alloced} /\ Cardinality(DOMAIN C) = t.allocedCnt
      BY <1>0, StoredIs DEF Contents
    <2>3. 0 \notin HNode /\ TotCnt \in Nat
      BY Counts DEF HNode
    <2>c. Map!Cardinality(DOMAIN C) = Cardinality(DOMAIN C)
      BY DEF Map!Cardinality, Cardinality
    <2> HIDE DEF r
    <2>4. CASE /\ (\E q \in t.alloced : t.key[q] = k) \/ t.allocedCnt = TotCnt
               /\ r.t = t /\ r.p = 0
      <3>1. ~fits
        <4> HIDE DEF C
        <4> QED BY <2>2, <2>3, <2>4
      <3>2. C' = C /\ ret' = <<k, FALSE>>
        BY <2>1, <2>4
      <3>3. ret' = <<k, fits>>
        BY <3>1, <3>2
      <3> QED BY <2>c, <3>1, <3>2, <3>3 DEF Map!Add
    <2>5. CASE /\ \A q \in t.alloced : t.key[q] # k
               /\ t.allocedCnt < TotCnt /\ WellFormed(r.t)
               /\ \E p \in HNode \ t.alloced : r.p = p /\ LinkWrites(r.t, t, p, k, d)
      <3>1. PICK p \in HNode \ t.alloced : r.p = p /\ LinkWrites(r.t, t, p, k, d)
        BY <2>5
      <3>2. fits
        <4> HIDE DEF C
        <4> QED BY <2>2, <2>5
      <3>3. Contents(r.t) = [j \in DOMAIN C \cup {k} |-> IF j = k THEN d ELSE C[j]]
        BY <1>0, <2>5, <3>1, LinkMap
      <3>4. C' = [j \in DOMAIN C \cup {k} |-> IF j = k THEN d ELSE C[j]]
        BY <2>1, <3>3
      <3>5. ret' = <<k, fits>>
        <4>1. r.p # 0
          BY <2>3, <3>1
        <4> QED BY <2>1, <3>2, <4>1
      <3> QED BY <2>c, <3>2, <3>4, <3>5 DEF Map!Add
    <2> QED BY <1>0, <2>4, <2>5, AddIs DEF r
  <1>4. CASE UNCHANGED vars
    BY <1>4 DEF vars, Contents
  <1> QED BY <1>1, <1>2, <1>3, <1>4 DEF Next, Map!Next

(* The hash table implements a bounded map: a lookup finds what was last   *)
(* stored under that key, and hasho_add refuses only a key that is there   *)
(* or one more than the nodes hold.                                        *)
THEOREM TableImplementsMap == Spec => TableIsMap
  <1>1. Init => Map!Init
    BY InitIs, EmptyMap DEF Init, Map!Init
  <1>2. TabInv /\ [Next]_vars => [Map!Next]_<<Contents(t), ret>>
    BY CallsAreMapCalls
  <1> QED BY <1>1, <1>2, TabInvHolds, PTL DEF Spec, TableIsMap, Map!Spec
=============================================================================
