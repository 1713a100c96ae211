-------------------------- MODULE MemsLayoutProofs --------------------------
(***************************************************************************)
(* Proof that nifo_get_offset_node finds the node of any pointer into the  *)
(* node area, for every number of zones, node sizes and node counts.  The  *)
(* argument: the two loops of mems_init compute the same running total, so *)
(* that the zones fill the segment without gap or overlap; the total grows *)
(* with every zone, so a pointer is in one zone; and inside a zone the     *)
(* quotient by the size of a node is the number of the node.               *)
(***************************************************************************)
EXTENDS MemsLayout, NatRecursion

ZoneConf == [body : BodySizes, cnt : NodeCnts]
Bytes(k) == Stride(zones[k]) * zones[k].cnt

ConfOK == headRoomSize \in HeadRoomSizes /\ zones \in Seq(ZoneConf)

(* The product of naturals grows with its factors.                         *)
LEMMA Products ==
    ASSUME NEW s \in Nat \ {0}, NEW a \in Nat, NEW b \in Nat
    PROVE  /\ s * a \in Nat
           /\ a < b => s * a < s * b /\ s * a + s <= s * b
           /\ s * (a + 1) = s * a + s
           /\ a # 0 => s * a # 0
  <1>1. s * a \in Nat /\ s * (a + 1) = s * a + s
    OBVIOUS
  <1>2. ASSUME a < b PROVE s * a + s <= s * b
    <2>1. PICK d \in Nat : b = a + 1 + d
      <3>1. b - a - 1 \in Nat /\ b = a + 1 + (b - a - 1)
        BY <1>2
      <3> QED BY <3>1
    <2>2. s * d \in Nat
      OBVIOUS
    <2>3. s * b = s * a + s + s * d
      BY <2>1
    <2> QED BY <1>1, <2>2, <2>3
  <1>3. a # 0 => s * a # 0
    OBVIOUS
  <1>4. a < b => s * a < s * b
    <2> SUFFICES ASSUME a < b PROVE s * a < s * b
      OBVIOUS
    <2>1. s * a \in Nat /\ s * b \in Nat /\ s * a + s <= s * b
      BY <1>2
    <2> QED BY <2>1
  <1> QED BY <1>1, <1>2, <1>3, <1>4

(* The assumption on the constants, one by one.                            *)
LEMMA Sizes ==
    /\ InfoSize \in Nat /\ InfoSize # 0 /\ HdrSize \in Nat /\ HdrSize # 0
    /\ MaxZones \in Nat
    /\ HeadRoomSizes \subseteq Nat /\ BodySizes \subseteq Nat /\ NodeCnts \subseteq Nat \ {0}
  <1>1. {InfoSize, HdrSize, MaxZones} \subseteq Nat \ {0}
    BY LayoutAssumption
  <1>2. InfoSize \in Nat \ {0} /\ HdrSize \in Nat \ {0} /\ MaxZones \in Nat \ {0}
    BY <1>1, Zenon
  <1> QED BY <1>2, LayoutAssumption

(* Every zone takes some bytes.                                            *)
LEMMA ZoneBytes ==
    ASSUME ConfOK, NEW k \in 1 .. Len(zones)
    PROVE  /\ Stride(zones[k]) \in Nat \ {0} /\ zones[k].cnt \in Nat \ {0}
           /\ Bytes(k) \in Nat \ {0}
  <1>1. zones[k] \in ZoneConf
    BY DEF ConfOK
  <1>2. zones[k].body \in Nat /\ zones[k].cnt \in Nat /\ zones[k].cnt # 0
    BY <1>1, Sizes DEF ZoneConf
  <1>3. Stride(zones[k]) \in Nat \ {0} /\ zones[k].cnt \in Nat \ {0}
    BY <1>2, Sizes DEF Stride
  <1> QED BY <1>3, Products DEF Bytes

-----------------------------------------------------------------------------
\* What both loops of mems_init compute.
IsTotal(f) ==
    /\ f \in [0 .. Len(zones) -> Nat]
    /\ f[0] = InfoSize + headRoomSize
    /\ \A k \in 1 .. Len(zones) : f[k] = f[k - 1] + Bytes(k)

(* The recursive definitions of the two totals are well-defined.           *)
LEMMA Totals ==
    ASSUME ConfOK
    PROVE  IsTotal(Ends) /\ IsTotal(MemSizes)
  <1> DEFINE n == Len(zones)
             a == InfoSize + headRoomSize
             G == [k \in 1 .. n |-> [x \in Nat |-> x + Bytes(k)]]
             P(f) == f = [k \in 0 .. n |->
                            IF k = 0 THEN a ELSE f[k - 1] + Stride(zones[k]) * zones[k].cnt]
  <1>1. n \in Nat /\ a \in Nat
    BY Sizes DEF ConfOK
  <1>2. G \in [1 .. n -> [Nat -> Nat]]
    BY ZoneBytes
  <1>3. PICK f \in [0 .. n -> Nat] : IsWalk(f, a, G, n)
    <2> HIDE DEF G, n, a
    <2> QED BY <1>1, <1>2, WalkExists
  <1>4. ASSUME NEW k \in 1 .. n PROVE f[k] = f[k - 1] + Bytes(k)
    <2>1. f[k] = G[k][f[k - 1]]
      <3> HIDE DEF G, n, a
      <3> QED BY <1>3 DEF IsWalk
    <2>2. f[k - 1] \in Nat
      <3>1. k - 1 \in 0 .. n
        BY <1>1
      <3> HIDE DEF n
      <3> QED BY <1>3, <3>1
    <2> HIDE DEF n
    <2> QED BY <2>1, <2>2
  <1>5. P(f)
    BY <1>1, <1>3, <1>4 DEF IsWalk, Bytes
  <1>6. P(CHOOSE g : P(g))
    <2> HIDE DEF P
    <2> QED BY <1>5
  <1>7. ASSUME NEW g, P(g) PROVE IsTotal(g)
    <2>0. ASSUME NEW k \in 0 .. n
          PROVE  g[k] = IF k = 0 THEN a ELSE g[k - 1] + Stride(zones[k]) * zones[k].cnt
      BY <1>7
    <2>1. g[0] = a /\ \A k \in 1 .. n : g[k] = g[k - 1] + Bytes(k)
      <3> HIDE DEF P
      <3>1. 0 \in 0 .. n /\ \A k \in 1 .. n : k \in 0 .. n /\ k # 0
        BY <1>1
      <3>2. g[0] = a
        BY <2>0, <3>1
      <3>3. ASSUME NEW k \in 1 .. n PROVE g[k] = g[k - 1] + Bytes(k)
        <4>1. k \in 0 .. n /\ k # 0
          BY <3>1
        <4> QED BY <2>0, <4>1 DEF Bytes
      <3> QED BY <3>2, <3>3
    <2> DEFINE T == {k \in Nat : k <= n => g[k] = f[k]}
    <2>2. 0 \in T
      BY <1>3, <2>1 DEF IsWalk
    <2>3. ASSUME NEW k \in Nat, k \in T PROVE k + 1 \in T
      <3> SUFFICES ASSUME k + 1 <= n PROVE g[k + 1] = f[k + 1]
        OBVIOUS
      <3>1. k + 1 \in 1 .. n /\ (k + 1) - 1 = k /\ g[k] = f[k]
        BY <1>1, <2>3
      <3> QED BY <1>4, <2>1, <3>1
    <2>4. \A k \in Nat : k \in T
      <3> HIDE DEF T
      <3> QED BY <2>2, <2>3, InductionOnSet
    <2>5. \A k \in 0 .. n : g[k] = f[k]
      BY <1>1, <2>4
    <2>6. DOMAIN g = 0 .. n /\ g = [k \in 0 .. n |-> g[k]]
      BY <1>7
    <2>7. g = f
      BY <2>5, <2>6
    <2> QED BY <2>1, <2>7 DEF IsTotal
  <1>8. Ends = (CHOOSE g : P(g)) /\ MemSizes = (CHOOSE g : P(g))
    BY DEF Ends, MemSizes
  <1> HIDE DEF P
  <1> QED BY <1>6, <1>7, <1>8

(* The size that is allocated is where the last zone ends.                 *)
LEMMA SizeIsEnd ==
    ASSUME ConfOK
    PROVE  \A k \in 0 .. Len(zones) : MemSizes[k] = Ends[k]
  <1> DEFINE T == {k \in Nat : k <= Len(zones) => MemSizes[k] = Ends[k]}
  <1>0. Len(zones) \in Nat
    BY DEF ConfOK
  <1>1. 0 \in T
    BY Totals DEF IsTotal
  <1>2. ASSUME NEW k \in Nat, k \in T PROVE k + 1 \in T
    <2> SUFFICES ASSUME k + 1 <= Len(zones) PROVE MemSizes[k + 1] = Ends[k + 1]
      OBVIOUS
    <2>1. k + 1 \in 1 .. Len(zones) /\ (k + 1) - 1 = k /\ MemSizes[k] = Ends[k]
      BY <1>0, <1>2
    <2> QED BY <2>1, Totals DEF IsTotal
  <1>3. \A k \in Nat : k \in T
    <2> HIDE DEF T
    <2> QED BY <1>1, <1>2, InductionOnSet
  <1> QED BY <1>0, <1>3

(* A zone further on does not start before a zone further back ends.       *)
LEMMA EndsGrow ==
    ASSUME ConfOK, NEW i \in 0 .. Len(zones)
    PROVE  \A j \in i .. Len(zones) : Ends[i] <= Ends[j]
  <1> DEFINE T == {d \in Nat : i + d <= Len(zones) => Ends[i] <= Ends[i + d]}
  <1>0. Len(zones) \in Nat /\ IsTotal(Ends)
    BY Totals DEF ConfOK
  <1>1. 0 \in T
    BY <1>0 DEF IsTotal
  <1>2. ASSUME NEW d \in Nat, d \in T PROVE d + 1 \in T
    <2> SUFFICES ASSUME i + (d + 1) <= Len(zones) PROVE Ends[i] <= Ends[i + (d + 1)]
      OBVIOUS
    <2>1. i + (d + 1) \in 1 .. Len(zones) /\ (i + (d + 1)) - 1 = i + d /\ i + d \in 0 .. Len(zones)
      BY <1>0
    <2>2. Bytes(i + (d + 1)) \in Nat
      BY <2>1, ZoneBytes
    <2>3. /\ Ends[i] \in Nat /\ Ends[i + d] \in Nat /\ Ends[i] <= Ends[i + d]
          /\ Ends[i + (d + 1)] = Ends[i + d] + Bytes(i + (d + 1))
      BY <1>0, <1>2, <2>1 DEF IsTotal
    <2> QED BY <2>2, <2>3
  <1>3. \A d \in Nat : d \in T
    <2> HIDE DEF T
    <2> QED BY <1>1, <1>2, InductionOnSet
  <1>4. ASSUME NEW j \in i .. Len(zones) PROVE Ends[i] <= Ends[j]
    <2>1. j - i \in Nat /\ i + (j - i) = j /\ j <= Len(zones)
      BY <1>0
    <2> QED BY <1>3, <2>1
  <1> QED BY <1>4

-----------------------------------------------------------------------------
(* A pointer into the node area is in one zone.                            *)
LEMMA OneZone ==
    ASSUME ConfOK, NEW p \in Nat, Ends[0] <= p, p < Ends[Len(zones)]
    PROVE  \E i \in 1 .. Len(zones) :
               /\ Ends[i - 1] <= p /\ p < Ends[i]
               /\ \A j \in 1 .. Len(zones) : Ends[j - 1] <= p /\ p < Ends[j] => j = i
  <1>0. Len(zones) \in Nat /\ IsTotal(Ends)
    BY Totals DEF ConfOK
  <1>n. \A k \in 0 .. Len(zones) : Ends[k] \in Nat
    BY <1>0 DEF IsTotal
  <1> DEFINE past == {k \in 0 .. Len(zones) : p < Ends[k]}
  <1>1. PICK i \in past : \A k \in past : i <= k
    <2>1. past \in SUBSET Nat /\ Len(zones) \in past
      BY <1>0
    <2> HIDE DEF past
    <2> QED BY <2>1, LeastNumber
  <1>2. i \in 1 .. Len(zones) /\ i - 1 \in 0 .. Len(zones)
    BY <1>0, <1>1, <1>n
  <1>3. Ends[i - 1] <= p /\ p < Ends[i]
    BY <1>1, <1>2, <1>n
  <1>4. ASSUME NEW j \in 1 .. Len(zones), Ends[j - 1] <= p, p < Ends[j] PROVE j = i
    <2>1. j - 1 \in 0 .. Len(zones) /\ j \in 0 .. Len(zones)
      BY <1>0
    <2>2. i <= j
      BY <1>1, <1>4, <2>1
    <2>3. CASE i < j
      <3>1. i \in 0 .. Len(zones) /\ j - 1 \in i .. Len(zones)
        BY <1>0, <1>2, <2>3
      <3>2. Ends[i] <= Ends[j - 1]
        BY <3>1, EndsGrow
      <3> QED BY <1>3, <1>4, <1>n, <2>1, <3>1, <3>2
    <2> QED BY <1>2, <2>2, <2>3
  <1> QED BY <1>2, <1>3, <1>4

(* The quotient by the size of a node is the only number of a node that    *)
(* the byte b of a zone can be in.                                         *)
LEMMA Quotient ==
    ASSUME NEW s \in Nat \ {0}, NEW b \in Nat, NEW c \in Nat, b < s * c
    PROVE  /\ b \div s \in 0 .. c - 1
           /\ s * (b \div s) <= b /\ b < s * (b \div s) + s
           /\ \A m \in Nat : s * m <= b /\ b < s * m + s => m = b \div s
  <1> DEFINE q == b \div s
  <1>1. q \in Nat /\ s * q <= b /\ b < s * q + s
    OBVIOUS
  <1> HIDE DEF q
  <1>2. ASSUME NEW m \in Nat, NEW k \in Nat, s * m <= b, b < s * k + s PROVE m <= k
    <2>1. CASE k < m
      <3>1. s * k + s <= s * m /\ s * k \in Nat /\ s * m \in Nat
        BY <2>1, Products
      <3> QED BY <1>2, <3>1
    <2> QED BY <2>1
  <1>3. q < c
    <2>1. CASE c <= q
      <3>1. s * c <= s * q /\ s * c \in Nat /\ s * q \in Nat
        <4>1. s * c \in Nat /\ s * q \in Nat /\ (c < q => s * c < s * q)
          BY <1>1, Products
        <4> QED BY <1>1, <2>1, <4>1
      <3> QED BY <1>1, <3>1
    <2> QED BY <1>1, <2>1
  <1>4. q \in 0 .. c - 1
    BY <1>1, <1>3
  <1>5. ASSUME NEW m \in Nat, s * m <= b, b < s * m + s PROVE m = q
    <2>1. m <= q
      BY <1>1, <1>2, <1>5
    <2>2. q <= m
      BY <1>1, <1>2, <1>5
    <2> QED BY <1>1, <2>1, <2>2
  <1> QED BY <1>1, <1>4, <1>5 DEF q

-----------------------------------------------------------------------------
\* A pointer inside a segment that is laid out for one of the configurations.
PtrInside == ConfOK /\ ptr \in Nat /\ ptr < Ends[Len(zones)]

(* The walk over the segment stays inside it.                              *)
LEMMA PtrInsideHolds == Spec => []PtrInside
  <1>1. Init => PtrInside
    <2> SUFFICES ASSUME Init PROVE PtrInside
      OBVIOUS
    <2>1. PICK n \in 1 .. MaxZones : zones \in [1 .. n -> ZoneConf]
      BY DEF Init, ZoneConf
    <2>2. n \in Nat
      BY Sizes
    <2>3. zones \in Seq(ZoneConf) /\ Len(zones) \in Nat
      BY <2>1, <2>2
    <2>4. ConfOK
      BY <2>3 DEF ConfOK, Init
    <2>5. Ends[0] = InfoSize + headRoomSize /\ headRoomSize \in Nat
      BY <2>4, Totals, Sizes DEF IsTotal, ConfOK
    <2>6. Ends[0] <= Ends[Len(zones)] /\ Ends[Len(zones)] \in Nat
      <3>1. 0 \in 0 .. Len(zones) /\ Len(zones) \in 0 .. Len(zones)
        BY <2>3
      <3> QED BY <2>4, <3>1, EndsGrow, Totals DEF IsTotal
    <2> QED BY <2>4, <2>5, <2>6, Sizes DEF PtrInside, Init
  <1>2. PtrInside /\ [Next]_vars => PtrInside'
    <2> SUFFICES ASSUME PtrInside, [Next]_vars PROVE PtrInside'
      OBVIOUS
    <2>1. headRoomSize' = headRoomSize /\ zones' = zones
      BY DEF Next, vars
    <2>2. Ends' = Ends /\ ConfOK'
      BY <2>1 DEF Ends, Stride, ConfOK, PtrInside
    <2>3. Ends[Len(zones)] \in Nat /\ uiTotMemSize = Ends[Len(zones)]
      <3>1. Len(zones) \in 0 .. Len(zones)
        BY DEF PtrInside, ConfOK
      <3> QED BY <3>1, SizeIsEnd, Totals DEF IsTotal, PtrInside, uiTotMemSize
    <2>4. CASE Next
      BY <2>1, <2>2, <2>3, <2>4 DEF Next, PtrInside
    <2>5. CASE UNCHANGED vars
      BY <2>1, <2>2, <2>5 DEF vars, PtrInside
    <2> QED BY <2>4, <2>5
  <1> QED BY <1>1, <1>2, PTL DEF Spec

(* Zone i is the bytes from one end to the next.                           *)
LEMMA ZoneSpan ==
    ASSUME ConfOK, NEW i \in DOMAIN zones
    PROVE  /\ i \in 1 .. Len(zones) /\ i - 1 \in 0 .. Len(zones)
           /\ offsetNodeStart(i) = Ends[i - 1] /\ offsetNodeStart(i) \in Nat
           /\ offsetNodeEnd(i) = Ends[i] /\ offsetNodeEnd(i) \in Nat
           /\ offsetNodeEnd(i) = offsetNodeStart(i) + Bytes(i)
           /\ Ends[0] <= offsetNodeStart(i)
  <1>1. i \in 1 .. Len(zones) /\ Len(zones) \in Nat
    BY DEF ConfOK
  <1>2. i - 1 \in 0 .. Len(zones) /\ i \in 0 .. Len(zones) /\ 0 \in 0 .. Len(zones)
    BY <1>1
  <1>3. Ends[i - 1] \in Nat /\ Ends[i] \in Nat /\ Ends[i] = Ends[i - 1] + Bytes(i)
    BY <1>1, <1>2, Totals DEF IsTotal
  <1>4. Ends[0] <= Ends[i - 1]
    BY <1>2, EndsGrow
  <1> QED BY <1>1, <1>2, <1>3, <1>4 DEF offsetNodeStart, offsetNodeEnd, Bytes

(* The node with number m of a zone is in the zone.                        *)
LEMMA NodeInZone ==
    ASSUME ConfOK, NEW i \in DOMAIN zones, NEW h \in WalkZone(i), NEW p \in Nat,
           p \in NodeBytes(h, i)
    PROVE  /\ offsetNodeStart(i) <= p /\ p < offsetNodeEnd(i)
           /\ h = offsetNodeStart(i)
                  + Stride(zones[i]) * ((p - offsetNodeStart(i)) \div Stride(zones[i]))
  <1> DEFINE s == Stride(zones[i])
             c == zones[i].cnt
             o == offsetNodeStart(i)
  <1>1. s \in Nat \ {0} /\ c \in Nat \ {0} /\ o \in Nat /\ offsetNodeEnd(i) = o + s * c
    BY ZoneSpan, ZoneBytes DEF Bytes
  <1>2. PICK m \in 0 .. c - 1 : h = o + m * s
    BY DEF WalkZone, Walk
  <1>3. h <= p /\ p <= h + s - 1
    BY <1>1, <1>2 DEF NodeBytes
  <1> HIDE DEF s, c, o
  <1>4. m \in Nat /\ m < c /\ m * s = s * m /\ s * m \in Nat /\ s * c \in Nat
    BY <1>1, <1>2, Products
  <1>5. s * m + s <= s * c
    BY <1>1, <1>4, Products
  <1>6. p - o \in Nat /\ s * m <= p - o /\ p - o < s * m + s /\ p - o < s * c
    BY <1>1, <1>2, <1>3, <1>4, <1>5
  <1>7. m = (p - o) \div s
    BY <1>1, <1>4, <1>6, Quotient
  <1> QED BY <1>1, <1>2, <1>4, <1>6, <1>7 DEF s, o

(* nifo_get_offset_node finds the node of every pointer into the node      *)
(* area, and no other node holds that byte.                                *)
THEOREM EveryByteHasItsNode == Spec => []OffsetFindsNode
  <1>1. PtrInside => OffsetFindsNode
    <2> SUFFICES ASSUME PtrInside PROVE OffsetFindsNode
      OBVIOUS
    <2>0. ConfOK /\ ptr \in Nat /\ ptr < Ends[Len(zones)] /\ Len(zones) \in Nat
          /\ DOMAIN zones = 1 .. Len(zones)
      BY DEF PtrInside, ConfOK
    <2>a. Ends[0] = InfoSize + headRoomSize /\ Ends[0] \in Nat
      <3>1. 0 \in 0 .. Len(zones)
        BY <2>0
      <3> QED BY <2>0, <3>1, Totals DEF IsTotal
    <2> DEFINE all    == UNION {{i} \X WalkZone(i) : i \in DOMAIN zones}
               owners == {o \in all : ptr \in NodeBytes(o[2], o[1])}
               in     == {i \in DOMAIN zones :
                             offsetNodeStart(i) <= ptr /\ offsetNodeEnd(i) > ptr}
    <2>1. ASSUME NEW o \in owners
          PROVE  /\ o[1] \in DOMAIN zones /\ o = <<o[1], o[2]>> /\ o[2] \in WalkZone(o[1])
                 /\ ptr \in NodeBytes(o[2], o[1]) /\ o[1] \in in
      <3>1. PICK i \in DOMAIN zones : o \in {i} \X WalkZone(i)
        OBVIOUS
      <3>2. o[1] = i /\ o = <<o[1], o[2]>> /\ o[2] \in WalkZone(i)
        BY <3>1
      <3>3. ptr \in NodeBytes(o[2], o[1])
        OBVIOUS
      <3>4. offsetNodeStart(i) <= ptr /\ ptr < offsetNodeEnd(i)
        BY <2>0, <3>2, <3>3, NodeInZone
      <3>5. offsetNodeStart(i) \in Nat /\ offsetNodeEnd(i) \in Nat
        BY <2>0, ZoneSpan
      <3> QED BY <2>0, <3>2, <3>3, <3>4, <3>5
    <2>2. CASE ptr < Ends[0]
      <3>1. in = {}
        BY <2>0, <2>a, <2>2, ZoneSpan
      <3>2. owners = {}
        BY <2>1, <3>1
      <3> QED BY <2>2, <2>a, <3>1, <3>2 DEF OffsetFindsNode, nifo_get_offset_node
    <2>3. CASE ~ (ptr < Ends[0])
      <3>1. PICK i \in 1 .. Len(zones) :
               /\ Ends[i - 1] <= ptr /\ ptr < Ends[i]
               /\ \A j \in 1 .. Len(zones) : Ends[j - 1] <= ptr /\ ptr < Ends[j] => j = i
        <4>1. Ends[0] <= ptr
          BY <2>0, <2>a, <2>3
        <4> QED BY <2>0, <4>1, OneZone
      <3>2. in = {i}
        <4>1. ASSUME NEW j \in DOMAIN zones
              PROVE  /\ offsetNodeStart(j) = Ends[j - 1] /\ offsetNodeEnd(j) = Ends[j]
                     /\ (offsetNodeEnd(j) > ptr <=> ptr < Ends[j])
          BY <2>0, ZoneSpan
        <4> QED BY <2>0, <3>1, <4>1
      <3>3. (CHOOSE j \in in : \A k \in in : j <= k) = i
        BY <2>0, <3>2
      <3> DEFINE s == Stride(zones[i])
                 c == zones[i].cnt
                 b == ptr - offsetNodeStart(i)
                 h == offsetNodeStart(i) + s * (b \div s)
      <3>4. nifo_get_offset_node(ptr) = h + HdrSize
        <4> HIDE DEF in
        <4>1. nifo_get_offset_node(ptr) =
                IF in = {} THEN 0
                ELSE LET i1   == CHOOSE j \in in : \A k \in in : j <= k
                         base == ptr - offsetNodeStart(i1)
                     IN  offsetNodeStart(i1)
                           + Stride(zones[i1]) * (base \div Stride(zones[i1])) + HdrSize
          BY DEF nifo_get_offset_node, in
        <4> QED BY <3>2, <3>3, <4>1
      <3>5. /\ s \in Nat \ {0} /\ c \in Nat \ {0} /\ offsetNodeStart(i) \in Nat
            /\ b \in Nat /\ b < s * c /\ s * c \in Nat
        <4>1. i \in DOMAIN zones /\ s \in Nat \ {0} /\ c \in Nat \ {0} /\ s * c \in Nat
          BY <2>0, ZoneBytes DEF Bytes
        <4>2. /\ offsetNodeStart(i) = Ends[i - 1] /\ offsetNodeStart(i) \in Nat
              /\ offsetNodeEnd(i) = Ends[i] /\ offsetNodeEnd(i) = offsetNodeStart(i) + s * c
          BY <2>0, <4>1, ZoneSpan DEF Bytes
        <4> HIDE DEF s, c
        <4> QED BY <2>0, <3>1, <4>1, <4>2
      <3>6. b \div s \in 0 .. c - 1 /\ s * (b \div s) <= b /\ b < s * (b \div s) + s
        <4> HIDE DEF s, c, b
        <4> QED BY <3>5, Quotient
      <3>7. h \in WalkZone(i) /\ ptr \in NodeBytes(h, i)
        <4> DEFINE q == b \div s
        <4>1. q \in Nat /\ q \in 0 .. c - 1
          BY <3>5, <3>6
        <4>2. s * q = q * s /\ s * q \in Nat
          <5> HIDE DEF s, q
          <5> QED BY <3>5, <4>1
        <4>3. h = offsetNodeStart(i) + q * s
          BY <4>2
        <4>4. h \in WalkZone(i)
          <5> HIDE DEF q, h, b
          <5> QED BY <4>1, <4>3 DEF WalkZone, Walk
        <4>5. h \in Int /\ h <= ptr /\ ptr <= h + s - 1
          <5>1. s * q <= b /\ b < s * q + s /\ h = offsetNodeStart(i) + s * q
            BY <3>6
          <5> HIDE DEF q, h, s
          <5> QED BY <2>0, <3>5, <4>2, <5>1, SMTT(30)
        <4> QED BY <2>0, <3>5, <4>4, <4>5 DEF NodeBytes
      <3>8. <<i, h>> \in owners
        <4> HIDE DEF h
        <4>1. <<i, h>> \in all
          BY <2>0, <3>7
        <4> QED BY <3>7, <4>1
      <3>9. ASSUME NEW o \in owners PROVE o = <<i, h>>
        <4>1. o[1] = i /\ o = <<o[1], o[2]>> /\ o[2] \in WalkZone(i) /\ ptr \in NodeBytes(o[2], i)
              /\ i \in DOMAIN zones
          BY <2>0, <2>1, <3>2
        <4>2. o[2] = h
          BY <2>0, <4>1, NodeInZone
        <4> QED BY <4>1, <4>2
      <3>10. owners = {<<i, h>>}
        <4> HIDE DEF owners, h
        <4> QED BY <3>8, <3>9
      <3> HIDE DEF h
      <3>11. \E o \in owners : owners = {o} /\ nifo_get_offset_node(ptr) = o[2] + HdrSize
        <4> HIDE DEF owners
        <4> QED BY <3>4, <3>8, <3>10
      <3> QED BY <2>3, <2>a, <3>11 DEF OffsetFindsNode
    <2> QED BY <2>2, <2>3
  <1> QED BY <1>1, PtrInsideHolds, PTL
=============================================================================
