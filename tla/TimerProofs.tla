----------------------------- MODULE TimerProofs -----------------------------
(***************************************************************************)
(* Proofs about the timer wheel in TimerApp, for every length of the       *)
(* wheel, any number of timers, any lag of the main loop and whatever its  *)
(* callbacks do, as long as no update reaches beyond the wheel.            *)
(***************************************************************************)
EXTENDS TimerApp, TLAPS, FiniteSetTheorems

(* No timer is set again to a second the wheel does not hold: timerN.c:309 *)
(* leaves a node on its old list then.                                     *)
UpdateInReach == \A a \in UpdAhead : a + MaxLag <= N_DAY - ONE_MINUTE

Timer   == [idx : Index, time : 0 .. MaxTime, arg : {NoId}]
TimerId == [idx : Index, time : 0 .. MaxTime]

WheelType ==
    [uiCurrentTime : 0 .. MaxTime + 1, uiTimerNIdIndex : 1 .. MaxIdx,
     uiNodeCnt : Nat, uiLinkedCnt : Nat, wheel : [Slot -> Seq(Timer)]]

WheelInv(u) == u \in WheelType /\ WheelOK(u) /\ IsFiniteSet(Nodes(u))

-----------------------------------------------------------------------------
(* Times and slots.                                                        *)

(* timerN_timeout_func of a time is one of the lists of the wheel.         *)
LEMMA SlotOfTime == \A t \in Nat : timerN_timeout_func(t) \in Slot
  BY WheelAssumption DEF timerN_timeout_func, Slot

(* A multiple of n from 0 to n - 1 is 0.                                   *)
LEMMA ZeroTurns ==
    ASSUME NEW d \in Int, NEW n \in Nat \ {0}, 0 <= n * d, n * d < n
    PROVE  d = 0
  <1>1. CASE d >= 1
    <2>1. n * d >= n * 1
      BY <1>1, Z3
    <2> QED BY <2>1
  <1>2. CASE d <= -1
    <2>1. n * d <= n * (-1)
      BY <1>2, Z3
    <2> QED BY <2>1
  <1> QED BY <1>1, <1>2

(* Two times of one slot that are less than a turn apart are the same.     *)
LEMMA OneTimePerSlot ==
    ASSUME NEW a \in Nat, NEW b \in Nat, a <= b, b < a + N_DAY,
           timerN_timeout_func(a) = timerN_timeout_func(b)
    PROVE  a = b
  <1> DEFINE p == a \div N_DAY
             q == b \div N_DAY
  <1>0. N_DAY \in Nat \ {0}
    BY WheelAssumption
  <1>1. (a % N_DAY) = (b % N_DAY)
    BY DEF timerN_timeout_func
  <1>2. a = N_DAY * p + (a % N_DAY)
    BY <1>0
  <1>3. b = N_DAY * q + (b % N_DAY)
    BY <1>0
  <1>4. p \in Int /\ q \in Int
    BY <1>0
  <1>5. N_DAY * q - N_DAY * p = N_DAY * (q - p)
    BY <1>0, <1>4
  <1>6. b - a = N_DAY * (q - p)
    BY <1>0, <1>1, <1>2, <1>3, <1>4, <1>5
  <1>7. q - p = 0
    BY <1>0, <1>4, <1>6, ZeroTurns
  <1> QED BY <1>0, <1>1, <1>2, <1>3, <1>4, <1>7

-----------------------------------------------------------------------------
(* Lists.                                                                  *)

EachIndexOnce(s) == \A i, j \in DOMAIN s : s[i].idx = s[j].idx => i = j

(* hashg_unlink_node takes the one node with this index off a list.        *)
LEMMA WithoutOne ==
    ASSUME NEW s \in Seq(Timer), NEW n \in Timer, EachIndexOnce(s)
    PROVE  LET t == Without(s, n)
           IN  /\ t \in Seq(Timer)
               /\ EachIndexOnce(t)
               /\ {t[i] : i \in DOMAIN t} = {m \in {s[i] : i \in DOMAIN s} : m.idx # n.idx}
  <1> DEFINE at == {i \in DOMAIN s : s[i].idx = n.idx}
             t  == Without(s, n)
  <1>1. CASE at = {}
    <2>1. t = s
      BY <1>1 DEF Without
    <2>2. {s[i] : i \in DOMAIN s} = {m \in {s[i] : i \in DOMAIN s} : m.idx # n.idx}
      BY <1>1
    <2> QED BY <2>1, <2>2
  <1>2. CASE at # {}
    <2>1. PICK k : k = CHOOSE i \in at : TRUE
      OBVIOUS
    <2>2. k \in at
      BY <1>2, <2>1
    <2>3. t = [j \in 1 .. Len(s) - 1 |-> s[IF j < k THEN j ELSE j + 1]]
      BY <1>2, <2>1 DEF Without
    <2>4. Len(s) \in Nat /\ DOMAIN s = 1 .. Len(s) /\ \A i \in 1 .. Len(s) : s[i] \in Timer
      OBVIOUS
    <2>5. k \in 1 .. Len(s) /\ s[k].idx = n.idx
      BY <2>2, <2>4
    <2>6. \A i \in 1 .. Len(s) : s[i].idx = n.idx => i = k
      BY <2>4, <2>5 DEF EachIndexOnce
    <2>7. DOMAIN t = 1 .. Len(s) - 1
      BY <2>3
    <2>8. ASSUME NEW j \in 1 .. Len(s) - 1
          PROVE  /\ t[j] = s[IF j < k THEN j ELSE j + 1]
                 /\ (IF j < k THEN j ELSE j + 1) \in 1 .. Len(s)
                 /\ (IF j < k THEN j ELSE j + 1) # k
      BY <2>3, <2>4, <2>5
    <2>9. t \in Seq(Timer)
      <3>1. Len(s) - 1 \in Nat
        BY <2>4, <2>5
      <3>2. t \in [1 .. Len(s) - 1 -> Timer]
        BY <2>3, <2>4, <2>8
      <3> QED BY <3>1, <3>2
    <2>10. EachIndexOnce(t)
      <3> SUFFICES ASSUME NEW i \in 1 .. Len(s) - 1, NEW j \in 1 .. Len(s) - 1,
                          t[i].idx = t[j].idx
                   PROVE  i = j
        BY <2>7 DEF EachIndexOnce
      <3> DEFINE p == IF i < k THEN i ELSE i + 1
                 q == IF j < k THEN j ELSE j + 1
      <3>1. p \in DOMAIN s /\ q \in DOMAIN s /\ s[p].idx = s[q].idx /\ p # k /\ q # k
        BY <2>4, <2>8
      <3>2. p = q
        <4> HIDE DEF p, q
        <4> QED BY <3>1 DEF EachIndexOnce
      <3> QED BY <2>4, <2>5, <3>2
    <2>11. ASSUME NEW j \in DOMAIN t
           PROVE  t[j] \in {m \in {s[i] : i \in DOMAIN s} : m.idx # n.idx}
      BY <2>4, <2>6, <2>7, <2>8
    <2>12. ASSUME NEW i \in DOMAIN s, s[i].idx # n.idx
           PROVE  \E j \in DOMAIN t : t[j] = s[i]
      <3>1. i # k
        BY <2>5, <2>12
      <3>2. CASE i < k
        BY <2>4, <2>5, <2>7, <2>8, <3>2
      <3>3. CASE i > k
        <4>1. i - 1 \in 1 .. Len(s) - 1 /\ ~(i - 1 < k) /\ (i - 1) + 1 = i
          BY <2>4, <2>5, <3>3
        <4>2. t[i - 1] = s[i]
          BY <4>1, <2>8
        <4> QED BY <4>1, <4>2, <2>7
      <3> QED BY <2>4, <2>5, <3>1, <3>2, <3>3
    <2>13. {t[i] : i \in DOMAIN t} = {m \in {s[i] : i \in DOMAIN s} : m.idx # n.idx}
      BY <2>11, <2>12
    <2> QED BY <2>9, <2>10, <2>13
  <1> QED BY <1>1, <1>2

(* hashg_link_node puts a node at the head of a list.                      *)
LEMMA WithOne ==
    ASSUME NEW s \in Seq(Timer), NEW n \in Timer, EachIndexOnce(s),
           \A i \in DOMAIN s : s[i].idx # n.idx
    PROVE  LET t == <<n>> \o s
           IN  /\ t \in Seq(Timer)
               /\ EachIndexOnce(t)
               /\ {t[i] : i \in DOMAIN t} = {s[i] : i \in DOMAIN s} \cup {n}
  <1> DEFINE t == <<n>> \o s
  <1>1. /\ Len(s) \in Nat /\ DOMAIN s = 1 .. Len(s)
        /\ t \in Seq(Timer) /\ Len(t) = Len(s) + 1 /\ DOMAIN t = 1 .. Len(s) + 1
    OBVIOUS
  <1>2. t[1] = n /\ \A i \in 2 .. Len(s) + 1 : t[i] = s[i - 1]
    OBVIOUS
  <1>3. \A i \in 1 .. Len(s) : t[i + 1] = s[i]
    BY <1>1, <1>2
  <1>4. EachIndexOnce(t)
    <2> SUFFICES ASSUME NEW i \in 1 .. Len(s) + 1, NEW j \in 1 .. Len(s) + 1,
                        t[i].idx = t[j].idx
                 PROVE  i = j
      BY <1>1 DEF EachIndexOnce
    <2>1. CASE i = 1 \/ j = 1
      BY <1>1, <1>2, <2>1, SMTT(30)
    <2>2. CASE i # 1 /\ j # 1
      <3>1. i - 1 \in DOMAIN s /\ j - 1 \in DOMAIN s /\ s[i - 1].idx = s[j - 1].idx
        BY <1>1, <1>2, <2>2
      <3> QED BY <3>1, <1>1 DEF EachIndexOnce
    <2> QED BY <2>1, <2>2
  <1>5. {t[i] : i \in DOMAIN t} = {s[i] : i \in DOMAIN s} \cup {n}
    <2>1. ASSUME NEW i \in DOMAIN t PROVE t[i] \in {s[j] : j \in DOMAIN s} \cup {n}
      <3>1. CASE i = 1
        BY <1>2, <3>1
      <3>2. CASE i # 1
        BY <1>1, <1>2, <3>2
      <3> QED BY <3>1, <3>2
    <2>2. ASSUME NEW i \in DOMAIN s PROVE s[i] \in {t[j] : j \in DOMAIN t}
      <3>1. i + 1 \in DOMAIN t /\ t[i + 1] = s[i]
        BY <1>1, <1>3
      <3> QED BY <3>1
    <2>3. n \in {t[j] : j \in DOMAIN t}
      BY <1>1, <1>2
    <2> QED BY <2>1, <2>2, <2>3
  <1> QED BY <1>1, <1>4, <1>5

-----------------------------------------------------------------------------
(* Wheels.                                                                 *)

(* The lists of a wheel hold each index once, and its nodes are timers.    *)
LEMMA ListsOfWheel ==
    ASSUME NEW u \in WheelType, OneEach(u)
    PROVE  /\ Nodes(u) \subseteq Timer
           /\ \A b \in Slot : u.wheel[b] \in Seq(Timer) /\ EachIndexOnce(u.wheel[b])
           /\ \A b \in Slot : On(u, b) = {u.wheel[b][i] : i \in DOMAIN u.wheel[b]}
  <1>1. \A b \in Slot : u.wheel[b] \in Seq(Timer)
    BY DEF WheelType
  <1>2. \A b \in Slot : \A i \in DOMAIN u.wheel[b] : u.wheel[b][i] \in Timer
    BY <1>1
  <1>3. Nodes(u) \subseteq Timer
    BY <1>2 DEF Nodes, On
  <1>4. ASSUME NEW b \in Slot PROVE EachIndexOnce(u.wheel[b])
    <2>1. \A i \in DOMAIN u.wheel[b] : u.wheel[b][i] \in Nodes(u)
      BY DEF Nodes, On
    <2> QED BY <2>1 DEF OneEach, EachIndexOnce
  <1> QED BY <1>1, <1>3, <1>4 DEF On

(* What hashg_unlink_node does to a wheel.                                 *)
LEMMA Unlinked ==
    ASSUME NEW u \in WheelType, OnItsList(u), OneEach(u), NEW n \in Nodes(u)
    PROVE  LET v == hashg_unlink_node(u, n)
           IN  /\ v.wheel \in [Slot -> Seq(Timer)]
               /\ \A b \in Slot : On(v, b) = On(u, b) \ {n}
               /\ Nodes(v) = Nodes(u) \ {n}
               /\ OneEach(v)
  <1> DEFINE v == hashg_unlink_node(u, n)
  <1>1. n \in Timer
    BY ListsOfWheel
  <1>2. v.wheel = [b \in Slot |-> Without(u.wheel[b], n)]
    BY DEF hashg_unlink_node, WheelType
  <1>3. ASSUME NEW b \in Slot
        PROVE  /\ v.wheel[b] \in Seq(Timer)
               /\ EachIndexOnce(v.wheel[b])
               /\ On(v, b) = On(u, b) \ {n}
    <2>1. /\ v.wheel[b] = Without(u.wheel[b], n)
          /\ u.wheel[b] \in Seq(Timer) /\ EachIndexOnce(u.wheel[b])
      BY <1>2, ListsOfWheel
    <2>2. /\ v.wheel[b] \in Seq(Timer) /\ EachIndexOnce(v.wheel[b])
          /\ On(v, b) = {m \in On(u, b) : m.idx # n.idx}
      <3> HIDE DEF v
      <3>1. LET t == Without(u.wheel[b], n)
            IN  /\ t \in Seq(Timer)
                /\ EachIndexOnce(t)
                /\ {t[i] : i \in DOMAIN t} = {m \in On(u, b) : m.idx # n.idx}
        BY <1>1, <2>1, WithoutOne DEF On
      <3> QED BY <2>1, <3>1 DEF On
    <2>3. \A m \in On(u, b) : m.idx = n.idx => m = n
      BY DEF OneEach, Nodes
    <2> QED BY <2>2, <2>3
  <1>4. v.wheel \in [Slot -> Seq(Timer)]
    BY <1>2, <1>3
  <1>5. Nodes(v) = Nodes(u) \ {n}
    BY <1>3 DEF Nodes
  <1>6. OneEach(v)
    <2>1. \A m, k \in Nodes(v) : m.idx = k.idx => m = k
      BY <1>5 DEF OneEach
    <2>2. \A b \in Slot : \A i, j \in DOMAIN v.wheel[b] : v.wheel[b][i] = v.wheel[b][j] => i = j
      BY <1>3 DEF EachIndexOnce
    <2> QED BY <2>1, <2>2 DEF OneEach
  <1> HIDE DEF v
  <1> QED BY <1>3, <1>4, <1>5, <1>6 DEF v

(* What hashg_link_node does to a wheel.                                   *)
LEMMA Linked ==
    ASSUME NEW u \in WheelType, OneEach(u), NEW n \in Timer,
           \A m \in Nodes(u) : m.idx # n.idx
    PROVE  LET v == hashg_link_node(u, n)
               s == timerN_timeout_func(n.time)
           IN  /\ v.wheel \in [Slot -> Seq(Timer)]
               /\ \A b \in Slot : On(v, b) = IF b = s THEN On(u, b) \cup {n} ELSE On(u, b)
               /\ Nodes(v) = Nodes(u) \cup {n}
               /\ OneEach(v)
  <1> DEFINE v == hashg_link_node(u, n)
             s == timerN_timeout_func(n.time)
  <1>1. s \in Slot
    BY SlotOfTime, AppAssumption DEF Timer
  <1>2. v.wheel = [u.wheel EXCEPT ![s] = <<n>> \o @]
    BY DEF hashg_link_node, WheelType
  <1>3. ASSUME NEW b \in Slot
        PROVE  /\ v.wheel[b] \in Seq(Timer)
               /\ EachIndexOnce(v.wheel[b])
               /\ On(v, b) = IF b = s THEN On(u, b) \cup {n} ELSE On(u, b)
    <2>0. u.wheel \in [Slot -> Seq(Timer)]
      BY DEF WheelType
    <2>1. u.wheel[b] \in Seq(Timer) /\ EachIndexOnce(u.wheel[b])
      BY ListsOfWheel
    <2>2. \A i \in DOMAIN u.wheel[b] : u.wheel[b][i].idx # n.idx
      BY DEF Nodes, On
    <2>3. CASE b = s
      <3>1. v.wheel[b] = <<n>> \o u.wheel[b]
        BY <1>2, <2>0, <2>3
      <3>2. LET t == <<n>> \o u.wheel[b]
            IN  /\ t \in Seq(Timer)
                /\ EachIndexOnce(t)
                /\ {t[i] : i \in DOMAIN t} = On(u, b) \cup {n}
        BY <2>1, <2>2, WithOne DEF On
      <3> HIDE DEF v
      <3> QED BY <2>3, <3>1, <3>2, ZenonT(30) DEF On
    <2>4. CASE b # s
      <3>1. v.wheel[b] = u.wheel[b]
        BY <1>2, <2>0, <2>4
      <3> QED BY <2>1, <2>4, <3>1 DEF On
    <2> QED BY <2>3, <2>4
  <1>4. v.wheel \in [Slot -> Seq(Timer)]
    <2>1. v.wheel = [b \in Slot |-> v.wheel[b]]
      BY <1>2 DEF WheelType
    <2> QED BY <1>3, <2>1
  <1>5. Nodes(v) = Nodes(u) \cup {n}
    BY <1>1, <1>3 DEF Nodes
  <1>6. OneEach(v)
    <2>1. \A m, k \in Nodes(v) : m.idx = k.idx => m = k
      BY <1>5 DEF OneEach
    <2>2. \A b \in Slot : \A i, j \in DOMAIN v.wheel[b] : v.wheel[b][i] = v.wheel[b][j] => i = j
      BY <1>3 DEF EachIndexOnce
    <2> QED BY <2>1, <2>2 DEF OneEach
  <1> HIDE DEF v, s
  <1> QED BY <1>3, <1>4, <1>5, <1>6 DEF v, s

(* The nodes of a wheel depend on its lists only.                          *)
LEMMA SameLists ==
    ASSUME NEW u, NEW v, u.wheel = v.wheel
    PROVE  /\ Nodes(u) = Nodes(v)
           /\ \A b \in Slot : On(u, b) = On(v, b)
           /\ OneEach(u) <=> OneEach(v)
  <1>1. \A b \in Slot : On(u, b) = On(v, b)
    BY DEF On
  <1>2. Nodes(u) = Nodes(v)
    BY <1>1, Zenon DEF Nodes
  <1> QED BY <1>1, <1>2 DEF OneEach

(* uiNodeCnt counted down and up again, whatever else is changed between.  *)
LEMMA CountTwice ==
    ASSUME NEW u \in WheelType, NEW lists, NEW k, NEW j
    PROVE  [u EXCEPT !.wheel = lists, !.uiLinkedCnt = k]
             = [[[u EXCEPT !.uiNodeCnt = j] EXCEPT !.wheel = lists, !.uiLinkedCnt = k]
                   EXCEPT !.uiNodeCnt = u.uiNodeCnt]
  BY DEF WheelType

(* The counts go along when a node is taken off.                           *)
LEMMA Removed ==
    ASSUME NEW u, WheelInv(u), NEW n \in Nodes(u)
    PROVE  LET v == [hashg_unlink_node(u, n) EXCEPT !.uiNodeCnt = @ - 1]
           IN  /\ WheelInv(v)
               /\ Nodes(v) = Nodes(u) \ {n}
               /\ v.uiCurrentTime = u.uiCurrentTime /\ v.uiTimerNIdIndex = u.uiTimerNIdIndex
               /\ v.uiLinkedCnt = u.uiLinkedCnt - 1
  <1> DEFINE f == hashg_unlink_node(u, n)
             v == [f EXCEPT !.uiNodeCnt = @ - 1]
  <1>0. u \in WheelType /\ OnItsList(u) /\ OneEach(u) /\ Counted(u) /\ IsFiniteSet(Nodes(u))
    BY DEF WheelInv, WheelOK
  <1>1. /\ f.wheel \in [Slot -> Seq(Timer)]
        /\ \A b \in Slot : On(f, b) = On(u, b) \ {n}
        /\ Nodes(f) = Nodes(u) \ {n}
        /\ OneEach(f)
    BY <1>0, Unlinked
  <1>2. /\ v = [u EXCEPT !.wheel = f.wheel, !.uiLinkedCnt = @ - 1, !.uiNodeCnt = @ - 1]
        /\ v.wheel = f.wheel
    BY <1>0 DEF hashg_unlink_node, WheelType
  <1>3. /\ v.uiCurrentTime = u.uiCurrentTime /\ v.uiTimerNIdIndex = u.uiTimerNIdIndex
        /\ v.uiLinkedCnt = u.uiLinkedCnt - 1 /\ v.uiNodeCnt = u.uiNodeCnt - 1
    <2> HIDE DEF v, f
    <2> QED BY <1>0, <1>2 DEF WheelType
  <1>4. /\ Nodes(v) = Nodes(u) \ {n}
        /\ \A b \in Slot : On(v, b) = On(u, b) \ {n}
        /\ OneEach(v)
    <2> HIDE DEF v, f
    <2> QED BY <1>1, <1>2, SameLists, ZenonT(30)
  <1> HIDE DEF v, f
  <1>5. /\ IsFiniteSet(Nodes(v))
        /\ Cardinality(Nodes(v)) = Cardinality(Nodes(u)) - 1
        /\ Cardinality(Nodes(v)) \in Nat
    BY <1>0, <1>4, FS_RemoveElement, FS_CardinalityType
  <1>6. Counted(v) /\ v.uiLinkedCnt \in Nat /\ v.uiNodeCnt \in Nat
    BY <1>0, <1>3, <1>5, WheelAssumption DEF Counted, WheelType
  <1>7. OnItsList(v)
    BY <1>0, <1>3, <1>4 DEF OnItsList
  <1>8. v \in WheelType
    BY <1>0, <1>1, <1>2, <1>6 DEF WheelType
  <1> QED BY <1>3, <1>4, <1>5, <1>6, <1>7, <1>8 DEF WheelInv, WheelOK, v, f

(* And when one with an index of its own is put on the list of its time.   *)
LEMMA Placed ==
    ASSUME NEW u, WheelInv(u), NEW n \in Timer,
           \A m \in Nodes(u) : m.idx # n.idx,
           u.uiCurrentTime <= n.time, n.time < u.uiCurrentTime + N_DAY,
           n.idx <= u.uiTimerNIdIndex, u.uiLinkedCnt < MaxNodeCnt
    PROVE  LET v == [hashg_link_node(u, n) EXCEPT !.uiNodeCnt = @ + 1]
           IN  /\ WheelInv(v)
               /\ Nodes(v) = Nodes(u) \cup {n}
               /\ v.uiCurrentTime = u.uiCurrentTime /\ v.uiTimerNIdIndex = u.uiTimerNIdIndex
  <1> DEFINE f == hashg_link_node(u, n)
             v == [f EXCEPT !.uiNodeCnt = @ + 1]
             s == timerN_timeout_func(n.time)
  <1>0. u \in WheelType /\ OnItsList(u) /\ OneEach(u) /\ Counted(u) /\ IsFiniteSet(Nodes(u))
    BY DEF WheelInv, WheelOK
  <1>1. /\ f.wheel \in [Slot -> Seq(Timer)]
        /\ \A b \in Slot : On(f, b) = IF b = s THEN On(u, b) \cup {n} ELSE On(u, b)
        /\ Nodes(f) = Nodes(u) \cup {n}
        /\ OneEach(f)
    BY <1>0, Linked
  <1>2. /\ v = [u EXCEPT !.wheel = f.wheel, !.uiLinkedCnt = @ + 1, !.uiNodeCnt = @ + 1]
        /\ v.wheel = f.wheel
    BY <1>0 DEF hashg_link_node, WheelType
  <1>3. /\ v.uiCurrentTime = u.uiCurrentTime /\ v.uiTimerNIdIndex = u.uiTimerNIdIndex
        /\ v.uiLinkedCnt = u.uiLinkedCnt + 1 /\ v.uiNodeCnt = u.uiNodeCnt + 1
    <2> HIDE DEF v, f
    <2> QED BY <1>0, <1>2 DEF WheelType
  <1>4. /\ Nodes(v) = Nodes(u) \cup {n}
        /\ \A b \in Slot : On(v, b) = IF b = s THEN On(u, b) \cup {n} ELSE On(u, b)
        /\ OneEach(v)
    <2> HIDE DEF v, f
    <2> QED BY <1>1, <1>2, SameLists
  <1> HIDE DEF v, f
  <1>5. /\ IsFiniteSet(Nodes(v))
        /\ Cardinality(Nodes(v)) = Cardinality(Nodes(u)) + 1
    BY <1>0, <1>4, FS_AddElement
  <1>6. Counted(v) /\ v.uiLinkedCnt \in Nat /\ v.uiNodeCnt \in Nat
    BY <1>0, <1>3, <1>5, WheelAssumption DEF Counted, WheelType
  <1>7. OnItsList(v)
    <2> SUFFICES ASSUME NEW b \in Slot, NEW m \in On(v, b)
                 PROVE  /\ b = timerN_timeout_func(m.time)
                        /\ u.uiCurrentTime <= m.time /\ m.time < u.uiCurrentTime + N_DAY
                        /\ 1 < m.idx /\ m.idx <= u.uiTimerNIdIndex
      BY <1>3 DEF OnItsList
    <2>1. CASE m \in On(u, b)
      BY <1>0, <2>1 DEF OnItsList
    <2>2. CASE m \notin On(u, b)
      <3>1. m = n /\ b = s
        BY <1>4, <2>2
      <3>2. 1 < n.idx
        BY AppAssumption DEF Timer, Index
      <3> QED BY <3>1, <3>2
    <2> QED BY <2>1, <2>2
  <1>8. v \in WheelType
    BY <1>0, <1>1, <1>2, <1>6 DEF WheelType
  <1> QED BY <1>3, <1>4, <1>5, <1>6, <1>7, <1>8 DEF WheelInv, WheelOK, v, f

(* hashg_find finds the timer with an id wherever it hangs.                *)
LEMMA Found ==
    ASSUME NEW u, WheelInv(u), NEW id \in TimerId
    PROVE  hashg_find(u, id) = {n \in Nodes(u) : IdOf(n) = id}
  <1> DEFINE s == timerN_timeout_func(id.time)
  <1>1. s \in Slot
    BY SlotOfTime, AppAssumption DEF TimerId
  <1>2. u \in WheelType /\ OnItsList(u) /\ OneEach(u)
    BY DEF WheelInv, WheelOK
  <1>3. hashg_find(u, id) = {n \in On(u, s) : IdOf(n) = id}
    BY DEF hashg_find, On
  <1>4. \A n \in On(u, s) : n \in Nodes(u)
    BY <1>1 DEF Nodes
  <1>5. ASSUME NEW n \in Nodes(u), IdOf(n) = id PROVE n \in On(u, s)
    <2>1. PICK b \in Slot : n \in On(u, b)
      BY DEF Nodes
    <2>2. n.time = id.time
      BY <1>5 DEF IdOf
    <2> QED BY <1>2, <2>1, <2>2 DEF OnItsList
  <1> QED BY <1>3, <1>4, <1>5

-----------------------------------------------------------------------------
(* The calls.                                                              *)

(* timerN_add puts one timer with a new index on the wheel, or none, and   *)
(* runs it at once if its second is over.                                  *)
LEMMA AddResult ==
    ASSUME NEW u, WheelInv(u), NEW time \in 0 .. MaxTime, u.uiTimerNIdIndex < MaxIdx
    PROVE  LET r == timerN_add(u, NoId, time)
               n == [idx |-> u.uiTimerNIdIndex + 1, time |-> time, arg |-> NoId]
           IN  /\ WheelInv(r.w) /\ r.w.uiCurrentTime = u.uiCurrentTime
               /\ \/ /\ r.id = NoId /\ Nodes(r.w) = Nodes(u)
                     /\ r.w.uiTimerNIdIndex \in {u.uiTimerNIdIndex, u.uiTimerNIdIndex + 1}
                     /\ r.invoked = {} \/ (r.invoked = {n} /\ time <= u.uiCurrentTime)
                  \/ /\ r.id = IdOf(n) /\ Nodes(r.w) = Nodes(u) \cup {n}
                     /\ r.w.uiTimerNIdIndex = u.uiTimerNIdIndex + 1
                     /\ r.invoked = {}
  <1> DEFINE r  == timerN_add(u, NoId, time)
             n  == [idx |-> u.uiTimerNIdIndex + 1, time |-> time, arg |-> NoId]
             u1 == [u EXCEPT !.uiTimerNIdIndex = @ + 1]
             u2 == hashg_add(u1, n)
  <1>0. u \in WheelType /\ OnItsList(u) /\ OneEach(u) /\ Counted(u) /\ IsFiniteSet(Nodes(u))
    BY DEF WheelInv, WheelOK
  <1>1. /\ u1.wheel = u.wheel /\ u1.uiCurrentTime = u.uiCurrentTime
        /\ u1.uiTimerNIdIndex = u.uiTimerNIdIndex + 1
        /\ u1.uiLinkedCnt = u.uiLinkedCnt /\ u1.uiNodeCnt = u.uiNodeCnt
        /\ u1 \in WheelType
    BY <1>0, AppAssumption, SMTT(30) DEF WheelType
  <1>2. n \in Timer
    BY <1>0, AppAssumption DEF Timer, Index, WheelType
  <1>3. Nodes(u1) = Nodes(u) /\ (\A b \in Slot : On(u1, b) = On(u, b)) /\ OneEach(u1)
    <2> HIDE DEF u1
    <2> QED BY <1>0, <1>1, SameLists
  <1>4. WheelInv(u1)
    <2> HIDE DEF u1
    <2>1. Counted(u1)
      BY <1>0, <1>1, <1>3 DEF Counted
    <2>2. OnItsList(u1)
      <3>1. \A b \in Slot : \A m \in On(u, b) : m \in Timer
        BY <1>0, ListsOfWheel DEF Nodes
      <3>2. \A m \in Timer : m.idx \in Int
        BY DEF Timer, Index
      <3>3. u.uiTimerNIdIndex \in Int
        BY <1>0 DEF WheelType
      <3> QED BY <1>0, <1>1, <1>3, <3>1, <3>2, <3>3 DEF OnItsList
    <2> QED BY <1>0, <1>1, <1>3, <2>1, <2>2 DEF WheelInv, WheelOK
  <1>5. CASE time <= u.uiCurrentTime
    <2>1. r.w = u /\ r.id = NoId /\ r.invoked = {n}
      BY <1>5 DEF timerN_add
    <2> HIDE DEF r
    <2> QED BY <1>5, <2>1 DEF r
  <1>6. CASE time > u.uiCurrentTime /\ ~(InReach(u, time) /\ u2 # u1)
    <2>1. r.w = u1 /\ r.id = NoId /\ r.invoked = {}
      <3>1. ~(time <= u.uiCurrentTime)
        BY <1>0, <1>6 DEF WheelType
      <3> HIDE DEF u2, u1
      <3> QED BY <1>6, <3>1 DEF timerN_add, u2, u1
    <2> HIDE DEF r, u1
    <2> QED BY <1>1, <1>3, <1>4, <2>1 DEF r
  <1>7. CASE time > u.uiCurrentTime /\ InReach(u, time) /\ u2 # u1
    <2>1. r.w = [u2 EXCEPT !.uiNodeCnt = @ + 1] /\ r.id = IdOf(n) /\ r.invoked = {}
      <3>1. ~(time <= u.uiCurrentTime)
        BY <1>0, <1>7 DEF WheelType
      <3> HIDE DEF u2, u1
      <3> QED BY <1>7, <3>1 DEF timerN_add, u2, u1
    <2>2. ~(u1.uiLinkedCnt >= MaxNodeCnt) /\ u2 = hashg_link_node(u1, n)
      <3> HIDE DEF u1, n
      <3> QED BY <1>7 DEF hashg_add
    <2>3. u1.uiLinkedCnt < MaxNodeCnt
      BY <1>0, <1>1, <2>2, WheelAssumption DEF WheelType
    <2>4. \A m \in Nodes(u1) : m.idx # n.idx
      <3>1. ASSUME NEW m \in Nodes(u) PROVE m.idx # u.uiTimerNIdIndex + 1
        <4>1. m.idx <= u.uiTimerNIdIndex
          BY <1>0 DEF OnItsList, Nodes
        <4>2. m.idx \in Int
          BY <1>0, ListsOfWheel DEF Timer, Index
        <4>3. u.uiTimerNIdIndex \in Int
          BY <1>0 DEF WheelType
        <4> QED BY <4>1, <4>2, <4>3
      <3> QED BY <1>3, <3>1
    <2>5. u1.uiCurrentTime <= n.time /\ n.time < u1.uiCurrentTime + N_DAY
      BY <1>0, <1>1, <1>7, WheelAssumption DEF InReach, WheelType
    <2>6. n.idx <= u1.uiTimerNIdIndex
      BY <1>0, <1>1 DEF WheelType
    <2>7. /\ WheelInv(r.w) /\ Nodes(r.w) = Nodes(u1) \cup {n}
          /\ r.w.uiCurrentTime = u1.uiCurrentTime /\ r.w.uiTimerNIdIndex = u1.uiTimerNIdIndex
      <3> HIDE DEF r, u1, u2, n
      <3> QED BY <1>2, <1>4, <2>1, <2>2, <2>3, <2>4, <2>5, <2>6, Placed
    <2> HIDE DEF r, u1, u2
    <2> QED BY <1>1, <1>3, <2>1, <2>7 DEF r
  <1>8. time \in Int /\ u.uiCurrentTime \in Int
    BY <1>0 DEF WheelType
  <1> QED BY <1>5, <1>6, <1>7, <1>8

(* timerN_del takes the timer with this id off the wheel, if there is one. *)
LEMMA DelResult ==
    ASSUME NEW u, WheelInv(u), NEW id \in TimerId
    PROVE  LET v == timerN_del(u, id)
           IN  /\ WheelInv(v)
               /\ v.uiCurrentTime = u.uiCurrentTime /\ v.uiTimerNIdIndex = u.uiTimerNIdIndex
               /\ \/ v = u /\ \A n \in Nodes(u) : IdOf(n) # id
                  \/ \E n \in Nodes(u) : IdOf(n) = id /\ Nodes(v) = Nodes(u) \ {n}
  <1>1. CASE hashg_find(u, id) = {}
    BY <1>1, Found DEF timerN_del
  <1>2. CASE hashg_find(u, id) # {}
    <2>1. PICK n : n = CHOOSE m \in hashg_find(u, id) : TRUE
      OBVIOUS
    <2>2. n \in Nodes(u) /\ IdOf(n) = id
      BY <1>2, <2>1, Found
    <2>3. timerN_del(u, id) = [hashg_unlink_node(u, n) EXCEPT !.uiNodeCnt = @ - 1]
      BY <1>2, <2>1 DEF timerN_del
    <2> QED BY <2>2, <2>3, Removed
  <1> QED BY <1>1, <1>2

\* What a call of timerN_update that is within reach may return.
UpdateOutcome(u, id, time, r) ==
    /\ WheelInv(r.w)
    /\ r.w.uiCurrentTime = u.uiCurrentTime /\ r.w.uiTimerNIdIndex = u.uiTimerNIdIndex
    /\ \/ /\ r.w = u /\ r.id = NoId /\ r.invoked = {}
          /\ \A n \in Nodes(u) : IdOf(n) # id
       \/ \E n \in Nodes(u) :
             /\ IdOf(n) = id
             /\ \/ /\ r.id = NoId /\ r.invoked = {[n EXCEPT !.time = time]}
                   /\ time <= u.uiCurrentTime
                   /\ Nodes(r.w) = Nodes(u) \ {n}
                \/ /\ r.id = IdOf([n EXCEPT !.time = time]) /\ r.invoked = {}
                   /\ Nodes(r.w) = (Nodes(u) \ {n}) \cup {[n EXCEPT !.time = time]}

(* timerN_update hangs the timer elsewhere, or takes it off to run it.     *)
LEMMA UpdateResult ==
    ASSUME NEW u, WheelInv(u), NEW id \in TimerId, NEW time \in 0 .. MaxTime, InReach(u, time)
    PROVE  UpdateOutcome(u, id, time, timerN_update(u, id, time))
  <1> DEFINE r == timerN_update(u, id, time)
  <1>0. u \in WheelType /\ OnItsList(u) /\ OneEach(u) /\ Counted(u) /\ IsFiniteSet(Nodes(u))
    BY DEF WheelInv, WheelOK
  <1>1. CASE hashg_find(u, id) = {}
    <2>1. r.w = u /\ r.id = NoId /\ r.invoked = {}
      BY <1>1 DEF timerN_update
    <2> HIDE DEF r
    <2> QED BY <1>1, <2>1, Found DEF r, UpdateOutcome
  <1>2. CASE hashg_find(u, id) # {}
    <2>1. PICK n : n = CHOOSE m \in hashg_find(u, id) : TRUE
      OBVIOUS
    <2>2. n \in Nodes(u) /\ IdOf(n) = id
      BY <1>2, <2>1, Found
    <2> DEFINE new == [n EXCEPT !.time = time]
               off == hashg_unlink_node(u, n)
               v   == [off EXCEPT !.uiNodeCnt = @ - 1]
    <2>3. /\ WheelInv(v) /\ Nodes(v) = Nodes(u) \ {n}
          /\ v.uiCurrentTime = u.uiCurrentTime /\ v.uiTimerNIdIndex = u.uiTimerNIdIndex
          /\ v.uiLinkedCnt = u.uiLinkedCnt - 1
      BY <2>2, Removed
    <2>4. CASE time <= u.uiCurrentTime
      <3>1. r.w = v /\ r.id = NoId /\ r.invoked = {new}
        BY <1>2, <2>1, <2>4 DEF timerN_update
      <3> HIDE DEF r, v, off
      <3> QED BY <2>2, <2>3, <2>4, <3>1 DEF r, UpdateOutcome
    <2>5. CASE ~(time <= u.uiCurrentTime)
      <3>1. r.w = hashg_link_node(off, new) /\ r.id = IdOf(new) /\ r.invoked = {}
        BY <1>2, <2>1, <2>5 DEF timerN_update
      <3>2. hashg_link_node(off, new) = [hashg_link_node(v, new) EXCEPT !.uiNodeCnt = @ + 1]
        <4>1. off \in WheelType
          BY <1>0, <2>3 DEF WheelInv, WheelType, hashg_unlink_node
        <4> DEFINE lists == [off.wheel EXCEPT ![timerN_timeout_func(new.time)] = <<new>> \o @]
        <4> HIDE DEF off, new
        <4>2. v.wheel = off.wheel /\ v.uiLinkedCnt = off.uiLinkedCnt /\ v.uiNodeCnt = off.uiNodeCnt - 1
          BY <4>1 DEF WheelType
        <4>3. hashg_link_node(off, new) = [off EXCEPT !.wheel = lists, !.uiLinkedCnt = @ + 1]
          BY <4>1 DEF hashg_link_node, WheelType
        <4>4. hashg_link_node(v, new) = [v EXCEPT !.wheel = lists, !.uiLinkedCnt = @ + 1]
          BY <4>1, <4>2 DEF hashg_link_node, WheelType
        <4> HIDE DEF lists
        <4>5. hashg_link_node(v, new).uiNodeCnt + 1 = off.uiNodeCnt
          <5>1. hashg_link_node(v, new).uiNodeCnt = v.uiNodeCnt
            BY <4>1, <4>4 DEF WheelType
          <5> QED BY <4>1, <4>2, <5>1 DEF WheelType
        <4>6. [off EXCEPT !.wheel = lists, !.uiLinkedCnt = off.uiLinkedCnt + 1]
                = [[[off EXCEPT !.uiNodeCnt = off.uiNodeCnt - 1]
                      EXCEPT !.wheel = lists, !.uiLinkedCnt = off.uiLinkedCnt + 1]
                      EXCEPT !.uiNodeCnt = off.uiNodeCnt]
          BY <4>1, CountTwice
        <4> QED BY <4>2, <4>3, <4>4, <4>5, <4>6
      <3>3. n \in Timer
        BY <1>0, <2>2, ListsOfWheel
      <3>4. new \in Timer /\ new.idx = n.idx /\ new.time = time
        BY <3>3 DEF Timer
      <3>5. \A m \in Nodes(v) : m.idx # new.idx
        BY <1>0, <2>2, <2>3, <3>4 DEF OneEach
      <3>6. v.uiCurrentTime <= new.time /\ new.time < v.uiCurrentTime + N_DAY
        <4> HIDE DEF v, new
        <4> QED BY <1>0, <2>3, <2>5, <3>4, WheelAssumption DEF InReach, WheelType
      <3>7. new.idx <= v.uiTimerNIdIndex
        <4> HIDE DEF v, new
        <4> QED BY <1>0, <2>2, <2>3, <3>4 DEF OnItsList, Nodes
      <3>8. v.uiLinkedCnt < MaxNodeCnt
        <4> HIDE DEF v
        <4> QED BY <1>0, <2>3, WheelAssumption DEF Counted, WheelType
      <3>9. /\ WheelInv(r.w) /\ Nodes(r.w) = Nodes(v) \cup {new}
            /\ r.w.uiCurrentTime = v.uiCurrentTime /\ r.w.uiTimerNIdIndex = v.uiTimerNIdIndex
        <4> HIDE DEF r, v, new
        <4> QED BY <2>3, <3>1, <3>2, <3>4, <3>5, <3>6, <3>7, <3>8, Placed
      <3> HIDE DEF r, v, off
      <3> QED BY <2>2, <2>3, <3>1, <3>9 DEF r, UpdateOutcome
    <2> QED BY <2>4, <2>5
  <1> QED BY <1>1, <1>2

-----------------------------------------------------------------------------
(* The process.                                                            *)

\* The wheel is at most MaxLag seconds behind the clock and one ahead.
Clocks == now <= w.uiCurrentTime + MaxLag /\ w.uiCurrentTime <= now + 1 /\ tt <= now

\* The process has the id of every timer on the wheel, and of none it deleted.
IdsKept ==
    /\ \A n \in Nodes(w) : ids[n.idx] = IdOf(n)
    /\ \A i \in deleted : ids[i] = NoId
    /\ \A i \in Index : i > w.uiTimerNIdIndex => ids[i] = NoId /\ i \notin deleted

\* No index that has run will be given out.
IndexPast == \A a \in fired \cup early : a.idx <= w.uiTimerNIdIndex

IInv == TypeOK /\ WheelInv(w) /\ Clocks /\ IdsKept /\ IndexPast

Armed == {IdOf(n) : n \in Nodes(w)}

\* What early holds: a timer run when it was set anew has no index.
EarlyId == [idx : Index \cup {0}, time : 0 .. MaxTime]

SetStep == [Set!Next]_<<Armed, fired, early, deleted, now>>

(* What IInv says of the types.                                            *)
LEMMA Types ==
    ASSUME IInv
    PROVE  /\ w \in WheelType /\ OnItsList(w) /\ OneEach(w) /\ Nodes(w) \subseteq Timer
           /\ \A n \in Nodes(w) : IdOf(n) \in TimerId /\ IdOf(n).idx = n.idx /\ IdOf(n).time = n.time
           /\ \A n \in Nodes(w) : n.idx \in Index /\ n.idx <= w.uiTimerNIdIndex
           /\ \A i \in Index : ids[i] # NoId => ids[i] \in TimerId /\ ids[i].idx = i
           /\ NoId \notin TimerId
  <1>1. w \in WheelType /\ OnItsList(w) /\ OneEach(w)
    BY DEF IInv, WheelInv, WheelOK
  <1>2. Nodes(w) \subseteq Timer
    BY <1>1, ListsOfWheel
  <1>3. \A n \in Timer : n.idx \in Index /\ IdOf(n) \in TimerId /\ IdOf(n).idx = n.idx /\ IdOf(n).time = n.time
    BY DEF Timer, TimerId, IdOf
  <1>4. \A n \in Nodes(w) : n.idx <= w.uiTimerNIdIndex
    BY <1>1 DEF OnItsList, Nodes
  <1>5. \A i \in Index : ids[i] # NoId => ids[i] \in TimerId /\ ids[i].idx = i
    BY DEF IInv, TypeOK, TimerId
  <1>6. NoId \notin TimerId
    BY DEF NoId, TimerId, Index
  <1> QED BY <1>1, <1>2, <1>3, <1>4, <1>5, <1>6

(* Taking a node off the wheel takes its id out of the armed timers.       *)
LEMMA ArmedWithout ==
    ASSUME IInv, NEW n \in Nodes(w)
    PROVE  {IdOf(m) : m \in Nodes(w) \ {n}} = Armed \ {IdOf(n)}
  <1>1. \A m \in Nodes(w) : IdOf(m) = IdOf(n) => m = n
    BY Types DEF OneEach
  <1> QED BY <1>1 DEF Armed

(* timerN_add arms a timer whose index was never used, runs it at once, no *)
(* more than a second too soon, or refuses it.                             *)
LEMMA AddStep ==
    ASSUME IInv, NEW a \in AddAhead, Add(now + a)
    PROVE  IInv' /\ SetStep
  <1> DEFINE r == timerN_add(w, NoId, now + a)
             n == [idx |-> w.uiTimerNIdIndex + 1, time |-> now + a, arg |-> NoId]
  <1>1. /\ w' = r.w /\ ids' = (IF r.id = NoId THEN ids ELSE [ids EXCEPT ![r.id.idx] = r.id])
        /\ early' = early \cup {[idx |-> 0, time |-> m.time] : m \in r.invoked}
        /\ UNCHANGED <<now, pc, tt, deleted, fired>>
        /\ now + a < MaxTime /\ w.uiTimerNIdIndex < MaxIdx
    BY DEF Add
  <1>2. now \in Nat /\ a \in Nat /\ now + a \in 0 .. MaxTime /\ w.uiTimerNIdIndex \in 1 .. MaxIdx
        /\ w.uiTimerNIdIndex + 1 \in Index
    <2>1. now \in 0 .. MaxTime /\ a \in Nat /\ w.uiTimerNIdIndex \in 1 .. MaxIdx
      BY AppAssumption, Types DEF IInv, TypeOK, WheelType
    <2> QED BY <1>1, <2>1, AppAssumption DEF Index
  <1>3. /\ WheelInv(w') /\ w'.uiCurrentTime = w.uiCurrentTime
        /\ \/ /\ r.id = NoId /\ Nodes(w') = Nodes(w)
              /\ w'.uiTimerNIdIndex \in {w.uiTimerNIdIndex, w.uiTimerNIdIndex + 1}
              /\ r.invoked = {} \/ (r.invoked = {n} /\ now + a <= w.uiCurrentTime)
           \/ /\ r.id = IdOf(n) /\ Nodes(w') = Nodes(w) \cup {n}
              /\ w'.uiTimerNIdIndex = w.uiTimerNIdIndex + 1
              /\ r.invoked = {}
    BY <1>1, <1>2, AddResult DEF IInv
  <1>4. n \in Timer /\ IdOf(n) \in TimerId /\ IdOf(n).idx = w.uiTimerNIdIndex + 1 /\ IdOf(n) # NoId
        /\ n.time = now + a
    BY <1>2, Types DEF Timer, TimerId, IdOf, NoId, Index
  <1> DEFINE e == [idx |-> 0, time |-> now + a]
  <1> HIDE DEF r, n
  <1>e. /\ e \in EarlyId /\ e.idx = 0
        /\ \/ r.invoked = {} /\ early' = early
           \/ /\ r.id = NoId /\ now + a <= w.uiCurrentTime
              /\ Nodes(w') = Nodes(w) /\ early' = early \cup {e}
    BY <1>1, <1>2, <1>3, <1>4 DEF EarlyId
  <1> HIDE DEF e
  <1>5. w' \in WheelType
    BY <1>3 DEF WheelInv
  <1>6. Clocks'
    BY <1>1, <1>3 DEF IInv, Clocks
  <1>7. IndexPast'
    <2>1. \A b \in fired \cup early : b.idx \in Int /\ b.idx <= w.uiTimerNIdIndex
      BY DEF IInv, TypeOK, IndexPast, Index
    <2> QED BY <1>1, <1>2, <1>3, <1>e, <2>1 DEF IndexPast
  <1>8. CASE r.id = NoId
    <2>1. Nodes(w') = Nodes(w) /\ ids' = ids
      BY <1>1, <1>3, <1>4, <1>8
    <2>2. TypeOK'
      <3>1. early' \subseteq EarlyId
        BY <1>e DEF IInv, TypeOK, EarlyId
      <3> QED BY <1>1, <1>5, <2>1, <3>1 DEF IInv, TypeOK, WheelType, Timer, EarlyId
    <2>3. IdsKept'
      BY <1>1, <1>2, <1>3, <2>1 DEF IInv, IdsKept, Index
    <2>4. SetStep
      <3>1. CASE early' = early
        BY <1>1, <2>1, <3>1 DEF SetStep, Armed
      <3>2. CASE early' = early \cup {e} /\ now + a <= w.uiCurrentTime
        <4>1. now + a <= now + 1
          <5>1. w.uiCurrentTime <= now + 1 /\ w.uiCurrentTime \in Int
            BY Types DEF IInv, Clocks, WheelType
          <5> QED BY <1>2, <3>2, <5>1
        <4>2. Set!RunNew(now + a)
          BY <1>1, <2>1, <3>2, <4>1 DEF Set!RunNew, Armed, e
        <4> QED BY <1>2, <4>2 DEF SetStep, Set!Next
      <3> QED BY <1>e, <3>1, <3>2
    <2> QED BY <1>3, <1>6, <1>7, <2>2, <2>3, <2>4 DEF IInv
  <1>9. CASE r.id # NoId
    <2>1. /\ r.id = IdOf(n) /\ Nodes(w') = Nodes(w) \cup {n}
          /\ w'.uiTimerNIdIndex = w.uiTimerNIdIndex + 1
          /\ ids' = [ids EXCEPT ![w.uiTimerNIdIndex + 1] = IdOf(n)]
      BY <1>1, <1>3, <1>4, <1>9
    <2>0. early' = early
      BY <1>9, <1>e
    <2>2. ids \in [Index -> TimerId \cup {NoId}]
      BY DEF IInv, TypeOK, TimerId
    <2>3. ids' \in [Index -> TimerId \cup {NoId}] /\ \A i \in Index : ids'[i] = NoId \/ ids'[i].idx = i
      BY <1>2, <1>4, <2>1, <2>2 DEF IInv, TypeOK
    <2>4. TypeOK'
      BY <1>1, <1>5, <2>0, <2>3 DEF IInv, TypeOK, WheelType, Timer, TimerId
    <2>5. IdsKept'
      <3>1. \A m \in Nodes(w') : ids'[m.idx] = IdOf(m)
        <4>1. ASSUME NEW m \in Nodes(w) PROVE ids'[m.idx] = IdOf(m)
          <5>1. m.idx \in Index /\ m.idx # w.uiTimerNIdIndex + 1 /\ ids[m.idx] = IdOf(m)
            BY <1>2, Types DEF IInv, IdsKept, Index
          <5> QED BY <2>1, <2>2, <5>1
        <4>2. n.idx = w.uiTimerNIdIndex + 1
          BY DEF n
        <4> QED BY <1>2, <2>1, <2>2, <4>1, <4>2
      <3>2. \A i \in deleted' : ids'[i] = NoId
        BY <1>1, <1>2, <2>1, <2>2 DEF IInv, IdsKept, TypeOK
      <3>3. \A i \in Index : i > w'.uiTimerNIdIndex => ids'[i] = NoId /\ i \notin deleted'
        BY <1>1, <1>2, <2>1, <2>2 DEF IInv, IdsKept, Index
      <3> QED BY <3>1, <3>2, <3>3 DEF IdsKept
    <2>6. SetStep
      <3>1. Armed' = Armed \cup {IdOf(n)}
        BY <2>1 DEF Armed
      <3>2. \A b \in Armed \cup fired \cup early : b.idx # IdOf(n).idx
        <4>1. \A b \in fired \cup early : b.idx \in Int /\ b.idx <= w.uiTimerNIdIndex
          BY DEF IInv, TypeOK, IndexPast, Index
        <4>2. \A b \in Armed : b.idx \in Int /\ b.idx <= w.uiTimerNIdIndex
          BY Types DEF Armed, Index
        <4> QED BY <1>2, <1>4, <4>1, <4>2
      <3>d. IdOf(n).idx \notin deleted
        <4>1. w.uiTimerNIdIndex + 1 > w.uiTimerNIdIndex
          BY <1>2
        <4> QED BY <1>2, <1>4, <4>1 DEF IInv, IdsKept
      <3>3. Set!Arm(IdOf(n))
        BY <1>1, <2>0, <3>1, <3>2, <3>d DEF Set!Arm, Set!Used, Armed
      <3>4. IdOf(n) \in Set!Timers
        BY <1>4 DEF Set!Timers, TimerId
      <3> QED BY <3>3, <3>4 DEF SetStep, Set!Next
    <2> QED BY <1>3, <1>6, <1>7, <2>4, <2>5, <2>6 DEF IInv
  <1> QED BY <1>8, <1>9

(* timerN_del cancels the timer whose last id the process has.             *)
LEMMA DelStep ==
    ASSUME IInv, NEW i \in Index, Del(i)
    PROVE  IInv' /\ SetStep
  <1>1. /\ ids[i] # NoId /\ w' = timerN_del(w, ids[i])
        /\ ids' = [ids EXCEPT ![i] = NoId] /\ deleted' = deleted \cup {i}
        /\ UNCHANGED <<now, pc, tt, fired, early>>
    BY DEF Del
  <1>2. ids[i] \in TimerId /\ ids[i].idx = i
    BY <1>1, Types
  <1>3. /\ WheelInv(w')
        /\ w'.uiCurrentTime = w.uiCurrentTime /\ w'.uiTimerNIdIndex = w.uiTimerNIdIndex
        /\ \/ w' = w /\ \A n \in Nodes(w) : IdOf(n) # ids[i]
           \/ \E n \in Nodes(w) : IdOf(n) = ids[i] /\ Nodes(w') = Nodes(w) \ {n}
    BY <1>1, <1>2, DelResult DEF IInv
  <1>4. ids \in [Index -> TimerId \cup {NoId}]
    BY DEF IInv, TypeOK, TimerId
  <1>5. \A m \in Nodes(w') : m \in Nodes(w) /\ m.idx # i
    <2>1. ASSUME NEW m \in Nodes(w), m.idx = i PROVE m \notin Nodes(w')
      <3>1. IdOf(m) = ids[i]
        BY <2>1 DEF IInv, IdsKept
      <3>2. PICK n \in Nodes(w) : IdOf(n) = ids[i] /\ Nodes(w') = Nodes(w) \ {n}
        BY <1>3, <2>1, <3>1
      <3>3. m = n
        BY <2>1, <3>1, <3>2, Types DEF OneEach
      <3> QED BY <3>2, <3>3
    <2> QED BY <1>3, <2>1
  <1>6. TypeOK'
    <2>1. w' \in WheelType
      BY <1>3 DEF WheelInv
    <2>2. ids' \in [Index -> TimerId \cup {NoId}] /\ \A j \in Index : ids'[j] = NoId \/ ids'[j].idx = j
      BY <1>1, <1>4 DEF IInv, TypeOK
    <2> QED BY <1>1, <2>1, <2>2 DEF IInv, TypeOK, WheelType, Timer, TimerId
  <1>7. Clocks' /\ IndexPast'
    BY <1>1, <1>3 DEF IInv, Clocks, IndexPast
  <1>8. IdsKept'
    <2>1. \A m \in Nodes(w') : ids'[m.idx] = IdOf(m)
      BY <1>1, <1>4, <1>5, Types DEF IInv, IdsKept
    <2>2. \A j \in deleted' : ids'[j] = NoId
      BY <1>1, <1>4 DEF IInv, IdsKept, TypeOK
    <2>3. i <= w.uiTimerNIdIndex
      BY <1>1, Types DEF IInv, IdsKept, WheelType, Index
    <2>4. \A j \in Index : j > w'.uiTimerNIdIndex => ids'[j] = NoId /\ j \notin deleted'
      <3>1. w.uiTimerNIdIndex \in Int
        BY Types DEF WheelType
      <3> QED BY <1>1, <1>3, <1>4, <2>3, <3>1 DEF IInv, IdsKept, Index
    <2> QED BY <2>1, <2>2, <2>4 DEF IdsKept
  <1>9. SetStep
    <2>1. i \notin deleted
      BY <1>1 DEF IInv, IdsKept
    <2>2. Armed' = {c \in Armed : c.idx # i}
      <3>1. \A m \in Nodes(w) : m.idx # i => m \in Nodes(w')
        BY <1>2, <1>3, Types
      <3>2. Nodes(w') = {m \in Nodes(w) : m.idx # i}
        BY <1>5, <3>1
      <3> QED BY <3>2, Types DEF Armed
    <2>3. Set!Cancel(i)
      BY <1>1, <2>1, <2>2 DEF Set!Cancel, Armed
    <2> QED BY <2>3 DEF SetStep, Set!Next
  <1> QED BY <1>3, <1>6, <1>7, <1>8, <1>9 DEF IInv

(* timerN_update within reach sets the timer again, or takes it off and    *)
(* runs it no more than a second too soon.                                 *)
LEMMA UpdateStep ==
    ASSUME UpdateInReach, IInv, NEW i \in Index, NEW a \in UpdAhead, Update(i, now + a)
    PROVE  IInv' /\ SetStep
  <1> DEFINE r == timerN_update(w, ids[i], now + a)
  <1>1. /\ ids[i] # NoId /\ w' = r.w /\ ids' = [ids EXCEPT ![i] = r.id]
        /\ early' = early \cup {IdOf(n) : n \in r.invoked}
        /\ UNCHANGED <<now, pc, tt, deleted, fired>>
        /\ now + a < MaxTime
    BY DEF Update
  <1>2. /\ now \in 0 .. MaxTime /\ a \in Nat /\ now + a \in 0 .. MaxTime
        /\ w.uiTimerNIdIndex \in 1 .. MaxIdx /\ w.uiCurrentTime \in Nat
    <2>1. now \in 0 .. MaxTime /\ a \in Nat
          /\ w.uiTimerNIdIndex \in 1 .. MaxIdx /\ w.uiCurrentTime \in Nat
      BY AppAssumption, Types DEF IInv, TypeOK, WheelType
    <2> QED BY <1>1, <2>1, AppAssumption
  <1>3. InReach(w, now + a)
    <2>1. a + MaxLag <= N_DAY - ONE_MINUTE /\ now <= w.uiCurrentTime + MaxLag
      BY DEF UpdateInReach, IInv, Clocks
    <2> QED BY <1>2, <2>1, AppAssumption, WheelAssumption DEF InReach
  <1>4. ids[i] \in TimerId /\ ids[i].idx = i
    BY <1>1, Types
  <1>5. /\ WheelInv(w')
        /\ w'.uiCurrentTime = w.uiCurrentTime /\ w'.uiTimerNIdIndex = w.uiTimerNIdIndex
        /\ \/ /\ w' = w /\ r.id = NoId /\ r.invoked = {}
              /\ \A n \in Nodes(w) : IdOf(n) # ids[i]
           \/ \E n \in Nodes(w) :
                 /\ IdOf(n) = ids[i]
                 /\ \/ /\ r.id = NoId /\ r.invoked = {[n EXCEPT !.time = now + a]}
                       /\ now + a <= w.uiCurrentTime
                       /\ Nodes(w') = Nodes(w) \ {n}
                    \/ /\ r.id = IdOf([n EXCEPT !.time = now + a]) /\ r.invoked = {}
                       /\ Nodes(w') = (Nodes(w) \ {n}) \cup {[n EXCEPT !.time = now + a]}
    <2>1. UpdateOutcome(w, ids[i], now + a, r)
      BY <1>2, <1>3, <1>4, UpdateResult DEF IInv
    <2> HIDE DEF r
    <2> QED BY <1>1, <2>1 DEF UpdateOutcome
  <1> HIDE DEF r
  <1>6. ids \in [Index -> TimerId \cup {NoId}]
    BY DEF IInv, TypeOK, TimerId
  <1>7. Clocks' /\ w' \in WheelType
    BY <1>1, <1>5 DEF IInv, Clocks, WheelInv
  \* What is left to show once the new ids and the new early runs are known.
  <1> DEFINE known ==
          /\ r.id = NoId \/ (r.id \in TimerId /\ r.id.idx = i)
          /\ \A m \in Nodes(w') : (m.idx = i /\ r.id = IdOf(m)) \/ (m.idx # i /\ m \in Nodes(w))
          /\ early' = early \/ early' = early \cup {[idx |-> i, time |-> now + a]}
  <1>8. ASSUME known PROVE IInv'
    <2>1. i <= w.uiTimerNIdIndex /\ i \notin deleted
      BY <1>1, <1>2 DEF IInv, IdsKept, Index
    <2>2. TypeOK'
      <3>1. ids' \in [Index -> TimerId \cup {NoId}] /\ \A j \in Index : ids'[j] = NoId \/ ids'[j].idx = j
        BY <1>1, <1>6, <1>8 DEF IInv, TypeOK
      <3>2. [idx |-> i, time |-> now + a] \in TimerId
        BY <1>2 DEF TimerId
      <3>3. fired' \subseteq TimerId /\ early' \subseteq EarlyId
        BY <1>1, <1>8, <3>2 DEF IInv, TypeOK, TimerId, EarlyId
      <3> QED BY <1>1, <1>7, <3>1, <3>3 DEF IInv, TypeOK, WheelType, Timer, TimerId, EarlyId
    <2>3. IndexPast'
      BY <1>1, <1>5, <1>8, <2>1 DEF IInv, IndexPast
    <2>4. IdsKept'
      <3>1. \A m \in Nodes(w') : ids'[m.idx] = IdOf(m)
        BY <1>1, <1>6, <1>8, Types DEF IInv, IdsKept
      <3>2. \A j \in deleted' : ids'[j] = NoId
        BY <1>1, <1>6, <2>1 DEF IInv, IdsKept, TypeOK
      <3>3. \A j \in Index : j > w'.uiTimerNIdIndex => ids'[j] = NoId /\ j \notin deleted'
        BY <1>1, <1>2, <1>5, <1>6, <2>1 DEF IInv, IdsKept, Index
      <3> QED BY <3>1, <3>2, <3>3 DEF IdsKept
    <2> QED BY <1>5, <1>7, <2>2, <2>3, <2>4 DEF IInv
  <1>9. CASE w' = w /\ r.id = NoId /\ r.invoked = {} /\ \A n \in Nodes(w) : IdOf(n) # ids[i]
    <2>1. \A m \in Nodes(w) : m.idx # i
      BY <1>9 DEF IInv, IdsKept
    <2>2. early' = early
      BY <1>1, <1>9
    <2>3. SetStep
      BY <1>1, <1>9, <2>2 DEF SetStep, Armed
    <2>4. \A m \in Nodes(w') : (m.idx = i /\ r.id = IdOf(m)) \/ (m.idx # i /\ m \in Nodes(w))
      BY <1>9, <2>1
    <2>5. known
      BY <1>9, <2>2, <2>4
    <2> HIDE DEF known
    <2> QED BY <1>8, <2>3, <2>5
  <1>10. ASSUME NEW n \in Nodes(w), IdOf(n) = ids[i],
                r.id = NoId, r.invoked = {[n EXCEPT !.time = now + a]},
                now + a <= w.uiCurrentTime, Nodes(w') = Nodes(w) \ {n}
         PROVE  IInv' /\ SetStep
    <2> DEFINE b == [idx |-> i, time |-> now + a]
    <2>1. n \in Timer /\ n.idx = i
      BY <1>4, <1>10, Types
    <2>2. IdOf([n EXCEPT !.time = now + a]) = b
      BY <2>1 DEF IdOf, Timer
    <2>3. early' = early \cup {b}
      BY <1>1, <1>10, <2>2
    <2>4. \A m \in Nodes(w') : m \in Nodes(w) /\ m.idx # i
      BY <1>10, <2>1, Types DEF OneEach
    <2>5. IInv'
      <3>1. \A m \in Nodes(w') : (m.idx = i /\ r.id = IdOf(m)) \/ (m.idx # i /\ m \in Nodes(w))
        BY <2>4
      <3>2. r.id = NoId
        BY <1>10
      <3>3. known
        BY <2>3, <3>1, <3>2
      <3> HIDE DEF known
      <3> QED BY <1>8, <3>3
    <2>6. Armed' = Armed \ {IdOf(n)}
      BY <1>10, ArmedWithout DEF Armed
    <2>7. b \in Set!Timers
      BY <1>2 DEF Set!Timers
    <2>8. b.time <= now + 1 /\ IdOf(n).idx = b.idx
      <3>1. w.uiCurrentTime <= now + 1
        BY DEF IInv, Clocks
      <3> QED BY <1>2, <1>10, <2>1, <3>1, Types
    <2> HIDE DEF b
    <2>9. Set!RunAtOnce(IdOf(n), b)
      BY <1>1, <2>3, <2>6, <2>8 DEF Set!RunAtOnce, Armed
    <2>10. IdOf(n) \in Armed
      BY DEF Armed
    <2>11. SetStep
      BY <2>7, <2>9, <2>10 DEF SetStep, Set!Next, Armed
    <2> QED BY <2>5, <2>11
  <1>11. ASSUME NEW n \in Nodes(w), IdOf(n) = ids[i],
                r.id = IdOf([n EXCEPT !.time = now + a]), r.invoked = {},
                Nodes(w') = (Nodes(w) \ {n}) \cup {[n EXCEPT !.time = now + a]}
         PROVE  IInv' /\ SetStep
    <2> DEFINE new == [n EXCEPT !.time = now + a]
    <2>1. n \in Timer /\ n.idx = i
      BY <1>4, <1>11, Types
    <2>2. IdOf(new) \in TimerId /\ IdOf(new).idx = i /\ new.idx = i
      BY <1>2, <2>1 DEF IdOf, Timer, TimerId
    <2>3. early' = early
      BY <1>1, <1>11
    <2>4. \A m \in Nodes(w) \ {n} : m.idx # i
      BY <2>1, Types DEF OneEach
    <2> HIDE DEF new
    <2>5. IInv'
      <3>1. known
        BY <1>11, <2>2, <2>3, <2>4 DEF new
      <3> HIDE DEF known
      <3> QED BY <1>8, <3>1
    <2>6. Armed' = (Armed \ {IdOf(n)}) \cup {IdOf(new)}
      BY <1>11, ArmedWithout DEF Armed, new
    <2>7. IdOf(new) \in Set!Timers
      BY <2>2 DEF Set!Timers, TimerId
    <2>8. IdOf(n).idx = IdOf(new).idx
      BY <2>1, <2>2, Types
    <2>9. Set!Rearm(IdOf(n), IdOf(new))
      BY <1>1, <2>3, <2>6, <2>8 DEF Set!Rearm, Armed
    <2>10. IdOf(n) \in Armed
      BY DEF Armed
    <2>11. SetStep
      BY <2>7, <2>9, <2>10 DEF SetStep, Set!Next, Armed
    <2> QED BY <2>5, <2>11
  <1> QED BY <1>5, <1>9, <1>10, <1>11

(* The nodes of the list timerN_invoke serves are due in this very second. *)
LEMMA DueNow ==
    ASSUME IInv
    PROVE  LET s == timerN_timeout_func(w.uiCurrentTime)
           IN  /\ s \in Slot /\ DueList(w) \in Seq(Timer)
               /\ On(w, s) = {DueList(w)[j] : j \in DOMAIN DueList(w)}
               /\ On(w, s) \subseteq Nodes(w)
               /\ \A n \in On(w, s) : n.time = w.uiCurrentTime
               /\ \A n \in Nodes(w) : n.time = w.uiCurrentTime => n \in On(w, s)
  <1> DEFINE s == timerN_timeout_func(w.uiCurrentTime)
  <1>1. w.uiCurrentTime \in Nat /\ s \in Slot
    BY Types, SlotOfTime, AppAssumption DEF WheelType
  <1>2. DueList(w) \in Seq(Timer) /\ On(w, s) = {DueList(w)[j] : j \in DOMAIN DueList(w)}
    BY <1>1, Types, ListsOfWheel DEF DueList
  <1>3. On(w, s) \subseteq Nodes(w)
    BY <1>1 DEF Nodes
  <1>4. ASSUME NEW n \in On(w, s) PROVE n.time = w.uiCurrentTime
    <2>1. n.time \in Nat
      BY <1>3, Types, AppAssumption DEF Timer
    <2>2. /\ s = timerN_timeout_func(n.time)
          /\ w.uiCurrentTime <= n.time /\ n.time < w.uiCurrentTime + N_DAY
      BY <1>1, Types DEF OnItsList
    <2> QED BY <1>1, <2>1, <2>2, OneTimePerSlot
  <1>5. ASSUME NEW n \in Nodes(w), n.time = w.uiCurrentTime PROVE n \in On(w, s)
    <2>1. PICK b \in Slot : n \in On(w, b)
      BY DEF Nodes
    <2> QED BY <1>5, <2>1, Types DEF OnItsList
  <1> QED BY <1>1, <1>2, <1>3, <1>4, <1>5

(* timerN_invoke runs a timer that is due, the earliest of all.            *)
LEMMA RunStep ==
    ASSUME IInv, InvokeRun
    PROVE  IInv' /\ SetStep
  <1> DEFINE n == Head(DueList(w))
  <1>1. /\ w.uiCurrentTime <= tt /\ DueList(w) # <<>> /\ w' = InvokeTake(w)
        /\ fired' = fired \cup {IdOf(n)} /\ pc' = "callback"
        /\ UNCHANGED <<now, tt, ids, deleted, early>>
    BY DEF InvokeRun
  <1>2. n \in Nodes(w) /\ n.time = w.uiCurrentTime
    <2>1. DueList(w) \in Seq(Timer)
      BY DueNow
    <2>2. n = DueList(w)[1] /\ 1 \in DOMAIN DueList(w)
      BY <1>1, <2>1
    <2> QED BY <2>2, DueNow
  <1>3. w' = [hashg_unlink_node(w, n) EXCEPT !.uiNodeCnt = @ - 1]
    BY <1>1 DEF InvokeTake
  <1> HIDE DEF n
  <1>4. /\ WheelInv(w') /\ Nodes(w') = Nodes(w) \ {n}
        /\ w'.uiCurrentTime = w.uiCurrentTime /\ w'.uiTimerNIdIndex = w.uiTimerNIdIndex
    BY <1>2, <1>3, Removed DEF IInv
  <1>5. IdOf(n) \in TimerId /\ IdOf(n).idx = n.idx /\ IdOf(n).time = n.time /\ n.idx <= w.uiTimerNIdIndex
    BY <1>2, Types
  <1>6. TypeOK'
    <2>1. w' \in WheelType
      BY <1>4 DEF WheelInv
    <2>2. fired' \subseteq TimerId /\ early' = early
      BY <1>1, <1>5 DEF IInv, TypeOK, TimerId
    <2> QED BY <1>1, <2>1, <2>2 DEF IInv, TypeOK, WheelType, Timer, TimerId
  <1>7. Clocks' /\ IdsKept' /\ IndexPast'
    BY <1>1, <1>4, <1>5 DEF IInv, Clocks, IdsKept, IndexPast
  <1>8. SetStep
    <2>1. Armed' = Armed \ {IdOf(n)}
      BY <1>2, <1>4, ArmedWithout DEF Armed
    <2>2. IdOf(n).time <= now
      <3>1. w.uiCurrentTime \in Int /\ tt \in Int /\ now \in Int /\ tt <= now
        BY Types DEF IInv, TypeOK, Clocks, WheelType
      <3> QED BY <1>1, <1>2, <1>5, <3>1
    <2>3. \A b \in Armed : IdOf(n).time <= b.time
      <3>1. \A m \in Nodes(w) : w.uiCurrentTime <= m.time
        BY Types DEF OnItsList, Nodes
      <3> QED BY <1>2, <1>5, <3>1, Types DEF Armed
    <2>4. Set!Run(IdOf(n))
      BY <1>1, <2>1, <2>2, <2>3 DEF Set!Run, Armed
    <2>5. IdOf(n) \in Armed
      BY <1>2 DEF Armed
    <2> QED BY <2>4, <2>5 DEF SetStep, Set!Next, Armed
  <1> QED BY <1>4, <1>6, <1>7, <1>8 DEF IInv

(* timerN_invoke leaves a second behind only when nothing is due in it.    *)
LEMMA NextSecondStep ==
    ASSUME IInv, InvokeNextSecond
    PROVE  IInv' /\ SetStep
  <1>1. /\ w.uiCurrentTime <= tt /\ DueList(w) = <<>>
        /\ w' = [w EXCEPT !.uiCurrentTime = @ + 1]
        /\ UNCHANGED <<now, pc, tt, ids, deleted, fired, early>>
    BY DEF InvokeNextSecond, InvokeStep
  <1>2. w \in WheelType /\ OnItsList(w) /\ OneEach(w) /\ Counted(w) /\ IsFiniteSet(Nodes(w))
    BY DEF IInv, WheelInv, WheelOK
  <1>3. /\ w'.wheel = w.wheel /\ w'.uiCurrentTime = w.uiCurrentTime + 1
        /\ w'.uiTimerNIdIndex = w.uiTimerNIdIndex
        /\ w'.uiLinkedCnt = w.uiLinkedCnt /\ w'.uiNodeCnt = w.uiNodeCnt
    BY <1>1, <1>2 DEF WheelType
  <1>4. w.uiCurrentTime \in Nat /\ tt \in 0 .. MaxTime /\ now \in 0 .. MaxTime /\ tt <= now
    BY <1>2, AppAssumption DEF IInv, TypeOK, Clocks, WheelType
  <1>5. w.uiCurrentTime + 1 \in 0 .. MaxTime + 1
    BY <1>1, <1>4, AppAssumption
  <1>6. w' \in WheelType
    BY <1>1, <1>2, <1>5 DEF WheelType
  <1>7. Nodes(w') = Nodes(w) /\ (\A b \in Slot : On(w', b) = On(w, b)) /\ OneEach(w')
    BY <1>2, <1>3, SameLists
  <1>8. Counted(w')
    BY <1>2, <1>3, <1>7 DEF Counted
  <1>9. OnItsList(w')
    <2>1. ASSUME NEW n \in Nodes(w) PROVE n.time # w.uiCurrentTime
      BY <1>1, DueNow
    <2>2. \A b \in Slot : \A n \in On(w, b) : n \in Nodes(w) /\ n.time \in Nat
      BY Types, AppAssumption DEF Timer, Nodes
    <2> QED BY <1>2, <1>3, <1>4, <1>7, <2>1, <2>2, WheelAssumption DEF OnItsList
  <1>10. WheelInv(w')
    BY <1>2, <1>6, <1>7, <1>8, <1>9 DEF WheelInv, WheelOK
  <1>11. TypeOK'
    BY <1>1, <1>6 DEF IInv, TypeOK, WheelType, Timer
  <1>12. Clocks'
    BY <1>1, <1>3, <1>4, AppAssumption DEF IInv, Clocks
  <1>13. IdsKept' /\ IndexPast'
    BY <1>1, <1>3, <1>7 DEF IInv, IdsKept, IndexPast
  <1>14. SetStep
    BY <1>1, <1>7 DEF SetStep, Armed
  <1> QED BY <1>10, <1>11, <1>12, <1>13, <1>14 DEF IInv

(* The clock goes on, but not away from the wheel.                         *)
LEMMA ClockStep ==
    ASSUME IInv, Tick
    PROVE  IInv' /\ SetStep
  <1>1. /\ now < MaxTime /\ now < w.uiCurrentTime + MaxLag /\ now' = now + 1
        /\ UNCHANGED <<w, pc, tt, ids, deleted, fired, early>>
    BY DEF Tick
  <1>2. now \in 0 .. MaxTime /\ w.uiCurrentTime \in Nat /\ tt \in 0 .. MaxTime
    BY Types, AppAssumption DEF IInv, TypeOK, WheelType
  <1>3. now' \in 0 .. MaxTime /\ now' > now
    BY <1>1, <1>2, AppAssumption
  <1>4. TypeOK'
    BY <1>1, <1>3 DEF IInv, TypeOK
  <1>5. Clocks'
    BY <1>1, <1>2, AppAssumption DEF IInv, Clocks
  <1>6. WheelInv(w') /\ IdsKept' /\ IndexPast'
    BY <1>1 DEF IInv, IdsKept, IndexPast
  <1>7. Set!Tick
    BY <1>1, <1>3 DEF Set!Tick, Armed
  <1> QED BY <1>4, <1>5, <1>6, <1>7 DEF IInv, SetStep, Set!Next, Armed

(* The other steps leave the wheel and the clock alone.                    *)
LEMMA QuietStep ==
    ASSUME IInv, UNCHANGED <<w, now, ids, deleted, fired, early>>,
           pc' \in {"main", "invoke", "callback"}, tt' \in {tt, now}
    PROVE  IInv' /\ SetStep
  <1>1. tt' \in 0 .. MaxTime /\ tt' <= now
    BY DEF IInv, TypeOK, Clocks
  <1>2. TypeOK' /\ Clocks'
    BY <1>1 DEF IInv, TypeOK, Clocks
  <1>3. WheelInv(w') /\ IdsKept' /\ IndexPast'
    BY DEF IInv, IdsKept, IndexPast
  <1>4. SetStep
    BY DEF SetStep, Armed
  <1> QED BY <1>2, <1>3, <1>4 DEF IInv

(* Every step keeps IInv and is a step of TimerSet or none.                *)
LEMMA EveryStep ==
    ASSUME UpdateInReach, IInv, [Next]_vars
    PROVE  IInv' /\ SetStep
  <1>1. ASSUME NEW a \in AddAhead, Add(now + a) PROVE IInv' /\ SetStep
    BY <1>1, AddStep
  <1>2. ASSUME NEW i \in Index, Del(i) PROVE IInv' /\ SetStep
    BY <1>2, DelStep
  <1>3. ASSUME NEW i \in Index, NEW a \in UpdAhead, Update(i, now + a) PROVE IInv' /\ SetStep
    BY <1>3, UpdateStep
  <1>4. CASE InvokeStart
    BY <1>4, QuietStep DEF InvokeStart
  <1>5. CASE InvokeRun
    BY <1>5, RunStep
  <1>6. CASE CallbackReturn
    BY <1>6, QuietStep DEF CallbackReturn
  <1>7. CASE InvokeNextSecond
    BY <1>7, NextSecondStep
  <1>8. CASE InvokeReturn
    BY <1>8, QuietStep DEF InvokeReturn
  <1>9. CASE Tick
    BY <1>9, ClockStep
  <1>10. CASE UNCHANGED vars
    <2>1. pc \in {"main", "invoke", "callback"}
      BY DEF IInv, TypeOK
    <2> QED BY <1>10, <2>1, QuietStep DEF vars
  <1> QED BY <1>1, <1>2, <1>3, <1>4, <1>5, <1>6, <1>7, <1>8, <1>9, <1>10
         DEF Next, Call, timerN_invoke

(* timerN_init makes an empty wheel.                                       *)
LEMMA InitInv == Init => IInv
  <1> SUFFICES ASSUME Init PROVE IInv
    OBVIOUS
  <1>1. w = timerN_init(0) /\ now = 0 /\ tt = 0 /\ pc = "main"
        /\ ids = [i \in Index |-> NoId] /\ deleted = {} /\ fired = {} /\ early = {}
    BY DEF Init
  <1>2. /\ w.wheel = [b \in Slot |-> <<>>] /\ w.uiCurrentTime = 0 /\ w.uiTimerNIdIndex = 1
        /\ w.uiNodeCnt = 0 /\ w.uiLinkedCnt = 0
    BY <1>1 DEF timerN_init
  <1>3. w \in WheelType
    BY <1>1, AppAssumption DEF WheelType, timerN_init
  <1>4. (\A b \in Slot : On(w, b) = {}) /\ Nodes(w) = {}
    <2>1. \A b \in Slot : On(w, b) = {}
      BY <1>2 DEF On
    <2> QED BY <2>1 DEF Nodes
  <1>5. OnItsList(w) /\ OneEach(w)
    BY <1>2, <1>4 DEF OnItsList, OneEach
  <1>6. IsFiniteSet(Nodes(w)) /\ Counted(w)
    BY <1>2, <1>4, FS_EmptySet, WheelAssumption DEF Counted
  <1>7. TypeOK
    <2>1. now \in 0 .. MaxTime /\ tt \in 0 .. MaxTime
      BY <1>1, AppAssumption
    <2>2. ids \in [Index -> TimerId \cup {NoId}] /\ \A i \in Index : ids[i] = NoId
      BY <1>1
    <2> QED BY <1>1, <1>3, <2>1, <2>2 DEF TypeOK, WheelType, Timer, TimerId
  <1>8. Clocks /\ IdsKept /\ IndexPast
    BY <1>1, <1>2, <1>4, AppAssumption DEF Clocks, IdsKept, IndexPast, Index
  <1> QED BY <1>3, <1>5, <1>6, <1>7, <1>8 DEF IInv, WheelInv, WheelOK

-----------------------------------------------------------------------------
(* IInv holds as long as no update reaches beyond the wheel.               *)
THEOREM Invariant ==
    ASSUME UpdateInReach
    PROVE  Spec => []IInv
  <1>1. IInv /\ [Next]_vars => IInv'
    BY EveryStep
  <1> QED BY <1>1, InitInv, PTL DEF Spec

(* The variables keep their types: the lists hold timers only, and an id   *)
(* the process keeps is one the wheel gave it for that index.              *)
THEOREM TimerTypes ==
    ASSUME UpdateInReach
    PROVE  Spec => []TypeOK
  <1>1. IInv => TypeOK
    BY DEF IInv
  <1> QED BY <1>1, Invariant, PTL

(* Whatever the callbacks set, reset and delete, every timer hangs on the  *)
(* list of its own time and is counted once: timerN_invoke, timerN_del and *)
(* timerN_update find it.                                                  *)
THEOREM WheelStaysExact ==
    ASSUME UpdateInReach
    PROVE  Spec => []WheelExact
  <1>1. IInv => WheelExact
    BY DEF IInv, WheelInv, WheelExact
  <1> QED BY <1>1, Invariant, PTL

(* timerN_del with the last id the process got is certain: the timer will  *)
(* not run.                                                                *)
THEOREM DeletionIsCertain ==
    ASSUME UpdateInReach
    PROVE  Spec => []DeletedIsGone
  <1>1. IInv => DeletedIsGone
    <2> SUFFICES ASSUME IInv, NEW n \in Nodes(w), n.idx \in deleted PROVE FALSE
      BY DEF DeletedIsGone
    <2>1. ids[n.idx] = IdOf(n) /\ ids[n.idx] = NoId
      BY DEF IInv, IdsKept
    <2> QED BY <2>1, Types
  <1> QED BY <1>1, Invariant, PTL

(* The wheel implements the timers of TimerSet: each one that is set runs  *)
(* at most once, not before its second and never after one that was due    *)
(* later, and leaves the wheel only to run or by timerN_del.  Only a timer *)
(* set, by timerN_add or timerN_update, to the second after the last one   *)
(* timerN_invoke has served runs up to that second too soon.               *)
THEOREM WheelRunsTimers ==
    ASSUME UpdateInReach
    PROVE  Spec => WheelIsTimers
  <1>1. Init => Set!Init
    <2> SUFFICES ASSUME Init PROVE Set!Init
      OBVIOUS
    <2>1. \A b \in Slot : On(w, b) = {}
      BY DEF Init, timerN_init, On
    <2>2. Nodes(w) = {}
      BY <2>1 DEF Nodes
    <2>3. now \in 0 .. MaxTime /\ fired = {} /\ early = {} /\ deleted = {}
      BY AppAssumption DEF Init
    <2> QED BY <2>2, <2>3 DEF Set!Init
  <1>2. IInv /\ [Next]_vars => [Set!Next]_<<{IdOf(n) : n \in Nodes(w)}, fired, early, deleted, now>>
    BY EveryStep DEF SetStep, Armed
  <1> QED BY <1>1, <1>2, Invariant, PTL DEF Spec, WheelIsTimers, Set!Spec, Set!setVars
=============================================================================
