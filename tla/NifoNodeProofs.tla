--------------------------- MODULE NifoNodeProofs ---------------------------
(***************************************************************************)
(* Proofs about NifoNode, for any finite number of nodes: the links of     *)
(* both lists are the rings the reference keeps, whatever sequence of      *)
(* link, unlink, splice and delete calls was made, and nifo_node_delete    *)
(* frees the nodes of the messages on a list once each and no other.  The  *)
(* prev links are determined by the next links (LinksAreInverse), so every *)
(* argument about an operation is about next.                              *)
(***************************************************************************)
EXTENDS NifoNode, ClistoProofs

-----------------------------------------------------------------------------
(* Rings                                                                   *)

\* The entries of s, in a circle along next; none is there twice.
IsRing(l, s) ==
    /\ s \in Seq(Entries) /\ Len(s) > 0
    /\ \A i, j \in 1 .. Len(s) : s[i] = s[j] => i = j
    /\ \A i \in 1 .. Len(s) : l.next[s[i]] = s[IF i = Len(s) THEN 1 ELSE i + 1]

(* The entries of a ring.                                                  *)
LEMMA RingSetOf ==
    ASSUME NEW l, NEW s, IsRing(l, s)
    PROVE  /\ Len(s) \in Nat \ {0} /\ ToSet(s) = {s[i] : i \in 1 .. Len(s)}
           /\ ToSet(s) \subseteq Entries /\ \A i \in 1 .. Len(s) : s[i] \in Entries
           /\ s[1] \in ToSet(s)
  <1>1. s \in Seq(Entries) /\ Len(s) \in Nat \ {0} /\ DOMAIN s = 1 .. Len(s)
    BY DEF IsRing
  <1>2. \A i \in 1 .. Len(s) : s[i] \in Entries
    BY <1>1
  <1>3. ToSet(s) = {s[i] : i \in 1 .. Len(s)}
    BY <1>1 DEF ToSet
  <1> QED BY <1>1, <1>2, <1>3

(* clist_for_each visits a ring as it is written.                          *)
LEMMA RingWalk ==
    ASSUME NEW l, Inverse2(l), NEW s, IsRing(l, s)
    PROVE  clist_for_each(l, s[1]) = s
  <1> DEFINE n == Len(s)
             v == [k \in 0 .. n |-> s[IF k = n THEN 1 ELSE k + 1]]
  <1>0. /\ n \in Nat \ {0} /\ s \in Seq(Entries) /\ s[1] \in Entries
        /\ \A i \in 1 .. n : s[i] \in Entries
        /\ s = [i \in 1 .. n |-> s[i]]
    BY DEF IsRing
  <1>1. Round(l, s[1], v, n)
    <2>1. v[0] = s[1] /\ v[n] = s[1]
      BY <1>0
    <2>2. \A k \in 0 .. n : v[k] \in Entries
      BY <1>0
    <2>3. ASSUME NEW k \in 1 .. n PROVE v[k] = l.next[v[k - 1]]
      <3>1. k - 1 \in 0 .. n /\ k - 1 # n /\ (k - 1) + 1 = k
        BY <1>0
      <3>2. v[k - 1] = s[k]
        BY <3>1
      <3>3. l.next[s[k]] = s[IF k = n THEN 1 ELSE k + 1]
        BY DEF IsRing
      <3> QED BY <3>2, <3>3
    <2>4. ASSUME NEW k \in 1 .. n - 1 PROVE v[k] # s[1]
      <3>1. k \in 0 .. n /\ k # n /\ k + 1 \in 1 .. n /\ 1 \in 1 .. n /\ k + 1 # 1
        BY <1>0
      <3>2. s[k + 1] # s[1]
        BY <3>1 DEF IsRing
      <3> QED BY <3>1, <3>2
    <2> HIDE DEF v, n
    <2> QED BY <1>0, <2>1, <2>2, <2>3, <2>4 DEF Round
  <1>2. clist_for_each(l, s[1]) = Along(v, n)
    <2> HIDE DEF v, n
    <2> QED BY <1>0, <1>1, RoundIs
  <1>3. Along(v, n) = s
    <2>1. \A i \in 1 .. n : v[i - 1] = s[i]
      <3> SUFFICES ASSUME NEW i \in 1 .. n PROVE v[i - 1] = s[i]
        OBVIOUS
      <3>1. i - 1 \in 0 .. n /\ i - 1 # n /\ (i - 1) + 1 = i
        BY <1>0
      <3> QED BY <3>1
    <2> HIDE DEF v, n
    <2> QED BY <1>0, <2>1 DEF Along
  <1> QED BY <1>2, <1>3

(* Before an entry of a ring comes the one prev leads to.                  *)
LEMMA RingPrev ==
    ASSUME NEW l, Inverse2(l), NEW s, IsRing(l, s), NEW i \in 1 .. Len(s)
    PROVE  l.prev[s[i]] = s[IF i = 1 THEN Len(s) ELSE i - 1]
  <1> DEFINE j == IF i = 1 THEN Len(s) ELSE i - 1
  <1>1. Len(s) \in Nat \ {0} /\ j \in 1 .. Len(s) /\ i = IF j = Len(s) THEN 1 ELSE j + 1
    BY DEF IsRing
  <1>2. s[j] \in Entries
    BY <1>1 DEF IsRing
  <1>3. l.next[s[j]] = s[i]
    <2> HIDE DEF j
    <2>1. l.next[s[j]] = s[IF j = Len(s) THEN 1 ELSE j + 1]
      BY <1>1 DEF IsRing
    <2> QED BY <1>1, <2>1
  <1> QED BY <1>2, <1>3 DEF Inverse2

(* A ring may be read from any of its entries.                             *)
LEMMA RingTurned ==
    ASSUME NEW l, NEW s, IsRing(l, s), NEW i \in 1 .. Len(s)
    PROVE  /\ IsRing(l, Turned(s, i)) /\ Turned(s, i)[1] = s[i]
           /\ ToSet(Turned(s, i)) = ToSet(s) /\ Len(Turned(s, i)) = Len(s)
  <1> DEFINE n == Len(s)
             p(j) == IF i + j - 1 <= n THEN i + j - 1 ELSE i + j - 1 - n
             u == [j \in 1 .. n |-> s[p(j)]]
  <1>0. n \in Nat \ {0} /\ \A j \in 1 .. n : s[j] \in Entries
    BY DEF IsRing
  <1>1. Turned(s, i) = u
    BY DEF Turned
  <1>2. \A j \in 1 .. n : p(j) \in 1 .. n
    BY <1>0
  <1>3. \A j, k \in 1 .. n : p(j) = p(k) => j = k
    BY <1>0
  <1>4. \A j \in 1 .. n : p(IF j = n THEN 1 ELSE j + 1) = IF p(j) = n THEN 1 ELSE p(j) + 1
    BY <1>0
  <1>5. \A k \in 1 .. n : \E j \in 1 .. n : p(j) = k
    <2> SUFFICES ASSUME NEW k \in 1 .. n PROVE \E j \in 1 .. n : p(j) = k
      OBVIOUS
    <2>1. CASE k >= i
      <3>1. k - i + 1 \in 1 .. n /\ p(k - i + 1) = k
        BY <1>0, <2>1
      <3> QED BY <3>1
    <2>2. CASE k < i
      <3>1. k - i + 1 + n \in 1 .. n /\ p(k - i + 1 + n) = k
        BY <1>0, <2>2
      <3> QED BY <3>1
    <2> QED BY <1>0, <2>1, <2>2
  <1>6. p(1) = i /\ 1 \in 1 .. n
    BY <1>0
  <1> HIDE DEF p
  <1>7. u \in Seq(Entries) /\ Len(u) = n /\ \A j \in 1 .. n : u[j] = s[p(j)]
    BY <1>0, <1>2
  <1> HIDE DEF u
  <1>8. ASSUME NEW j \in 1 .. n, NEW k \in 1 .. n, u[j] = u[k] PROVE j = k
    <2>1. s[p(j)] = s[p(k)] /\ p(j) \in 1 .. n /\ p(k) \in 1 .. n
      BY <1>2, <1>7, <1>8
    <2>2. p(j) = p(k)
      BY <2>1 DEF IsRing
    <2> QED BY <1>3, <2>2
  <1>9. ASSUME NEW j \in 1 .. n PROVE l.next[u[j]] = u[IF j = n THEN 1 ELSE j + 1]
    <2>1. l.next[s[p(j)]] = s[IF p(j) = n THEN 1 ELSE p(j) + 1]
      BY <1>2 DEF IsRing
    <2>2. (IF j = n THEN 1 ELSE j + 1) \in 1 .. n
      BY <1>0
    <2> QED BY <1>4, <1>7, <2>1, <2>2
  <1>10. IsRing(l, u)
    BY <1>0, <1>7, <1>8, <1>9 DEF IsRing
  <1>11. ToSet(u) = ToSet(s)
    <2>1. ToSet(u) = {u[j] : j \in 1 .. n} /\ ToSet(s) = {s[j] : j \in 1 .. n}
      <3>1. ToSet(u) = {u[j] : j \in 1 .. Len(u)}
        BY <1>10, RingSetOf
      <3>2. ToSet(s) = {s[j] : j \in 1 .. Len(s)}
        BY RingSetOf
      <3> QED BY <1>7, <3>1, <3>2
    <2>2. ASSUME NEW x \in ToSet(u) PROVE x \in ToSet(s)
      <3>1. PICK j \in 1 .. n : x = u[j]
        BY <2>1
      <3>2. x = s[p(j)] /\ p(j) \in 1 .. n
        BY <1>2, <1>7, <3>1
      <3> QED BY <2>1, <3>2
    <2>3. ASSUME NEW x \in ToSet(s) PROVE x \in ToSet(u)
      <3>1. PICK k \in 1 .. n : x = s[k]
        BY <2>1
      <3>2. PICK j \in 1 .. n : p(j) = k
        BY <1>5
      <3>3. x = u[j]
        BY <1>7, <3>1, <3>2
      <3> QED BY <2>1, <3>3
    <2> QED BY <2>2, <2>3
  <1> QED BY <1>1, <1>6, <1>7, <1>10, <1>11
-----------------------------------------------------------------------------
(* Links                                                                   *)

Sound(l) == l \in [next : [Entries -> Entries], prev : [Entries -> Entries]] /\ Inverse2(l)

(* Links whose next and prev are inverse are fixed by their next.          *)
LEMMA LinksAreInverse ==
    ASSUME NEW l, Sound(l), NEW k, Sound(k), \A x \in Entries : k.next[x] = l.next[x]
    PROVE  k = l
  <1>1. ASSUME NEW x \in Entries PROVE k.prev[x] = l.prev[x]
    <2>1. l.prev[x] \in Entries /\ l.next[l.prev[x]] = x
      BY DEF Sound, Inverse2
    <2>2. k.next[l.prev[x]] = x
      BY <2>1
    <2> QED BY <2>1, <2>2 DEF Sound, Inverse2
  <1>2. k.next = l.next /\ k.prev = l.prev
    BY <1>1 DEF Sound
  <1> QED BY <1>2 DEF Sound

(* What clist_splice, clist_del_init and clist_add_head do to next.        *)
LEMMA SoundSplice ==
    ASSUME NEW l, Sound(l), NEW a \in Entries, NEW b \in Entries, a # b,
           NEW k, k = clist_splice(l, a, b)
    PROVE  /\ Sound(k)
           /\ \A x \in Entries : k.next[x] = IF l.next[x] = b THEN a ELSE IF l.next[x] = a THEN b ELSE l.next[x]
  <1> DEFINE pa == l.prev[a]
             pb == l.prev[b]
  <1>1. /\ pa \in Entries /\ pb \in Entries /\ pa # pb
        /\ \A x \in Entries : (l.next[x] = a <=> x = pa) /\ (l.next[x] = b <=> x = pb)
    BY DEF Sound, Inverse2
  <1>2. /\ k.next = [l.next EXCEPT ![pa] = b, ![pb] = a]
        /\ k.prev = [l.prev EXCEPT ![b] = pa, ![a] = pb]
        /\ k \in [next : [Entries -> Entries], prev : [Entries -> Entries]]
    BY <1>1 DEF clist_splice, SetNext, SetPrev, Sound
  <1> HIDE DEF pa, pb
  <1>3. /\ \A x \in Entries : k.next[x] = IF x = pb THEN a ELSE IF x = pa THEN b ELSE l.next[x]
        /\ \A x \in Entries : k.prev[x] = IF x = a THEN pb ELSE IF x = b THEN pa ELSE l.prev[x]
    BY <1>1, <1>2 DEF Sound
  <1>4. /\ l.next[pa] = a /\ l.next[pb] = b
        /\ \A x \in Entries : /\ l.next[x] \in Entries /\ l.prev[x] \in Entries
                              /\ l.prev[l.next[x]] = x /\ l.next[l.prev[x]] = x
    BY <1>1 DEF pa, pb, Sound, Inverse2
  <1>5. ASSUME NEW x \in Entries
        PROVE  /\ k.next[x] \in Entries /\ k.prev[x] \in Entries
               /\ k.prev[k.next[x]] = x /\ k.next[k.prev[x]] = x
    BY <1>1, <1>3, <1>4, SMTT(30)
  <1> QED BY <1>1, <1>2, <1>3, <1>5 DEF Sound, Inverse2

LEMMA SoundUnlink ==
    ASSUME NEW l, Sound(l), NEW e \in Entries, NEW k, k = clist_del_init(l, e)
    PROVE  /\ Sound(k)
           /\ \A x \in Entries : k.next[x] = IF x = e THEN e ELSE IF l.next[x] = e THEN l.next[e] ELSE l.next[x]
  <1> DEFINE p == l.prev[e]
             n == l.next[e]
  <1>1. /\ p \in Entries /\ n \in Entries /\ l.next[p] = e /\ l.prev[n] = e
        /\ \A x \in Entries : (l.next[x] = e <=> x = p) /\ (l.prev[x] = e <=> x = n)
        /\ \A x \in Entries : /\ l.next[x] \in Entries /\ l.prev[x] \in Entries
                              /\ l.prev[l.next[x]] = x /\ l.next[l.prev[x]] = x
    BY DEF Sound, Inverse2
  <1>2. /\ k.next = [l.next EXCEPT ![p] = n, ![e] = e]
        /\ k.prev = [l.prev EXCEPT ![n] = p, ![e] = e]
        /\ k \in [next : [Entries -> Entries], prev : [Entries -> Entries]]
    BY <1>1 DEF clist_del_init, CINIT_LIST_HEAD, clist_unhook, SetNext, SetPrev, Sound
  <1>3. /\ \A x \in Entries : k.next[x] = IF x = e THEN e ELSE IF x = p THEN n ELSE l.next[x]
        /\ \A x \in Entries : k.prev[x] = IF x = e THEN e ELSE IF x = n THEN p ELSE l.prev[x]
    BY <1>1, <1>2 DEF Sound
  <1>4. (p = e <=> n = e) /\ l.prev[e] = p /\ l.next[e] = n
    BY <1>1
  <1> HIDE DEF p, n
  <1>5. ASSUME NEW x \in Entries
        PROVE  /\ k.next[x] \in Entries /\ k.prev[x] \in Entries
               /\ k.prev[k.next[x]] = x /\ k.next[k.prev[x]] = x
    BY <1>1, <1>3, <1>4
  <1> QED BY <1>1, <1>2, <1>3, <1>4, <1>5 DEF Sound, Inverse2

LEMMA AddTailIsSplice ==
    ASSUME NEW l, Sound(l), NEW new \in Entries, NEW head \in Entries, l.next[new] = new
    PROVE  clist_add_tail(l, new, head) = clist_splice(l, new, head)
  <1>1. l.prev[new] = new
    BY DEF Sound, Inverse2
  <1> QED BY <1>1 DEF clist_add_tail, clist_add, clist_splice, SetNext, SetPrev

LEMMA SoundAddHead ==
    ASSUME NEW l, Sound(l), NEW new \in Entries, NEW head \in Entries, new # head, l.next[new] = new,
           NEW k, k = clist_add_head(l, new, head)
    PROVE  /\ Sound(k)
           /\ \A x \in Entries : k.next[x] = IF x = head THEN new ELSE IF x = new THEN l.next[head] ELSE l.next[x]
  <1> DEFINE n == l.next[head]
  <1>1. n \in Entries /\ n # new /\ l.prev[n] = head /\ l.prev[new] = new
    BY DEF Sound, Inverse2
  <1>2. k = clist_splice(l, new, n)
    <2>1. k = clist_add_tail(l, new, n)
      BY <1>1 DEF clist_add_head, clist_add_tail
    <2> QED BY <1>1, <2>1, AddTailIsSplice
  <1> HIDE DEF n
  <1>3. /\ Sound(k)
        /\ \A x \in Entries : k.next[x] = IF l.next[x] = n THEN new ELSE IF l.next[x] = new THEN n ELSE l.next[x]
    BY <1>1, <1>2, SoundSplice
  <1>4. \A x \in Entries : (l.next[x] = n <=> x = head) /\ (l.next[x] = new <=> x = new)
    BY <1>1 DEF n, Sound, Inverse2
  <1> QED BY <1>3, <1>4 DEF n

-----------------------------------------------------------------------------
(* Sets of rings                                                           *)

\* The links l are the rings R, whose entries are A; every other entry is
\* linked to itself.
ListOK(l, R, A) ==
    /\ Sound(l)
    /\ \A s \in R : IsRing(l, s)
    /\ \A s, t \in R : ToSet(s) \cap ToSet(t) # {} => s = t
    /\ A = UNION {ToSet(s) : s \in R}
    /\ \A e \in Entries \ A : l.next[e] = e

(* The links of an entry stay on its ring.                                 *)
LEMMA RingLinks ==
    ASSUME NEW l, Sound(l), NEW s, IsRing(l, s), NEW e \in ToSet(s)
    PROVE  l.next[e] \in ToSet(s) /\ l.prev[e] \in ToSet(s)
  <1>1. PICK i \in 1 .. Len(s) : e = s[i]
    BY RingSetOf
  <1>2. l.next[e] = s[IF i = Len(s) THEN 1 ELSE i + 1]
    BY <1>1 DEF IsRing
  <1>3. l.prev[e] = s[IF i = 1 THEN Len(s) ELSE i - 1]
    BY <1>1, RingPrev DEF Sound
  <1>4. /\ (IF i = Len(s) THEN 1 ELSE i + 1) \in 1 .. Len(s)
        /\ (IF i = 1 THEN Len(s) ELSE i - 1) \in 1 .. Len(s)
    BY RingSetOf
  <1> QED BY <1>2, <1>3, <1>4, RingSetOf

(* The ring of an entry.                                                   *)
LEMMA RingOfIs ==
    ASSUME NEW l, NEW R, NEW A, ListOK(l, R, A), NEW e \in A
    PROVE  /\ RingOf(R, e) \in R /\ e \in ToSet(RingOf(R, e))
           /\ \A s \in R : e \in ToSet(s) => s = RingOf(R, e)
  <1>1. \E s \in R : e \in ToSet(s)
    BY DEF ListOK
  <1>2. RingOf(R, e) \in R /\ e \in ToSet(RingOf(R, e))
    BY <1>1 DEF RingOf
  <1> QED BY <1>2 DEF ListOK

LEMMA FromIs ==
    ASSUME NEW l, NEW R, NEW A, ListOK(l, R, A), NEW e \in A
    PROVE  /\ IsRing(l, From(R, e)) /\ From(R, e)[1] = e
           /\ ToSet(From(R, e)) = ToSet(RingOf(R, e)) /\ Len(From(R, e)) = Len(RingOf(R, e))
  <1> DEFINE s == RingOf(R, e)
             i == CHOOSE j \in DOMAIN s : s[j] = e
  <1>1. s \in R /\ e \in ToSet(s) /\ IsRing(l, s)
    BY RingOfIs DEF ListOK
  <1> HIDE DEF s
  <1>2. DOMAIN s = 1 .. Len(s)
    BY <1>1 DEF IsRing
  <1>3. i \in DOMAIN s /\ s[i] = e
    BY <1>1 DEF ToSet
  <1>4. From(R, e) = Turned(s, i)
    BY DEF From, s
  <1> HIDE DEF i
  <1> QED BY <1>1, <1>2, <1>3, <1>4, RingTurned DEF s

(* An entry is alone when it is linked to itself.                          *)
LEMMA AloneIs ==
    ASSUME NEW l, NEW R, NEW A, ListOK(l, R, A), NEW e \in A
    PROVE  /\ Alone(R, e) <=> l.next[e] = e
           /\ Alone(R, e) => From(R, e) = <<e>> /\ ToSet(RingOf(R, e)) = {e}
  <1> DEFINE f == From(R, e)
  <1>1. /\ IsRing(l, f) /\ f[1] = e /\ ToSet(f) = ToSet(RingOf(R, e))
        /\ Alone(R, e) <=> Len(f) = 1
    BY FromIs DEF Alone
  <1> HIDE DEF f
  <1>2. l.next[f[1]] = f[IF 1 = Len(f) THEN 1 ELSE 2]
    <2>0. Len(f) \in Nat \ {0}
      BY <1>1, RingSetOf
    <2>1. 1 \in 1 .. Len(f) /\ 1 + 1 = 2
      BY ONLY <2>0
    <2>2. l.next[f[1]] = f[IF 1 = Len(f) THEN 1 ELSE 1 + 1]
      BY <1>1, <2>1 DEF IsRing
    <2> QED BY <2>1, <2>2
  <1>3. Len(f) # 1 => f[2] # f[1]
    <2>0. PICK n \in Nat \ {0} : n = Len(f)
      BY <1>1, RingSetOf
    <2>1a. n # 1 => 2 \in 1 .. n /\ 1 \in 1 .. n
      OBVIOUS
    <2>1. Len(f) # 1 => 2 \in 1 .. Len(f) /\ 1 \in 1 .. Len(f)
      BY <2>0, <2>1a
    <2>2. \A i, j \in 1 .. Len(f) : f[i] = f[j] => i = j
      BY <1>1 DEF IsRing
    <2> QED BY <2>1, <2>2
  <1>4. Len(f) = 1 => f = <<e>>
    <2>1. f = [i \in 1 .. Len(f) |-> f[i]]
      BY <1>1 DEF IsRing
    <2>2. Len(f) = 1 => f = [i \in 1 .. 1 |-> e]
      <3>1. \A i \in 1 .. 1 : f[i] = e
        BY <1>1
      <3> QED BY <2>1, <3>1
    <2>3. [i \in 1 .. 1 |-> e] = <<e>>
      OBVIOUS
    <2> QED BY <2>2, <2>3
  <1>5. Len(f) = 1 => ToSet(f) = {e}
    BY <1>1, RingSetOf
  <1> QED BY <1>1, <1>2, <1>3, <1>4, <1>5 DEF f

\* M is the entries of some of the rings, rest are the other rings.
Apart(R, rest, M) ==
    /\ rest \subseteq R /\ M \subseteq Entries
    /\ \A s \in rest : ToSet(s) \cap M = {}
    /\ \A s \in R : s \in rest \/ ToSet(s) \subseteq M

\* From l to k only links of M are written; of M, the rings N are left.
Renewed(l, k, M, N, A, B) ==
    /\ Sound(k)
    /\ \A x \in Entries \ M : k.next[x] = l.next[x]
    /\ \A s \in N : IsRing(k, s) /\ ToSet(s) \subseteq M
    /\ \A s, t \in N : ToSet(s) \cap ToSet(t) # {} => s = t
    /\ \A x : x \in B <=> x \in A \ M \/ \E s \in N : x \in ToSet(s)
    /\ \A x \in M \ B : k.next[x] = x

(* Rings that are rewritten do not disturb the rest.                       *)
LEMMA Rewritten ==
    ASSUME NEW l, NEW R, NEW A, ListOK(l, R, A), NEW rest, NEW M, Apart(R, rest, M),
           NEW k, NEW N, NEW B, Renewed(l, k, M, N, A, B)
    PROVE  ListOK(k, rest \cup N, B)
  <1> USE DEF Apart, Renewed
  <1>1. ASSUME NEW s \in rest PROVE IsRing(k, s)
    <2>1. IsRing(l, s)
      BY DEF ListOK
    <2>2. \A i \in 1 .. Len(s) : s[i] \in Entries \ M
      BY <2>1, RingSetOf
    <2> QED BY <2>1, <2>2 DEF IsRing
  <1>2. \A s \in rest \cup N : IsRing(k, s)
    BY <1>1
  <1>3. ASSUME NEW s \in rest \cup N, NEW t \in rest \cup N, ToSet(s) \cap ToSet(t) # {} PROVE s = t
    <2>1. CASE s \in rest /\ t \in rest
      BY <1>3, <2>1 DEF ListOK
    <2>2. CASE s \in N /\ t \in N
      BY <1>3, <2>2
    <2>3. PICK x : x \in ToSet(s) /\ x \in ToSet(t)
      BY <1>3
    <2>4. CASE s \in rest /\ t \in N
      BY <2>3, <2>4
    <2>5. CASE s \in N /\ t \in rest
      BY <2>3, <2>5
    <2> QED BY <2>1, <2>2, <2>4, <2>5
  <1>4. \A x : x \in B <=> \E s \in rest \cup N : x \in ToSet(s)
    <2>1. \A x : x \in A <=> \E s \in R : x \in ToSet(s)
      BY DEF ListOK
    <2>2. \A x : x \in A \ M <=> \E s \in rest : x \in ToSet(s)
      <3>1. ASSUME NEW x \in A \ M PROVE \E s \in rest : x \in ToSet(s)
        BY <2>1
      <3>2. ASSUME NEW s \in rest, NEW x \in ToSet(s) PROVE x \in A \ M
        BY <2>1
      <3> QED BY <3>1, <3>2
    <2> QED BY <2>2
  <1>5. B = UNION {ToSet(s) : s \in rest \cup N}
    BY <1>4
  <1>6. ASSUME NEW x \in Entries \ B PROVE k.next[x] = x
    <2>1. CASE x \in M
      BY <2>1
    <2>2. CASE x \notin M
      BY <2>2 DEF ListOK
    <2> QED BY <2>1, <2>2
  <1> QED BY <1>2, <1>3, <1>5, <1>6 DEF ListOK

RingsOf(R, S) == UNION {ToSet(RingOf(R, e)) : e \in S}

(* The rings without the entries of S are those apart from the rings of S. *)
LEMMA WithoutIs ==
    ASSUME NEW l, NEW R, NEW A, ListOK(l, R, A), NEW S, S \subseteq A
    PROVE  Apart(R, Without(R, S), RingsOf(R, S)) /\ RingsOf(R, S) \subseteq A
  <1> DEFINE M == RingsOf(R, S)
  <1>0. \A x : x \in M <=> \E e \in S : x \in ToSet(RingOf(R, e))
    BY DEF RingsOf
  <1> HIDE DEF M
  <1>1. \A e \in S : /\ RingOf(R, e) \in R /\ e \in ToSet(RingOf(R, e))
                     /\ \A s \in R : e \in ToSet(s) => s = RingOf(R, e)
    BY RingOfIs
  <1>2. \A s \in R : ToSet(s) \subseteq Entries /\ ToSet(s) \subseteq A
    BY RingSetOf DEF ListOK
  <1>3. Without(R, S) \in SUBSET R /\ M \in SUBSET Entries /\ M \subseteq A
    BY <1>0, <1>1, <1>2 DEF Without
  <1>4. ASSUME NEW s \in Without(R, S), NEW x \in ToSet(s), x \in M PROVE FALSE
    <2>1. s \in R /\ ToSet(s) \cap S = {}
      BY DEF Without
    <2>2. PICK e \in S : x \in ToSet(RingOf(R, e))
      BY <1>0, <1>4
    <2>3. s = RingOf(R, e)
      BY <1>1, <2>1, <2>2 DEF ListOK
    <2> QED BY <1>1, <2>1, <2>3
  <1>5. ASSUME NEW s \in R, s \notin Without(R, S) PROVE ToSet(s) \subseteq M
    <2>1. PICK e \in S : e \in ToSet(s)
      BY <1>5 DEF Without
    <2>2. s = RingOf(R, e)
      BY <1>1, <2>1
    <2> QED BY <1>0, <2>2
  <1> QED BY <1>3, <1>4, <1>5 DEF Apart, M

-----------------------------------------------------------------------------
(* The operations                                                          *)

LEMMA AllocOK ==
    ASSUME NEW l, NEW R, NEW A, ListOK(l, R, A), NEW e \in Entries \ A
    PROVE  ListOK(CINIT_LIST_HEAD(l, e), R \cup {<<e>>}, A \cup {e})
  <1>1. l.next[e] = e /\ l.prev[e] = e
    BY DEF ListOK, Sound, Inverse2
  <1>2. CINIT_LIST_HEAD(l, e) = l
    BY <1>1, ZenonT(30) DEF CINIT_LIST_HEAD, SetNext, SetPrev, ListOK, Sound
  <1>3. IsRing(l, <<e>>) /\ ToSet(<<e>>) = {e}
    BY <1>1 DEF IsRing, ToSet
  <1>4. \A s \in R : ToSet(s) \cap {e} = {}
    BY DEF ListOK
  <1>5. \A x : x \in A \cup {e} <=> x \in A \ {e} \/ \E s \in {<<e>>} : x \in ToSet(s)
    BY <1>3
  <1> QED
    <2> DEFINE M == {e}
               N == {<<e>>}
    <2>1. Apart(R, R, M)
      BY <1>4 DEF Apart
    <2>2. Renewed(l, l, M, N, A, A \cup {e})
      BY <1>1, <1>3, <1>5 DEF ListOK, Renewed
    <2> HIDE DEF M, N
    <2>3. ListOK(l, R \cup N, A \cup {e})
      BY <2>1, <2>2, Rewritten
    <2> QED BY <1>2, <2>3 DEF N

(* Two rings joined: the last entry of each leads to the first of the      *)
(* other.                                                                  *)
LEMMA JoinedRing ==
    ASSUME NEW l, NEW a, IsRing(l, a), NEW b, IsRing(l, b), ToSet(a) \cap ToSet(b) = {},
           NEW k, \A x \in Entries : k.next[x] = IF l.next[x] = b[1] THEN a[1]
                                                 ELSE IF l.next[x] = a[1] THEN b[1] ELSE l.next[x]
    PROVE  IsRing(k, b \o a) /\ ToSet(b \o a) = ToSet(a) \cup ToSet(b)
  <1> DEFINE m == Len(a)
             n == Len(b)
  <1>0. a \in Seq(Entries) /\ b \in Seq(Entries)
    BY DEF IsRing
  <1>1. /\ a \in Seq(Entries) /\ b \in Seq(Entries) /\ m \in Nat \ {0} /\ n \in Nat \ {0}
        /\ \A i \in 1 .. m : a[i] \in Entries /\ a[i] \in ToSet(a)
        /\ \A i \in 1 .. n : b[i] \in Entries /\ b[i] \in ToSet(b)
    <2>1. a \in Seq(Entries) /\ b \in Seq(Entries)
      BY DEF IsRing
    <2>2. m \in Nat \ {0} /\ \A i \in 1 .. m : a[i] \in Entries /\ a[i] \in ToSet(a)
      BY RingSetOf
    <2>3. n \in Nat \ {0} /\ \A i \in 1 .. n : b[i] \in Entries /\ b[i] \in ToSet(b)
      BY RingSetOf
    <2> QED BY <2>1, <2>2, <2>3
  <1>2. PICK c \in Seq(Entries) : /\ c = b \o a /\ Len(c) = n + m
                                  /\ \A i \in 1 .. n + m : c[i] = IF i <= n THEN b[i] ELSE a[i - n]
    <2>1. /\ b \o a \in Seq(Entries) /\ Len(b \o a) = n + m
          /\ \A i \in 1 .. n + m : (b \o a)[i] = IF i <= n THEN b[i] ELSE a[i - n]
      BY ONLY <1>0, NodesConcat, ZenonT(30)
    <2> QED BY ONLY <2>1, ZenonT(30)
  <1> HIDE DEF m, n
  <1>2a. /\ \A i \in 1 .. n : i \in 1 .. n + m /\ c[i] = b[i]
         /\ \A i \in 1 .. m : i + n \in 1 .. n + m /\ c[i + n] = a[i]
    <2>1. \A i \in 1 .. n : i \in 1 .. n + m /\ i <= n
      BY <1>1
    <2>2. \A i \in 1 .. m : i + n \in 1 .. n + m /\ ~(i + n <= n) /\ (i + n) - n = i
      BY <1>1
    <2>3. \A i \in 1 .. n + m : c[i] = IF i <= n THEN b[i] ELSE a[i - n]
      BY <1>2
    <2> QED BY ONLY <2>1, <2>2, <2>3
  <1>3. /\ \A i, j \in 1 .. m : a[i] = a[j] => i = j
        /\ \A i, j \in 1 .. n : b[i] = b[j] => i = j
        /\ \A i \in 1 .. m : l.next[a[i]] = a[IF i = m THEN 1 ELSE i + 1]
        /\ \A i \in 1 .. n : l.next[b[i]] = b[IF i = n THEN 1 ELSE i + 1]
    BY DEF IsRing, m, n
  <1>4. \A i \in 1 .. m, j \in 1 .. n : a[i] # b[j]
    BY <1>1
  <1>5. ASSUME NEW i \in 1 .. n + m, NEW j \in 1 .. n + m, c[i] = c[j] PROVE i = j
    <2>1. CASE i <= n /\ j <= n
      BY <1>1, <1>2, <1>3, <1>5, <2>1
    <2>2. CASE i > n /\ j > n
      <3>1. i - n \in 1 .. m /\ j - n \in 1 .. m
        BY <1>1, <2>2
      <3>2. a[i - n] = a[j - n]
        BY <1>1, <1>2, <1>5, <2>2, SMTT(30)
      <3>3. i - n = j - n
        BY <1>3, <3>1, <3>2
      <3> QED BY <1>1, <3>3
    <2>3. CASE i <= n /\ j > n
      <3>1. i \in 1 .. n /\ j - n \in 1 .. m
        BY <1>1, <2>3
      <3> QED BY <1>1, <1>2, <1>4, <1>5, <2>3, <3>1
    <2>4. CASE i > n /\ j <= n
      <3>1. j \in 1 .. n /\ i - n \in 1 .. m
        BY <1>1, <2>4
      <3> QED BY <1>1, <1>2, <1>4, <1>5, <2>4, <3>1
    <2> QED BY <1>1, <2>1, <2>2, <2>3, <2>4
  <1>6. ASSUME NEW i \in 1 .. n + m PROVE k.next[c[i]] = c[IF i = n + m THEN 1 ELSE i + 1]
    <2>0. 1 \in 1 .. n + m /\ 1 \in 1 .. n /\ 1 \in 1 .. m /\ c[1] = b[1]
      BY <1>1, <1>2a, SMTT(30)
    <2>1. CASE i < n
      <3>1. i \in 1 .. n /\ i + 1 \in 1 .. n /\ i + 1 \in 1 .. n + m /\ i # n /\ i # n + m
        BY <1>1, <2>1
      <3>2. l.next[b[i]] = b[i + 1] /\ b[i + 1] # b[1] /\ b[i + 1] # a[1] /\ b[i] \in Entries
        BY <1>1, <1>3, <1>4, <2>0, <2>1, <3>1
      <3>3. c[i] = b[i] /\ c[i + 1] = b[i + 1]
        BY <1>2a, <3>1
      <3> QED BY <3>1, <3>2, <3>3
    <2>2. CASE i = n
      <3>1. n \in 1 .. n /\ n + 1 \in 1 .. n + m /\ n # n + m /\ (n + 1) - n = 1 /\ ~(n + 1 <= n)
        BY <1>1
      <3>2. l.next[b[n]] = b[1] /\ b[n] \in Entries
        BY <1>1, <1>3, <3>1
      <3>1a. n \in 1 .. n /\ 1 \in 1 .. m /\ 1 + n = n + 1
        BY <1>1
      <3>3. c[n] = b[n] /\ c[n + 1] = a[1]
        BY <1>2a, <3>1a
      <3> QED BY <2>2, <3>1, <3>2, <3>3
    <2>3. CASE i > n /\ i < n + m
      <3>1. /\ i - n \in 1 .. m /\ (i - n) + 1 \in 1 .. m /\ i + 1 \in 1 .. n + m /\ i - n # m /\ i # n + m
            /\ (i + 1) - n = (i - n) + 1 /\ ~(i <= n) /\ ~(i + 1 <= n) /\ (i - n) + 1 # 1
        BY <1>1, <2>3
      <3>2. /\ l.next[a[i - n]] = a[(i - n) + 1] /\ a[i - n] \in Entries
            /\ a[(i - n) + 1] # b[1] /\ a[(i - n) + 1] # a[1]
        BY <1>1, <1>3, <1>4, <2>0, <3>1
      <3>3. c[i] = a[i - n] /\ c[i + 1] = a[(i - n) + 1]
        BY <1>2, <3>1
      <3> QED BY <3>1, <3>2, <3>3
    <2>4. CASE i = n + m
      <3>1. m \in 1 .. m /\ n + m \in 1 .. n + m /\ (n + m) - n = m /\ ~(n + m <= n)
        BY <1>1
      <3>2. l.next[a[m]] = a[1] /\ a[m] \in Entries /\ a[1] # b[1]
        BY <1>1, <1>3, <1>4, <2>0, <3>1
      <3>3. c[n + m] = a[m]
        BY <1>2, <3>1
      <3> QED BY <2>0, <2>4, <3>2, <3>3
    <2> QED BY <1>1, <2>1, <2>2, <2>3, <2>4
  <1>7. IsRing(k, c)
    <2>1. Len(c) = n + m /\ n + m > 0
      BY <1>1, <1>2
    <2> QED BY <1>5, <1>6, <2>1 DEF IsRing
  <1>8. ToSet(c) = ToSet(a) \cup ToSet(b)
    <2>1. ToSet(c) = {c[i] : i \in 1 .. n + m} /\ ToSet(a) = {a[i] : i \in 1 .. m} /\ ToSet(b) = {b[i] : i \in 1 .. n}
      <3>1. Len(c) = n + m
        BY <1>2
      <3>2. ToSet(c) = {c[i] : i \in 1 .. Len(c)}
        BY <1>7, RingSetOf
      <3>3. ToSet(a) = {a[i] : i \in 1 .. m} /\ ToSet(b) = {b[i] : i \in 1 .. n}
        BY RingSetOf DEF m, n
      <3> QED BY <3>1, <3>2, <3>3
    <2>2. ASSUME NEW i \in 1 .. n + m PROVE c[i] \in ToSet(a) \cup ToSet(b)
      <3>1. i <= n => i \in 1 .. n
        BY <1>1
      <3>2. ~(i <= n) => i - n \in 1 .. m
        BY <1>1
      <3> QED BY <1>1, <1>2, <3>1, <3>2
    <2>3. ASSUME NEW i \in 1 .. n PROVE b[i] \in ToSet(c)
      <3>1. i \in 1 .. n + m /\ i <= n
        BY <1>1
      <3> QED BY <1>2a, <2>1, <3>1
    <2>4. ASSUME NEW i \in 1 .. m PROVE a[i] \in ToSet(c)
      <3>1. i + n \in 1 .. n + m /\ ~(i + n <= n) /\ (i + n) - n = i
        BY <1>1
      <3>2. c[i + n] = a[i]
        BY <1>2, <3>1
      <3> QED BY <2>1, <3>1, <3>2
    <2> QED BY <2>1, <2>2, <2>3, <2>4
  <1> QED BY <1>2, <1>7, <1>8

LEMMA SpliceOK ==
    ASSUME NEW l, NEW R, NEW A, ListOK(l, R, A), NEW list \in A, NEW head \in A,
           RingOf(R, list) # RingOf(R, head)
    PROVE  ListOK(clist_splice(l, list, head), RefSplice(R, list, head), A)
  <1> DEFINE a == From(R, list)
             b == From(R, head)
             k == clist_splice(l, list, head)
             M == ToSet(a) \cup ToSet(b)
             N == {b \o a}
             rest == Without(R, {list, head})
  <1>1. /\ IsRing(l, a) /\ a[1] = list /\ ToSet(a) = ToSet(RingOf(R, list))
        /\ IsRing(l, b) /\ b[1] = head /\ ToSet(b) = ToSet(RingOf(R, head))
    BY FromIs
  <1>2. ToSet(a) \cap ToSet(b) = {}
    <2>1. RingOf(R, list) \in R /\ RingOf(R, head) \in R
      BY RingOfIs
    <2> QED BY <1>1, <2>1 DEF ListOK
  <1>3. list \in Entries /\ head \in Entries /\ list # head
    BY <1>1, RingSetOf
  <1>4. RefSplice(R, list, head) = rest \cup N
    BY DEF RefSplice
  <1>5. /\ Sound(k) /\ Sound(l)
        /\ \A x \in Entries : k.next[x] = IF l.next[x] = head THEN list ELSE IF l.next[x] = list THEN head ELSE l.next[x]
    <2>1. Sound(l)
      BY DEF ListOK
    <2> QED BY <1>3, <2>1, SoundSplice
  <1>6. Apart(R, rest, M) /\ M \subseteq A
    <2>1. M = RingsOf(R, {list, head})
      BY <1>1 DEF RingsOf
    <2>2. {list, head} \subseteq A
      OBVIOUS
    <2> HIDE DEF M
    <2> QED BY <2>1, <2>2, WithoutIs
  <1> HIDE DEF a, b, k, rest
  <1>7. IsRing(k, b \o a) /\ ToSet(b \o a) = M
    BY <1>1, <1>2, <1>5, JoinedRing
  <1>8. \A x \in Entries \ M : k.next[x] = l.next[x]
    <2> SUFFICES ASSUME NEW x \in Entries \ M PROVE l.next[x] # list /\ l.next[x] # head
      BY <1>5
    <2>1. l.prev[list] \in M /\ l.prev[head] \in M
      BY <1>1, <1>5, RingLinks, RingSetOf
    <2> QED BY <1>5, <2>1 DEF Sound, Inverse2
  <1>9. Renewed(l, k, M, N, A, A)
    BY <1>5, <1>6, <1>7, <1>8 DEF Renewed
  <1> HIDE DEF M, N
  <1> QED BY <1>4, <1>6, <1>9, Rewritten DEF k

LEMMA LinkPrevOK ==
    ASSUME NEW l, NEW R, NEW A, ListOK(l, R, A), NEW head \in A, NEW new \in A,
           head # new, Alone(R, new)
    PROVE  ListOK(clist_add_tail(l, new, head), RefLinkPrev(R, head, new), A)
  <1>1. l.next[new] = new /\ From(R, new) = <<new>> /\ ToSet(RingOf(R, new)) = {new}
    BY AloneIs
  <1>2. Sound(l) /\ A \subseteq Entries
    BY RingSetOf DEF ListOK
  <1>3. clist_add_tail(l, new, head) = clist_splice(l, new, head)
    BY <1>1, <1>2, AddTailIsSplice
  <1>4. RingOf(R, new) # RingOf(R, head)
    <2>1. head \in ToSet(RingOf(R, head))
      BY RingOfIs
    <2> QED BY <1>1, <2>1
  <1>5. Append(From(R, head), new) = From(R, head) \o <<new>>
    <2>1. From(R, head) \in Seq(Entries)
      BY FromIs DEF IsRing
    <2> QED BY <1>2, <2>1, AppendIsConcat
  <1>6. RefLinkPrev(R, head, new) = RefSplice(R, new, head)
    <2>1. {head, new} = {new, head}
      OBVIOUS
    <2> QED BY <1>1, <1>5, <2>1 DEF RefLinkPrev, RefSplice
  <1>7. ListOK(clist_splice(l, new, head), RefSplice(R, new, head), A)
    BY <1>4, SpliceOK
  <1> QED BY <1>3, <1>6, <1>7

(* A ring without its first entry.                                         *)
LEMMA TailOf ==
    ASSUME NEW l, NEW f, IsRing(l, f)
    PROVE  /\ Tail(f) \in Seq(Entries) /\ Len(Tail(f)) = Len(f) - 1
           /\ \A i \in 1 .. Len(f) - 1 : Tail(f)[i] = f[i + 1]
  <1>1. f \in Seq(Entries) /\ f # << >>
    BY DEF IsRing
  <1> QED BY <1>1, HeadTailProperties

LEMMA TailRing ==
    ASSUME NEW l, NEW f, IsRing(l, f), Len(f) # 1, NEW k,
           \A x \in Entries : k.next[x] = IF x = f[1] THEN f[1]
                                          ELSE IF l.next[x] = f[1] THEN l.next[f[1]] ELSE l.next[x]
    PROVE  IsRing(k, Tail(f)) /\ ToSet(Tail(f)) = ToSet(f) \ {f[1]}
  <1> DEFINE n == Len(f)
  <1>1. /\ n \in Nat \ {0, 1} /\ \A i \in 1 .. n : f[i] \in Entries
        /\ ToSet(f) = {f[i] : i \in 1 .. n}
    BY RingSetOf
  <1>2a. PICK t : t = Tail(f)
    OBVIOUS
  <1>2. t \in Seq(Entries) /\ Len(t) = n - 1 /\ \A i \in 1 .. n - 1 : t[i] = f[i + 1]
    BY <1>2a, TailOf
  <1>3. /\ \A i, j \in 1 .. n : f[i] = f[j] => i = j
        /\ \A i \in 1 .. n : l.next[f[i]] = f[IF i = n THEN 1 ELSE i + 1]
    BY DEF IsRing
  <1> HIDE DEF n
  <1>4. \A i \in 1 .. n - 1 : i + 1 \in 1 .. n /\ i + 1 # 1
    BY <1>1
  <1>5. ASSUME NEW i \in 1 .. n - 1, NEW j \in 1 .. n - 1, t[i] = t[j] PROVE i = j
    <2>1. i + 1 = j + 1
      BY <1>2, <1>3, <1>4, <1>5
    <2> QED BY <2>1
  <1>6. ASSUME NEW i \in 1 .. n - 1 PROVE k.next[t[i]] = t[IF i = n - 1 THEN 1 ELSE i + 1]
    <2>1. i + 1 \in 1 .. n /\ 1 \in 1 .. n /\ 1 \in 1 .. n - 1 /\ 1 + 1 = 2 /\ 1 # n
      BY <1>1
    <2>2. t[i] = f[i + 1] /\ t[1] = f[2] /\ f[i + 1] # f[1] /\ f[i + 1] \in Entries /\ l.next[f[1]] = f[2]
      BY <1>1, <1>2, <1>3, <1>4, <2>1
    <2>3. CASE i = n - 1
      <3>1. i + 1 = n
        BY <1>1, <2>3
      <3>2. l.next[f[i + 1]] = f[1]
        BY <1>3, <2>1, <3>1
      <3> QED BY <2>2, <2>3, <3>2
    <2>4. CASE i # n - 1
      <3>1. i + 1 # n /\ i + 1 \in 1 .. n - 1 /\ (i + 1) + 1 \in 1 .. n /\ (i + 1) + 1 # 1
        BY <1>1, <2>4
      <3>2. l.next[f[i + 1]] = f[(i + 1) + 1] /\ f[(i + 1) + 1] # f[1]
        BY <1>3, <2>1, <3>1
      <3>3. t[i + 1] = f[(i + 1) + 1]
        BY <1>2, <3>1
      <3> QED BY <2>2, <2>4, <3>2, <3>3
    <2> QED BY <2>3, <2>4
  <1>7. IsRing(k, t)
    <2>1. Len(t) = n - 1 /\ n - 1 > 0
      BY <1>1, <1>2
    <2> QED BY <1>2, <1>5, <1>6, <2>1 DEF IsRing
  <1>8. ToSet(t) = ToSet(f) \ {f[1]}
    <2>1. ToSet(t) = {t[i] : i \in 1 .. n - 1}
      <3>1. Len(t) = n - 1
        BY <1>2
      <3>2. ToSet(t) = {t[i] : i \in 1 .. Len(t)}
        BY <1>7, RingSetOf
      <3> QED BY <3>1, <3>2
    <2>2. ASSUME NEW i \in 1 .. n - 1 PROVE t[i] \in ToSet(f) /\ t[i] # f[1]
      <3>1. 1 \in 1 .. n
        BY <1>1
      <3>2. i + 1 \in 1 .. n /\ i + 1 # 1 /\ t[i] = f[i + 1]
        BY <1>2, <1>4
      <3>3. f[i + 1] # f[1]
        BY ONLY <1>3, <3>1, <3>2
      <3> QED BY <1>1, <3>2, <3>3
    <2>3. ASSUME NEW i \in 1 .. n, i # 1 PROVE f[i] \in ToSet(t)
      <3>1. i - 1 \in 1 .. n - 1 /\ (i - 1) + 1 = i
        BY <1>1, <2>3
      <3>2. f[i] = t[i - 1]
        BY <1>2, <3>1
      <3> QED BY <2>1, <3>1, <3>2
    <2>4. \A x \in ToSet(t) : x \in ToSet(f) /\ x # f[1]
      BY <2>1, <2>2
    <2>5. \A x \in ToSet(f) : x # f[1] => x \in ToSet(t)
      BY <1>1, <2>3
    <2> QED BY <2>4, <2>5
  <1> QED BY <1>2a, <1>7, <1>8

LEMMA UnlinkOK ==
    ASSUME NEW l, NEW R, NEW A, ListOK(l, R, A), NEW e \in A
    PROVE  ListOK(clist_del_init(l, e), RefUnlink(R, e), A)
  <1> DEFINE f == From(R, e)
             k == clist_del_init(l, e)
             M == ToSet(f)
             N == {<<e>>} \cup (IF Alone(R, e) THEN {} ELSE {Tail(f)})
             rest == Without(R, {e})
  <1>1. /\ IsRing(l, f) /\ f[1] = e /\ M = ToSet(RingOf(R, e))
        /\ Alone(R, e) <=> Len(f) = 1
    BY FromIs DEF Alone
  <1>2. Sound(l) /\ e \in Entries /\ e \in M /\ M \subseteq Entries
    BY <1>1, RingSetOf DEF ListOK
  <1>3. RefUnlink(R, e) = rest \cup N
    BY DEF RefUnlink
  <1>4. /\ Sound(k)
        /\ \A x \in Entries : k.next[x] = IF x = e THEN e ELSE IF l.next[x] = e THEN l.next[e] ELSE l.next[x]
    BY <1>2, SoundUnlink
  <1>5. Apart(R, rest, M) /\ M \subseteq A
    <2>1. M = RingsOf(R, {e})
      BY <1>1 DEF RingsOf
    <2>2. {e} \subseteq A
      OBVIOUS
    <2> HIDE DEF M
    <2> QED BY <2>1, <2>2, WithoutIs
  <1> HIDE DEF f, k, rest
  <1>6. IsRing(k, <<e>>) /\ ToSet(<<e>>) = {e}
    BY <1>2, <1>4 DEF IsRing, ToSet
  <1>7. Alone(R, e) => M = {e}
    BY <1>1, AloneIs
  <1>8. ~Alone(R, e) => IsRing(k, Tail(f)) /\ ToSet(Tail(f)) = M \ {e}
    BY <1>1, <1>4, TailRing
  <1>9. \A x \in Entries \ M : k.next[x] = l.next[x]
    <2> SUFFICES ASSUME NEW x \in Entries \ M PROVE x # e /\ l.next[x] # e
      BY <1>4
    <2>1. l.prev[e] \in M
      BY <1>1, <1>2, RingLinks
    <2> QED BY <1>2, <2>1 DEF Sound, Inverse2
  <1>10. Renewed(l, k, M, N, A, A)
    <2> HIDE DEF M
    <2>1. CASE Alone(R, e)
      <3>1. N = {<<e>>}
        BY <2>1
      <3> HIDE DEF N
      <3> QED BY <1>4, <1>5, <1>6, <1>7, <1>9, <2>1, <3>1 DEF Renewed
    <2>2. CASE ~Alone(R, e)
      <3>1. PICK t : t = Tail(f)
        OBVIOUS
      <3>2. N = {<<e>>, t} /\ IsRing(k, t) /\ ToSet(t) = M \ {e}
        BY <1>8, <2>2, <3>1
      <3>3. PICK u : u = <<e>>
        OBVIOUS
      <3> HIDE DEF N
      <3>4. N = {u, t} /\ IsRing(k, u) /\ ToSet(u) = {e}
        BY <1>6, <3>2, <3>3
      <3>5. \A s, v \in N : ToSet(s) \cap ToSet(v) # {} => s = v
        BY <3>2, <3>4
      <3>6. \A x : x \in A <=> x \in A \ M \/ \E s \in N : x \in ToSet(s)
        BY <1>2, <1>5, <3>2, <3>4
      <3> QED BY <1>2, <1>4, <1>5, <1>9, <3>2, <3>4, <3>5, <3>6 DEF Renewed
    <2> QED BY <2>1, <2>2
  <1> HIDE DEF M, N
  <1> QED BY <1>3, <1>5, <1>10, Rewritten DEF k

(* A ring with an entry put behind the first.                              *)
LEMMA InsertedRing ==
    ASSUME NEW l, NEW f, IsRing(l, f), NEW new \in Entries, new \notin ToSet(f), NEW k,
           \A x \in Entries : k.next[x] = IF x = f[1] THEN new ELSE IF x = new THEN l.next[f[1]] ELSE l.next[x]
    PROVE  /\ IsRing(k, <<f[1], new>> \o Tail(f))
           /\ ToSet(<<f[1], new>> \o Tail(f)) = ToSet(f) \cup {new}
  <1> DEFINE n == Len(f)
  <1>1. /\ n \in Nat \ {0} /\ \A i \in 1 .. n : f[i] \in Entries /\ f[i] # new
        /\ ToSet(f) = {f[i] : i \in 1 .. n}
    BY RingSetOf
  <1>2. PICK t : t = Tail(f)
    OBVIOUS
  <1>3. t \in Seq(Entries) /\ Len(t) = n - 1 /\ \A i \in 1 .. n - 1 : t[i] = f[i + 1]
    BY <1>2, TailOf
  <1>4. PICK q : q = <<f[1], new>>
    OBVIOUS
  <1>5. q \in Seq(Entries) /\ Len(q) = 2 /\ q[1] = f[1] /\ q[2] = new
    BY <1>1, <1>4
  <1>6. PICK c : c = q \o t
    OBVIOUS
  <1>7. /\ c \in Seq(Entries) /\ Len(c) = 2 + (n - 1)
        /\ \A i \in 1 .. 2 + (n - 1) : c[i] = IF i <= 2 THEN q[i] ELSE t[i - 2]
    <2>1. /\ q \o t \in Seq(Entries) /\ Len(q \o t) = Len(q) + Len(t)
          /\ \A i \in 1 .. Len(q) + Len(t) : (q \o t)[i] = IF i <= Len(q) THEN q[i] ELSE t[i - Len(q)]
      BY ONLY <1>3, <1>5, NodesConcat
    <2>2. Len(q) = 2 /\ Len(t) = n - 1
      BY <1>3, <1>5
    <2> HIDE DEF n
    <2> QED BY ONLY <1>6, <2>1, <2>2
  <1>8. /\ \A i, j \in 1 .. n : f[i] = f[j] => i = j
        /\ \A i \in 1 .. n : l.next[f[i]] = f[IF i = n THEN 1 ELSE i + 1]
    BY DEF IsRing
  <1> HIDE DEF n
  <1>9. Len(c) = n + 1 /\ c[1] = f[1] /\ c[2] = new /\ \A i \in 3 .. n + 1 : c[i] = f[i - 1]
    <2>1. 2 + (n - 1) = n + 1 /\ 1 \in 1 .. n + 1 /\ 2 \in 1 .. n + 1
      BY <1>1
    <2>2. ASSUME NEW i \in 3 .. n + 1 PROVE c[i] = f[i - 1]
      <3>1. i \in 1 .. n + 1 /\ ~(i <= 2) /\ i - 2 \in 1 .. n - 1 /\ (i - 2) + 1 = i - 1
        BY <1>1
      <3> QED BY <1>3, <1>7, <2>1, <3>1
    <2> QED BY <1>5, <1>7, <2>1, <2>2
  <1>10. \A i \in 1 .. n + 1 : i = 1 \/ i = 2 \/ (i \in 3 .. n + 1 /\ i - 1 \in 1 .. n /\ i - 1 # 1)
    BY <1>1
  <1>11. ASSUME NEW i \in 1 .. n + 1, NEW j \in 1 .. n + 1, c[i] = c[j] PROVE i = j
    <2>1. 1 \in 1 .. n
      BY <1>1
    <2>2. CASE i \in 3 .. n + 1 /\ j \in 3 .. n + 1
      <3>1. i - 1 = j - 1
        BY <1>8, <1>9, <1>10, <1>11, <2>2
      <3> QED BY <3>1
    <2>3. CASE i = 1 /\ j \in 3 .. n + 1
      BY <1>8, <1>9, <1>10, <1>11, <2>1, <2>3
    <2>4. CASE j = 1 /\ i \in 3 .. n + 1
      BY <1>8, <1>9, <1>10, <1>11, <2>1, <2>4
    <2>5. CASE i = 2 /\ j # 2
      BY <1>1, <1>9, <1>10, <1>11, <2>1, <2>5
    <2>6. CASE i # 2 /\ j = 2
      BY <1>1, <1>9, <1>10, <1>11, <2>1, <2>6
    <2> QED BY <1>10, <2>2, <2>3, <2>4, <2>5, <2>6
  <1>12. ASSUME NEW i \in 1 .. n + 1 PROVE k.next[c[i]] = c[IF i = n + 1 THEN 1 ELSE i + 1]
    <2>0. 1 \in 1 .. n /\ f[1] \in Entries /\ f[1] # new
      BY <1>1
    <2>1. CASE i = 1
      <3>1. i # n + 1 /\ i + 1 = 2
        BY <1>1, <2>1
      <3> QED BY <1>9, <2>0, <2>1, <3>1
    <2>2. CASE i = 2 /\ n = 1
      <3>1. l.next[f[1]] = f[1]
        BY <1>8, <2>0, <2>2
      <3> QED BY <1>9, <2>0, <2>2, <3>1
    <2>3. CASE i = 2 /\ n # 1
      <3>1. 3 \in 3 .. n + 1 /\ i # n + 1 /\ i + 1 = 3 /\ 3 - 1 = 2 /\ 1 + 1 = 2 /\ 1 # n
        BY <1>1, <2>3
      <3>2. l.next[f[1]] = f[1 + 1] /\ c[3] = f[2]
        BY <1>8, <1>9, <2>0, <3>1
      <3> QED BY <1>9, <2>0, <2>3, <3>1, <3>2
    <2>4. CASE i \in 3 .. n + 1
      <3>1. i - 1 \in 1 .. n /\ i - 1 # 1
        BY <1>1, <2>4
      <3>2. c[i] = f[i - 1] /\ f[i - 1] \in Entries /\ f[i - 1] # new /\ f[i - 1] # f[1]
        BY <1>1, <1>8, <1>9, <2>0, <2>4, <3>1
      <3>3. k.next[c[i]] = f[IF i - 1 = n THEN 1 ELSE (i - 1) + 1]
        BY <1>8, <3>1, <3>2
      <3>4. CASE i = n + 1
        <4>1. i - 1 = n
          BY <1>1, <3>4
        <4> QED BY <1>9, <3>3, <3>4, <4>1
      <3>5. CASE i # n + 1
        <4>1. i - 1 # n /\ (i - 1) + 1 = i /\ i + 1 \in 3 .. n + 1 /\ (i + 1) - 1 = i
          BY <1>1, <2>4, <3>5
        <4> QED BY <1>9, <3>3, <3>5, <4>1
      <3> QED BY <3>4, <3>5
    <2> QED BY <1>10, <2>1, <2>2, <2>3, <2>4
  <1>13. IsRing(k, c)
    <2>1. Len(c) = n + 1 /\ n + 1 > 0
      BY <1>1, <1>9
    <2> QED BY <1>7, <1>11, <1>12, <2>1 DEF IsRing
  <1>14. ToSet(c) = ToSet(f) \cup {new}
    <2>1. ToSet(c) = {c[i] : i \in 1 .. n + 1}
      <3>1. ToSet(c) = {c[i] : i \in 1 .. Len(c)}
        BY <1>13, RingSetOf
      <3> QED BY <1>9, <3>1
    <2>2. ASSUME NEW i \in 1 .. n + 1 PROVE c[i] \in ToSet(f) \cup {new}
      <3>1. 1 \in 1 .. n
        BY <1>1
      <3> QED BY <1>1, <1>9, <1>10, <3>1
    <2>3. ASSUME NEW i \in 1 .. n PROVE f[i] \in ToSet(c)
      <3>1. CASE i = 1
        <4>1. 1 \in 1 .. n + 1
          BY <1>1
        <4> QED BY <1>9, <2>1, <3>1, <4>1
      <3>2. CASE i # 1
        <4>1. i + 1 \in 3 .. n + 1 /\ i + 1 \in 1 .. n + 1 /\ (i + 1) - 1 = i
          BY <1>1, <3>2
        <4>2. c[i + 1] = f[i]
          BY <1>9, <4>1
        <4> QED BY <2>1, <4>1, <4>2
      <3> QED BY <3>1, <3>2
    <2>4. new \in ToSet(c)
      <3>1. 2 \in 1 .. n + 1
        BY <1>1
      <3> QED BY <1>9, <2>1, <3>1
    <2>5. \A x \in ToSet(c) : x \in ToSet(f) \cup {new}
      BY <2>1, <2>2
    <2>6. \A x \in ToSet(f) : x \in ToSet(c)
      BY <1>1, <2>3
    <2> QED BY <2>4, <2>5, <2>6
  <1> QED BY <1>2, <1>4, <1>6, <1>13, <1>14

LEMMA LinkNextOK ==
    ASSUME NEW l, NEW R, NEW A, ListOK(l, R, A), NEW head \in A, NEW new \in A,
           head # new, Alone(R, new)
    PROVE  ListOK(clist_add_head(l, new, head), RefLinkNext(R, head, new), A)
  <1> DEFINE f == From(R, head)
             c == <<head, new>> \o Tail(f)
             k == clist_add_head(l, new, head)
             M == ToSet(f) \cup {new}
             N == {c}
             rest == Without(R, {head, new})
  <1>1. l.next[new] = new /\ ToSet(RingOf(R, new)) = {new} /\ RingOf(R, new) \in R /\ RingOf(R, head) \in R
    BY AloneIs, RingOfIs
  <1>2. IsRing(l, f) /\ f[1] = head /\ ToSet(f) = ToSet(RingOf(R, head)) /\ head \in ToSet(f)
    BY FromIs, RingOfIs
  <1>3. Sound(l) /\ head \in Entries /\ new \in Entries /\ new \notin ToSet(f)
    <2>1. A \subseteq Entries
      BY RingSetOf DEF ListOK
    <2>2. new \notin ToSet(f)
      BY <1>1, <1>2 DEF ListOK
    <2> QED BY <2>1, <2>2 DEF ListOK
  <1>4. /\ Sound(k)
        /\ \A x \in Entries : k.next[x] = IF x = head THEN new ELSE IF x = new THEN l.next[head] ELSE l.next[x]
    BY <1>1, <1>3, SoundAddHead
  <1>5. RefLinkNext(R, head, new) = rest \cup N
    BY DEF RefLinkNext
  <1>6. Apart(R, rest, M) /\ M \subseteq A
    <2>1. M = RingsOf(R, {head, new})
      BY <1>1, <1>2 DEF RingsOf
    <2>2. {head, new} \subseteq A
      OBVIOUS
    <2> HIDE DEF M
    <2> QED BY <2>1, <2>2, WithoutIs
  <1> HIDE DEF f, k, rest
  <1>7. IsRing(k, c) /\ ToSet(c) = M
    BY <1>2, <1>3, <1>4, InsertedRing
  <1>8. \A x \in Entries \ M : k.next[x] = l.next[x]
    BY <1>2, <1>4
  <1> HIDE DEF c, M
  <1>9. Renewed(l, k, M, N, A, A)
    BY <1>4, <1>6, <1>7, <1>8 DEF Renewed
  <1> HIDE DEF N
  <1> QED BY <1>5, <1>6, <1>9, Rewritten DEF k

-----------------------------------------------------------------------------
(* Taking a ring apart                                                     *)

\* The first k entries of the ring r of l0 are unlinked, the others are a
\* ring in l.
Peeled(l, l0, r, k) ==
    /\ \A i \in 1 .. k : l.next[r[i]] = r[i]
    /\ \A i \in k + 1 .. Len(r) : l.next[r[i]] = r[IF i = Len(r) THEN k + 1 ELSE i + 1]
    /\ \A x \in Entries \ ToSet(r) : l.next[x] = l0.next[x]

Gone(r, k) == {r[i] : i \in 1 .. k}

LEMMA PeelStart ==
    ASSUME NEW l, NEW r, IsRing(l, r)
    PROVE  Peeled(l, l, r, 0) /\ Gone(r, 0) = {} /\ Gone(r, Len(r)) = ToSet(r)
  <1>1. Len(r) \in Nat \ {0} /\ ToSet(r) = {r[i] : i \in 1 .. Len(r)}
    BY RingSetOf
  <1> QED BY <1>1 DEF Peeled, Gone, IsRing

(* The next entry is unlinked.                                             *)
LEMMA PeelStep ==
    ASSUME NEW l0, NEW r, IsRing(l0, r), NEW k \in Nat, k < Len(r),
           NEW l, Sound(l), Peeled(l, l0, r, k), NEW m, m = clist_del_init(l, r[k + 1])
    PROVE  /\ Sound(m) /\ Peeled(m, l0, r, k + 1) /\ r[k + 1] \in ToSet(r)
           /\ pNext(l, r[k + 1]) = IF k + 1 = Len(r) THEN Null ELSE r[(k + 1) + 1]
           /\ r[k + 1] \notin Gone(r, k) /\ Gone(r, k + 1) = Gone(r, k) \cup {r[k + 1]}
  <1> DEFINE n == Len(r)
             e == r[k + 1]
  <1>1. /\ n \in Nat \ {0} /\ ToSet(r) = {r[i] : i \in 1 .. n} /\ ToSet(r) \subseteq Entries
        /\ \A i \in 1 .. n : r[i] \in Entries
    BY RingSetOf
  <1>2. \A i, j \in 1 .. n : r[i] = r[j] => i = j
    BY DEF IsRing
  <1>3. /\ \A i \in 1 .. k : l.next[r[i]] = r[i]
        /\ \A i \in k + 1 .. n : l.next[r[i]] = r[IF i = n THEN k + 1 ELSE i + 1]
        /\ \A x \in Entries \ ToSet(r) : l.next[x] = l0.next[x]
    BY DEF Peeled
  <1>4. k + 1 \in 1 .. n /\ k + 1 \in k + 1 .. n
    BY <1>1
  <1>5. k < n
    OBVIOUS
  <1> HIDE DEF n
  <1>6. e \in Entries /\ e \in ToSet(r) /\ l.next[e] = r[IF k + 1 = n THEN k + 1 ELSE (k + 1) + 1]
    BY <1>1, <1>3, <1>4
  <1>7. /\ Sound(m)
        /\ \A x \in Entries : m.next[x] = IF x = e THEN e ELSE IF l.next[x] = e THEN l.next[e] ELSE l.next[x]
    BY <1>6, SoundUnlink
  <1>8. ASSUME k + 1 = n PROVE Peeled(m, l0, r, k + 1) /\ pNext(l, e) = Null
    <2>1. l.next[e] = e
      BY <1>6, <1>8
    <2>2. \A x \in Entries : l.next[x] = e => x = e
      BY <1>6, <2>1 DEF Sound, Inverse2
    <2>3. \A x \in Entries : m.next[x] = l.next[x]
      BY <1>7, <2>1, <2>2
    <2>4. pNext(l, e) = Null
      BY <2>1 DEF pNext
    <2>5. ASSUME NEW i \in 1 .. k + 1 PROVE m.next[r[i]] = r[i]
      <3>1. i \in 1 .. k \/ i = k + 1
        OBVIOUS
      <3>2. i \in 1 .. n
        BY <1>1, <1>8
      <3> QED BY <1>1, <1>3, <2>1, <2>3, <3>1, <3>2
    <2>6. \A i \in (k + 1) + 1 .. n : FALSE
      BY <1>8
    <2>7. \A x \in Entries \ ToSet(r) : m.next[x] = l0.next[x]
      BY <1>3, <2>3
    <2> QED BY <2>4, <2>5, <2>6, <2>7 DEF Peeled, n
  <1>9. ASSUME k + 1 # n PROVE Peeled(m, l0, r, k + 1) /\ pNext(l, e) = r[(k + 1) + 1]
    <2>1. (k + 1) + 1 \in 1 .. n /\ (k + 1) + 1 # k + 1 /\ n \in k + 1 .. n /\ n \in 1 .. n
      BY <1>1, <1>5, <1>9
    <2>2. l.next[e] = r[(k + 1) + 1] /\ l.next[e] # e
      BY <1>2, <1>4, <1>6, <1>9, <2>1
    <2>3. l.next[r[n]] = e /\ r[n] \in Entries
      BY <1>1, <1>3, <2>1
    <2>4. \A x \in Entries : l.next[x] = e => x = r[n]
      BY <2>3 DEF Sound, Inverse2
    <2>5. pNext(l, e) = r[(k + 1) + 1]
      BY <2>2 DEF pNext
    <2>6. ASSUME NEW i \in 1 .. k + 1 PROVE m.next[r[i]] = r[i]
      <3>1. CASE i = k + 1
        BY <1>6, <1>7, <3>1
      <3>2. CASE i # k + 1
        <4>1. i \in 1 .. k /\ i \in 1 .. n
          BY <1>1, <1>5, <3>2
        <4>2. r[i] # e /\ r[i] \in Entries /\ l.next[r[i]] = r[i]
          BY <1>1, <1>2, <1>3, <1>4, <3>2, <4>1
        <4> QED BY <1>7, <4>2
      <3> QED BY <3>1, <3>2
    <2>7. ASSUME NEW i \in (k + 1) + 1 .. n
          PROVE  m.next[r[i]] = r[IF i = n THEN (k + 1) + 1 ELSE i + 1]
      <3>1. i \in k + 1 .. n /\ i \in 1 .. n /\ i # k + 1
        BY <1>1
      <3>2. r[i] # e /\ r[i] \in Entries
        BY <1>1, <1>2, <1>4, <3>1
      <3>3. CASE i = n
        BY <1>7, <2>2, <2>3, <3>2, <3>3
      <3>4. CASE i # n
        <4>1. r[i] # r[n]
          BY <1>2, <2>1, <3>1, <3>4
        <4>2. l.next[r[i]] = r[i + 1] /\ l.next[r[i]] # e
          BY <1>3, <2>4, <3>1, <3>2, <3>4, <4>1
        <4> QED BY <1>7, <3>2, <3>4, <4>2
      <3> QED BY <3>3, <3>4
    <2>8. ASSUME NEW x \in Entries \ ToSet(r) PROVE m.next[x] = l0.next[x]
      <3>1. r[n] \in ToSet(r)
        BY <1>1, <2>1
      <3>2. x # e /\ l.next[x] # e
        BY <1>6, <2>4, <3>1
      <3> QED BY <1>3, <1>7, <3>2
    <2> QED BY <2>5, <2>6, <2>7, <2>8 DEF Peeled, n
  <1>10. e \notin Gone(r, k)
    <2> SUFFICES ASSUME NEW i \in 1 .. k PROVE r[i] # e
      BY DEF Gone
    <2>1. i \in 1 .. n /\ i # k + 1
      BY <1>1, <1>5
    <2> QED BY <1>2, <1>4, <2>1
  <1>11. Gone(r, k + 1) = Gone(r, k) \cup {e}
    <2>1. \A i : i \in 1 .. k + 1 <=> i \in 1 .. k \/ i = k + 1
      OBVIOUS
    <2> QED BY <2>1 DEF Gone
  <1> QED BY <1>6, <1>7, <1>8, <1>9, <1>10, <1>11 DEF n

LEMMA PeelEnd ==
    ASSUME NEW l0, NEW r, IsRing(l0, r), NEW l, Peeled(l, l0, r, Len(r))
    PROVE  \A x \in Entries : l.next[x] = IF x \in ToSet(r) THEN x ELSE l0.next[x]
  <1>1. ToSet(r) = {r[i] : i \in 1 .. Len(r)}
    BY RingSetOf
  <1> QED BY <1>1 DEF Peeled

(* A ring has no more entries than there are.                              *)
LEMMA RingFits ==
    ASSUME NEW l, NEW r, IsRing(l, r)
    PROVE  Cardinality(Entries) \in Nat /\ Len(r) <= Cardinality(Entries)
  <1> DEFINE n == Len(r)
             u == [i \in 1 .. n |-> r[i]]
  <1>1. n \in Nat \ {0} /\ u \in [1 .. n -> Entries]
    BY RingSetOf
  <1>2. Cardinality(Entries) \in Nat
    BY FiniteAssumption, FS_CardinalityType
  <1> SUFFICES ASSUME Cardinality(Entries) < n PROVE FALSE
    BY <1>1, <1>2
  <1>3. IsFiniteSet(1 .. n) /\ Cardinality(1 .. n) = n
    <2>1. 1 \in Int /\ n \in Int
      BY <1>1
    <2>2. Cardinality(1 .. n) = IF 1 > n THEN 0 ELSE n - 1 + 1
      BY <2>1, FS_Interval
    <2> QED BY <1>1, <2>1, <2>2, FS_Interval
  <1>4. PICK i \in 1 .. n, j \in 1 .. n : i # j /\ u[i] = u[j]
    <2> HIDE DEF u, n
    <2>1. Cardinality(Entries) < Cardinality(1 .. n)
      BY <1>3
    <2> QED BY <1>1, <1>3, <2>1, FiniteAssumption, FS_PigeonHole
  <1> QED BY <1>4 DEF IsRing

-----------------------------------------------------------------------------
(* The loops of nifo_node_delete                                           *)

SoundLinks == {l \in [next : [Entries -> Entries], prev : [Entries -> Entries]] : Inverse2(l)}

States == [nont : SoundLinks, cont : SoundLinks, alloced : SUBSET Entries,
           broken : BOOLEAN, pNode : Entries \cup {Null}]

LEMMA SoundIs == ASSUME NEW l PROVE Sound(l) <=> l \in SoundLinks
  BY DEF Sound, SoundLinks

LEMMA NextNode ==
    ASSUME NEW l \in SoundLinks, NEW e \in Entries
    PROVE  pNext(l, e) \in Entries \cup {Null} /\ clist_del_init(l, e) \in SoundLinks
  <1>1. Sound(l)
    BY SoundIs
  <1>2. Sound(clist_del_init(l, e))
    BY <1>1, SoundUnlink
  <1>3. l.next[e] \in Entries
    BY <1>1 DEF Sound
  <1> QED BY <1>2, <1>3, SoundIs DEF pNext

(* One node of a message.                                                  *)
LEMMA ContStep ==
    ASSUME NEW s \in States, s.pNode # Null, NEW z, z = nifo_cont_delete(s)
    PROVE  /\ z \in States /\ z.nont = s.nont /\ z.cont = clist_del_init(s.cont, s.pNode)
           /\ z.alloced = s.alloced \ {s.pNode} /\ z.pNode = pNext(s.cont, s.pNode)
           /\ ~s.broken /\ s.pNode \in s.alloced => ~z.broken
  <1>1. /\ s.pNode \in Entries /\ s.cont \in SoundLinks /\ s.nont \in SoundLinks
        /\ s.alloced \subseteq Entries /\ s.broken \in BOOLEAN
    BY DEF States
  <1>2. pNext(s.cont, s.pNode) \in Entries \cup {Null} /\ clist_del_init(s.cont, s.pNode) \in SoundLinks
    BY <1>1, NextNode
  <1>3. z = [nont |-> s.nont, cont |-> clist_del_init(s.cont, s.pNode), alloced |-> s.alloced \ {s.pNode},
             broken |-> (s.broken \/ s.pNode \notin s.alloced), pNode |-> pNext(s.cont, s.pNode)]
    BY DEF nifo_cont_delete, nifo_node_free, States
  <1>4. (s.broken \/ s.pNode \notin s.alloced) \in BOOLEAN
    OBVIOUS
  <1> QED BY <1>1, <1>2, <1>3, <1>4 DEF States

\* What one round of a loop does to the state.
ContFun == [x \in States |-> IF x.pNode = Null \/ x.broken THEN x ELSE nifo_cont_delete(x)]

(* The loop over the nodes of a message is a walk through the states.      *)
LEMMA ContRun ==
    ASSUME NEW s \in States
    PROVE  LET n == Cardinality(Entries)
           IN  \E v \in [0 .. n + 1 -> States] :
                   /\ v[0] = s /\ Loop(nifo_cont_delete, s) = v[n + 1]
                   /\ \A k \in 1 .. n + 1 : v[k] = ContFun[v[k - 1]]
  <1> DEFINE n == Cardinality(Entries)
             N == n + 1
             g == [k \in 1 .. N |-> ContFun]
             Q(f) == f = [k \in 0 .. N |-> IF k = 0 THEN s
                                           ELSE IF f[k - 1].pNode = Null \/ f[k - 1].broken THEN f[k - 1]
                                           ELSE nifo_cont_delete(f[k - 1])]
  <1>0. n \in Nat /\ N \in Nat
    BY FiniteAssumption, FS_CardinalityType
  <1>1. Loop(nifo_cont_delete, s) = (CHOOSE f : Q(f))[N]
    BY DEF Loop
  <1> HIDE DEF N
  <1>2. ContFun \in [States -> States]
    BY ContStep DEF ContFun
  <1>3. g \in [1 .. N -> [States -> States]]
    BY <1>2
  <1>4. PICK f \in [0 .. N -> States] : IsWalk(f, s, g, N)
    <2> HIDE DEF g
    <2> QED BY <1>0, <1>3, WalkExists
  <1>5. f[0] = s /\ \A k \in 1 .. N : f[k] = ContFun[f[k - 1]]
    BY <1>4 DEF IsWalk
  <1> HIDE DEF g
  <1>6. Q(f)
    <2>1. ASSUME NEW k \in 0 .. N
          PROVE  f[k] = IF k = 0 THEN s ELSE IF f[k - 1].pNode = Null \/ f[k - 1].broken THEN f[k - 1]
                                             ELSE nifo_cont_delete(f[k - 1])
      <3>1. CASE k = 0
        BY <1>5, <3>1
      <3>2. CASE k # 0
        <4>1. k \in 1 .. N /\ k - 1 \in 0 .. N
          BY <1>0, <3>2
        <4>2. f[k - 1] \in States
          BY <4>1
        <4> QED BY <1>5, <3>2, <4>1, <4>2 DEF ContFun
      <3> QED BY <3>1, <3>2
    <2>2. f = [k \in 0 .. N |-> f[k]]
      OBVIOUS
    <2> QED BY <2>1, <2>2
  <1>7. PICK w : w = CHOOSE f1 : Q(f1)
    OBVIOUS
  <1>8. Q(w)
    <2> HIDE DEF Q
    <2> QED BY <1>6, <1>7
  <1>9. \A k \in 0 .. N : w[k] = IF k = 0 THEN s ELSE IF w[k - 1].pNode = Null \/ w[k - 1].broken THEN w[k - 1]
                                                      ELSE nifo_cont_delete(w[k - 1])
    BY <1>8
  <1>10. Loop(nifo_cont_delete, s) = w[N]
    <2> HIDE DEF Q
    <2> QED BY <1>1, <1>7
  <1> HIDE DEF Q
  <1> DEFINE T == {k \in Nat : k <= N => w[k] = f[k]}
  <1>11. 0 \in T
    BY <1>0, <1>5, <1>9
  <1>12. ASSUME NEW k \in Nat, k \in T PROVE k + 1 \in T
    <2> SUFFICES ASSUME k + 1 <= N PROVE w[k + 1] = f[k + 1]
      OBVIOUS
    <2>1. k + 1 \in 1 .. N /\ k + 1 \in 0 .. N /\ (k + 1) - 1 = k /\ k + 1 # 0 /\ k \in 0 .. N /\ w[k] = f[k]
      BY <1>0, <1>12
    <2>2. f[k] \in States /\ f[k + 1] = ContFun[f[k]]
      BY <1>5, <2>1
    <2>3. w[k + 1] = IF f[k].pNode = Null \/ f[k].broken THEN f[k] ELSE nifo_cont_delete(f[k])
      BY <1>9, <2>1
    <2> QED BY <2>2, <2>3 DEF ContFun
  <1>13. \A k \in Nat : k \in T
    <2> HIDE DEF T
    <2> QED BY <1>11, <1>12, InductionOnSet
  <1>14. Loop(nifo_cont_delete, s) = f[N]
    BY <1>0, <1>10, <1>13
  <1> QED BY <1>5, <1>14 DEF N

(* A loop that has ended stays where it is.                                *)
LEMMA RunEnds ==
    ASSUME NEW v, NEW N \in Nat, NEW n \in Nat, n <= N,
           \A k \in 1 .. N : v[k - 1] = v[n] => v[k] = v[n]
    PROVE  v[N] = v[n]
  <1> DEFINE T == {k \in Nat : n + k <= N => v[n + k] = v[n]}
  <1>1. 0 \in T
    OBVIOUS
  <1>2. ASSUME NEW k \in Nat, k \in T PROVE k + 1 \in T
    <2> SUFFICES ASSUME n + (k + 1) <= N PROVE v[n + (k + 1)] = v[n]
      OBVIOUS
    <2>1. n + (k + 1) \in 1 .. N /\ (n + (k + 1)) - 1 = n + k /\ v[n + k] = v[n]
      BY <1>2
    <2> QED BY <2>1
  <1>3. \A k \in Nat : k \in T
    <2> HIDE DEF T
    <2> QED BY <1>1, <1>2, InductionOnSet
  <1>4. N - n \in Nat /\ n + (N - n) = N /\ N - n \in T
    BY <1>3
  <1> QED BY <1>4

(* The nodes of a message are unlinked and freed, each once.               *)
LEMMA ContLoop ==
    ASSUME NEW s \in States, ~s.broken, NEW r, IsRing(s.cont, r), s.pNode = r[1],
           ToSet(r) \subseteq s.alloced, NEW z, z = Loop(nifo_cont_delete, s)
    PROVE  /\ z \in States /\ z.nont = s.nont /\ ~z.broken /\ z.alloced = s.alloced \ ToSet(r)
           /\ \A x \in Entries : z.cont.next[x] = IF x \in ToSet(r) THEN x ELSE s.cont.next[x]
  <1> DEFINE N == Cardinality(Entries) + 1
             n == Len(r)
  <1>1. PICK v \in [0 .. N -> States] : /\ v[0] = s /\ z = v[N]
                                        /\ \A k \in 1 .. N : v[k] = ContFun[v[k - 1]]
    BY ContRun
  <1>2. N \in Nat /\ n \in Nat \ {0} /\ n <= N
    BY RingFits, RingSetOf
  <1> HIDE DEF N
  <1> DEFINE P(k) == /\ v[k].nont = s.nont /\ ~v[k].broken /\ v[k].alloced = s.alloced \ Gone(r, k)
                     /\ v[k].pNode = IF k = n THEN Null ELSE r[k + 1]
                     /\ Peeled(v[k].cont, s.cont, r, k)
             T == {k \in Nat : k <= n => P(k)}
  <1>3. 0 \in T
    <2>1. 0 # n /\ 0 + 1 = 1
      BY <1>2
    <2> QED BY <1>1, <2>1, PeelStart
  <1>4. ASSUME NEW k \in Nat, k \in T PROVE k + 1 \in T
    <2> SUFFICES ASSUME k + 1 <= n PROVE P(k + 1)
      OBVIOUS
    <2>1. k + 1 \in 1 .. N /\ (k + 1) - 1 = k /\ k \in 0 .. N /\ k < n /\ k # n
      BY <1>2
    <2>2. P(k) /\ v[k] \in States /\ v[k + 1] = ContFun[v[k]]
      BY <1>1, <1>4, <2>1
    <2> DEFINE e == r[k + 1]
    <2>3. v[k].pNode = e
      BY <2>1, <2>2
    <2>4. Sound(v[k].cont)
      BY <2>2, SoundIs DEF States
    <2>5. /\ Peeled(clist_del_init(v[k].cont, e), s.cont, r, k + 1) /\ e \in ToSet(r)
          /\ pNext(v[k].cont, e) = IF k + 1 = n THEN Null ELSE r[(k + 1) + 1]
          /\ e \notin Gone(r, k) /\ Gone(r, k + 1) = Gone(r, k) \cup {e}
      BY <2>1, <2>2, <2>4, PeelStep
    <2>6. e # Null /\ e \in v[k].alloced /\ e \in s.alloced
      BY <2>2, <2>5, RingSetOf, NullAssumption
    <2> HIDE DEF e
    <2>7. v[k + 1] = nifo_cont_delete(v[k])
      <3>1. ~(v[k].pNode = Null \/ v[k].broken)
        BY <2>2, <2>3, <2>6
      <3> QED BY <2>2, <3>1 DEF ContFun
    <2>8. /\ v[k + 1].nont = v[k].nont /\ v[k + 1].cont = clist_del_init(v[k].cont, e)
          /\ v[k + 1].alloced = v[k].alloced \ {e} /\ v[k + 1].pNode = pNext(v[k].cont, e)
          /\ ~v[k + 1].broken
      BY <2>2, <2>3, <2>6, <2>7, ContStep
    <2>9. v[k + 1].alloced = s.alloced \ Gone(r, k + 1)
      BY <2>2, <2>5, <2>8
    <2> QED BY <2>2, <2>5, <2>8, <2>9
  <1>5. \A k \in Nat : k \in T
    <2> HIDE DEF T
    <2> QED BY <1>3, <1>4, InductionOnSet
  <1>6. P(n)
    BY <1>2, <1>5
  <1>7. v[N] = v[n]
    <2>1. v[n] \in States /\ ContFun[v[n]] = v[n]
      <3>1. v[n] \in States
        BY <1>1, <1>2
      <3> QED BY <1>6, <3>1 DEF ContFun
    <2>2. N \in Nat /\ n \in Nat /\ n <= N /\ \A k \in 1 .. N : v[k - 1] = v[n] => v[k] = v[n]
      BY <1>1, <1>2, <2>1
    <2> HIDE DEF n
    <2> QED BY ONLY <2>2, RunEnds
  <1>8. z = v[n] /\ z \in States
    BY <1>1, <1>2, <1>7
  <1>9. Peeled(z.cont, s.cont, r, Len(r)) /\ z.alloced = s.alloced \ ToSet(r)
    BY <1>6, <1>8, PeelStart
  <1>10. \A x \in Entries : z.cont.next[x] = IF x \in ToSet(r) THEN x ELSE s.cont.next[x]
    BY <1>9, PeelEnd
  <1> QED BY <1>6, <1>8, <1>9, <1>10

LEMMA ContLoopType == ASSUME NEW s \in States PROVE Loop(nifo_cont_delete, s) \in States
  <1>1. Cardinality(Entries) \in Nat
    BY FiniteAssumption, FS_CardinalityType
  <1> QED BY <1>1, ContRun

(* One message of a list.                                                  *)
LEMMA NontStep ==
    ASSUME NEW s \in States, s.pNode # Null, NEW z, z = nifo_nont_delete(s)
    PROVE  /\ z \in States /\ z.nont = clist_del_init(s.nont, s.pNode) /\ z.cont = s.cont
           /\ z.alloced = s.alloced /\ z.pNode = s.pNode /\ z.broken = s.broken
  <1>1. s.pNode \in Entries /\ s.nont \in SoundLinks
    BY DEF States
  <1>2. clist_del_init(s.nont, s.pNode) \in SoundLinks
    BY <1>1, NextNode
  <1>3. z = [s EXCEPT !.nont = clist_del_init(s.nont, s.pNode)]
    BY DEF nifo_nont_delete
  <1> QED BY <1>2, <1>3 DEF States

LEMMA MessageStep ==
    ASSUME NEW s \in States, s.pNode # Null, NEW y, y = Loop(nifo_cont_delete, nifo_nont_delete(s)),
           NEW z, z = DeleteMessage(s)
    PROVE  /\ y \in States /\ z \in States /\ z.nont = y.nont /\ z.cont = y.cont
           /\ z.alloced = y.alloced /\ z.broken = y.broken /\ z.pNode = pNext(s.nont, s.pNode)
  <1>1. y \in States
    BY NontStep, ContLoopType
  <1>2. s.pNode \in Entries /\ s.nont \in SoundLinks
    BY DEF States
  <1>3. pNext(s.nont, s.pNode) \in Entries \cup {Null}
    BY <1>2, NextNode
  <1>4. z = [y EXCEPT !.pNode = pNext(s.nont, s.pNode)]
    BY DEF DeleteMessage
  <1> QED BY <1>1, <1>3, <1>4 DEF States

MessageFun == [x \in States |-> IF x.pNode = Null \/ x.broken THEN x ELSE DeleteMessage(x)]

(* So is the loop over the messages.                                       *)
LEMMA MessageRun ==
    ASSUME NEW s \in States
    PROVE  LET n == Cardinality(Entries)
           IN  \E v \in [0 .. n + 1 -> States] :
                   /\ v[0] = s /\ Loop(DeleteMessage, s) = v[n + 1]
                   /\ \A k \in 1 .. n + 1 : v[k] = MessageFun[v[k - 1]]
  <1> DEFINE n == Cardinality(Entries)
             N == n + 1
             g == [k \in 1 .. N |-> MessageFun]
             Q(f) == f = [k \in 0 .. N |-> IF k = 0 THEN s
                                           ELSE IF f[k - 1].pNode = Null \/ f[k - 1].broken THEN f[k - 1]
                                           ELSE DeleteMessage(f[k - 1])]
  <1>0. n \in Nat /\ N \in Nat
    BY FiniteAssumption, FS_CardinalityType
  <1>1. Loop(DeleteMessage, s) = (CHOOSE f : Q(f))[N]
    BY DEF Loop
  <1> HIDE DEF N
  <1>2. MessageFun \in [States -> States]
    BY MessageStep DEF MessageFun
  <1>3. g \in [1 .. N -> [States -> States]]
    BY <1>2
  <1>4. PICK f \in [0 .. N -> States] : IsWalk(f, s, g, N)
    <2> HIDE DEF g
    <2> QED BY <1>0, <1>3, WalkExists
  <1>5. f[0] = s /\ \A k \in 1 .. N : f[k] = MessageFun[f[k - 1]]
    BY <1>4 DEF IsWalk
  <1> HIDE DEF g
  <1>6. Q(f)
    <2>1. ASSUME NEW k \in 0 .. N
          PROVE  f[k] = IF k = 0 THEN s ELSE IF f[k - 1].pNode = Null \/ f[k - 1].broken THEN f[k - 1]
                                             ELSE DeleteMessage(f[k - 1])
      <3>1. CASE k = 0
        BY <1>5, <3>1
      <3>2. CASE k # 0
        <4>1. k \in 1 .. N /\ k - 1 \in 0 .. N
          BY <1>0, <3>2
        <4>2. f[k - 1] \in States
          BY <4>1
        <4> QED BY <1>5, <3>2, <4>1, <4>2 DEF MessageFun
      <3> QED BY <3>1, <3>2
    <2>2. f = [k \in 0 .. N |-> f[k]]
      OBVIOUS
    <2> QED BY <2>1, <2>2
  <1>7. PICK w : w = CHOOSE f1 : Q(f1)
    OBVIOUS
  <1>8. Q(w)
    <2> HIDE DEF Q
    <2> QED BY <1>6, <1>7
  <1>9. \A k \in 0 .. N : w[k] = IF k = 0 THEN s ELSE IF w[k - 1].pNode = Null \/ w[k - 1].broken THEN w[k - 1]
                                                      ELSE DeleteMessage(w[k - 1])
    BY <1>8
  <1>10. Loop(DeleteMessage, s) = w[N]
    <2> HIDE DEF Q
    <2> QED BY <1>1, <1>7
  <1> HIDE DEF Q
  <1> DEFINE T == {k \in Nat : k <= N => w[k] = f[k]}
  <1>11. 0 \in T
    BY <1>0, <1>5, <1>9
  <1>12. ASSUME NEW k \in Nat, k \in T PROVE k + 1 \in T
    <2> SUFFICES ASSUME k + 1 <= N PROVE w[k + 1] = f[k + 1]
      OBVIOUS
    <2>1. k + 1 \in 1 .. N /\ k + 1 \in 0 .. N /\ (k + 1) - 1 = k /\ k + 1 # 0 /\ k \in 0 .. N /\ w[k] = f[k]
      BY <1>0, <1>12
    <2>2. f[k] \in States /\ f[k + 1] = MessageFun[f[k]]
      BY <1>5, <2>1
    <2>3. w[k + 1] = IF f[k].pNode = Null \/ f[k].broken THEN f[k] ELSE DeleteMessage(f[k])
      BY <1>9, <2>1
    <2> QED BY <2>2, <2>3 DEF MessageFun
  <1>13. \A k \in Nat : k \in T
    <2> HIDE DEF T
    <2> QED BY <1>11, <1>12, InductionOnSet
  <1>14. Loop(DeleteMessage, s) = f[N]
    BY <1>0, <1>10, <1>13
  <1> QED BY <1>5, <1>14 DEF N

\* The nodes of the first k messages, when c[i] is the i-th.
Freed(c, k) == UNION {ToSet(c[i]) : i \in 1 .. k}

\* The i-th entry of r is the header of the message c[i]; no two messages
\* share a node.
Headers(s, r, c) ==
    /\ \A i \in 1 .. Len(r) : IsRing(s.cont, c[i]) /\ c[i][1] = r[i] /\ ToSet(c[i]) \subseteq s.alloced
    /\ \A i, j \in 1 .. Len(r) : i # j => ToSet(c[i]) \cap ToSet(c[j]) = {}

(* The messages are taken off nont one after the other and their nodes     *)
(* freed, each once.                                                       *)
LEMMA MessageLoop ==
    ASSUME NEW s \in States, ~s.broken, NEW r, IsRing(s.nont, r), s.pNode = r[1],
           NEW c, Headers(s, r, c), NEW M, M = Freed(c, Len(r)), NEW z, z = Loop(DeleteMessage, s)
    PROVE  /\ z \in States /\ ~z.broken /\ z.alloced = s.alloced \ M
           /\ \A x \in Entries : z.nont.next[x] = IF x \in ToSet(r) THEN x ELSE s.nont.next[x]
           /\ \A x \in Entries : z.cont.next[x] = IF x \in M THEN x ELSE s.cont.next[x]
  <1> DEFINE N == Cardinality(Entries) + 1
             n == Len(r)
  <1>1. PICK v \in [0 .. N -> States] : /\ v[0] = s /\ z = v[N]
                                        /\ \A k \in 1 .. N : v[k] = MessageFun[v[k - 1]]
    BY MessageRun
  <1>2. N \in Nat /\ n \in Nat \ {0} /\ n <= N
    BY RingFits, RingSetOf
  <1> HIDE DEF N
  <1> DEFINE P(k) == /\ ~v[k].broken /\ v[k].alloced = s.alloced \ Freed(c, k)
                     /\ v[k].pNode = IF k = n THEN Null ELSE r[k + 1]
                     /\ Peeled(v[k].nont, s.nont, r, k)
                     /\ \A x \in Entries : v[k].cont.next[x] = IF x \in Freed(c, k) THEN x ELSE s.cont.next[x]
             T == {k \in Nat : k <= n => P(k)}
  <1>3. 0 \in T
    <2>1. 0 # n /\ 0 + 1 = 1
      BY <1>2
    <2>2. Freed(c, 0) = {}
      BY DEF Freed
    <2> QED BY <1>1, <2>1, <2>2, PeelStart
  <1>4. ASSUME NEW k \in Nat, P(k), k + 1 <= n PROVE P(k + 1)
    <2>1. k + 1 \in 1 .. N /\ (k + 1) - 1 = k /\ k \in 0 .. N /\ k < n /\ k # n /\ k + 1 \in 1 .. n
      BY <1>2, <1>4
    <2>2. P(k) /\ v[k] \in States /\ v[k + 1] = MessageFun[v[k]]
      BY <1>1, <1>4, <2>1
    <2> DEFINE e == r[k + 1]
               f == c[k + 1]
               a == nifo_nont_delete(v[k])
               b == Loop(nifo_cont_delete, a)
    <2>3. v[k].pNode = e
      BY <2>1, <2>2
    <2>4. Sound(v[k].nont)
      BY <2>2, SoundIs DEF States
    <2>5. /\ Peeled(clist_del_init(v[k].nont, e), s.nont, r, k + 1) /\ e \in ToSet(r)
          /\ pNext(v[k].nont, e) = IF k + 1 = n THEN Null ELSE r[(k + 1) + 1]
      BY <2>1, <2>2, <2>4, PeelStep
    <2>6. e # Null /\ IsRing(s.cont, f) /\ f[1] = e /\ ToSet(f) \subseteq s.alloced
      <3>1. e \in Entries
        BY <2>5, RingSetOf
      <3> QED BY <2>1, <3>1, NullAssumption DEF Headers
    <2>7. /\ ToSet(f) \cap Freed(c, k) = {} /\ Freed(c, k + 1) = Freed(c, k) \cup ToSet(f)
      <3>1. \A i \in 1 .. k : ToSet(c[i]) \cap ToSet(f) = {}
        <4> SUFFICES ASSUME NEW i \in 1 .. k PROVE ToSet(c[i]) \cap ToSet(f) = {}
          OBVIOUS
        <4>1. i \in 1 .. n /\ i # k + 1
          BY <1>2, <2>1
        <4> QED BY <2>1, <4>1 DEF Headers
      <3>2. \A i : i \in 1 .. k + 1 <=> i \in 1 .. k \/ i = k + 1
        OBVIOUS
      <3> QED BY <3>1, <3>2 DEF Freed
    <2> HIDE DEF e, f
    <2>8. v[k + 1] = DeleteMessage(v[k])
      <3>1. ~(v[k].pNode = Null \/ v[k].broken)
        BY <2>2, <2>3, <2>6
      <3> QED BY <2>2, <3>1 DEF MessageFun
    <2>9. /\ a \in States /\ a.nont = clist_del_init(v[k].nont, e) /\ a.cont = v[k].cont
          /\ a.alloced = v[k].alloced /\ a.pNode = e /\ a.broken = v[k].broken
      <3> HIDE DEF a
      <3> QED BY <2>2, <2>3, <2>6, NontStep DEF a
    <2>10. /\ v[k + 1].nont = b.nont /\ v[k + 1].cont = b.cont /\ v[k + 1].alloced = b.alloced
           /\ v[k + 1].broken = b.broken /\ v[k + 1].pNode = pNext(v[k].nont, e)
      <3> HIDE DEF b
      <3>1. b = Loop(nifo_cont_delete, nifo_nont_delete(v[k]))
        BY DEF b
      <3> QED BY <2>2, <2>3, <2>6, <2>8, <3>1, MessageStep
    <2> HIDE DEF a
    <2>11. IsRing(a.cont, f)
      <3>1. \A i \in 1 .. Len(f) : f[i] \in Entries /\ f[i] \in ToSet(f)
        BY <2>6, RingSetOf
      <3>2. \A i \in 1 .. Len(f) : a.cont.next[f[i]] = s.cont.next[f[i]]
        BY <2>2, <2>7, <2>9, <3>1
      <3> QED BY <2>6, <3>2 DEF IsRing
    <2>12. ~a.broken /\ a.pNode = f[1] /\ ToSet(f) \subseteq a.alloced
      BY <2>2, <2>6, <2>7, <2>9
    <2>13. /\ b.nont = a.nont /\ ~b.broken /\ b.alloced = a.alloced \ ToSet(f)
           /\ \A x \in Entries : b.cont.next[x] = IF x \in ToSet(f) THEN x ELSE a.cont.next[x]
      <3> HIDE DEF b
      <3> QED BY <2>9, <2>11, <2>12, ContLoop DEF b
    <2> HIDE DEF b
    <2>14. Peeled(v[k + 1].nont, s.nont, r, k + 1)
      BY <2>5, <2>9, <2>10, <2>13
    <2>15. v[k + 1].alloced = s.alloced \ Freed(c, k + 1)
      BY <2>2, <2>7, <2>9, <2>10, <2>13
    <2>16. \A x \in Entries : v[k + 1].cont.next[x] = IF x \in Freed(c, k + 1) THEN x ELSE s.cont.next[x]
      BY <2>2, <2>7, <2>9, <2>10, <2>13
    <2> QED BY <2>5, <2>10, <2>13, <2>14, <2>15, <2>16
  <1>5. \A k \in Nat : k \in T
    <2> HIDE DEF P
    <2>1. ASSUME NEW k \in Nat, k \in T PROVE k + 1 \in T
      BY <1>2, <1>4, <2>1
    <2> HIDE DEF T
    <2> QED BY <1>3, <2>1, InductionOnSet
  <1>6. P(n)
    BY <1>2, <1>5
  <1>7. v[N] = v[n]
    <2>1. v[n] \in States /\ MessageFun[v[n]] = v[n]
      <3>1. v[n] \in States
        BY <1>1, <1>2
      <3> QED BY <1>6, <3>1 DEF MessageFun
    <2>2. N \in Nat /\ n \in Nat /\ n <= N /\ \A k \in 1 .. N : v[k - 1] = v[n] => v[k] = v[n]
      BY <1>1, <1>2, <2>1
    <2> HIDE DEF n
    <2> QED BY ONLY <2>2, RunEnds
  <1>8. z = v[n] /\ z \in States
    BY <1>1, <1>2, <1>7
  <1>9. Peeled(z.nont, s.nont, r, Len(r))
    BY <1>6, <1>8
  <1>10. \A x \in Entries : z.nont.next[x] = IF x \in ToSet(r) THEN x ELSE s.nont.next[x]
    BY <1>9, PeelEnd
  <1> QED BY <1>6, <1>8, <1>10

-----------------------------------------------------------------------------
(* The invariant                                                           *)

Inv ==
    /\ broken = FALSE
    /\ ListOK(nont, nontRings, alloced) /\ ListOK(cont, contRings, alloced)

\* The messages of a list, each from its header on.
Messages(e) == [i \in 1 .. Len(From(nontRings, e)) |-> From(contRings, From(nontRings, e)[i])]

(* The messages of a header's list share no node.                          *)
LEMMA MessagesAre ==
    ASSUME Inv, NEW e \in alloced, IsHeader(e)
    PROVE  LET r == From(nontRings, e)
               c == Messages(e)
           IN  /\ \A i \in 1 .. Len(r) : /\ r[i] \in alloced /\ IsRing(cont, c[i]) /\ c[i][1] = r[i]
                                         /\ ToSet(c[i]) = ToSet(RingOf(contRings, r[i]))
                                         /\ ToSet(c[i]) \subseteq alloced
               /\ \A i, j \in 1 .. Len(r) : i # j => ToSet(c[i]) \cap ToSet(c[j]) = {}
               /\ Freed(c, Len(r)) = Message(e)
  <1> DEFINE r == From(nontRings, e)
             c == Messages(e)
             n == Len(r)
  <1>0. ListOK(nont, nontRings, alloced) /\ ListOK(cont, contRings, alloced)
    BY DEF Inv
  <1>1. IsRing(nont, r) /\ ToSet(r) = ToSet(RingOf(nontRings, e)) /\ RingOf(nontRings, e) \in nontRings
    BY <1>0, FromIs, RingOfIs
  <1>2. \A i \in 1 .. n : c[i] = From(contRings, r[i])
    BY DEF Messages
  <1> HIDE DEF r, c
  <1>3. n \in Nat \ {0} /\ ToSet(r) = {r[i] : i \in 1 .. n}
    BY <1>1, RingSetOf
  <1>4. ToSet(r) \subseteq alloced
    BY <1>0, <1>1 DEF ListOK
  <1>5. ASSUME NEW i \in 1 .. n
        PROVE  /\ r[i] \in alloced /\ r[i] \in ToSet(r) /\ IsRing(cont, c[i]) /\ c[i][1] = r[i]
               /\ ToSet(c[i]) = ToSet(RingOf(contRings, r[i]))
               /\ RingOf(contRings, r[i]) \in contRings /\ r[i] \in ToSet(RingOf(contRings, r[i]))
    <2>1. r[i] \in alloced /\ r[i] \in ToSet(r)
      BY <1>3, <1>4
    <2> QED BY <1>0, <1>2, <2>1, FromIs, RingOfIs
  <1>6. \A i \in 1 .. n : ToSet(c[i]) \subseteq alloced
    BY <1>0, <1>5 DEF ListOK
  <1>7. ASSUME NEW i \in 1 .. n, NEW j \in 1 .. n, i # j, ToSet(c[i]) \cap ToSet(c[j]) # {} PROVE FALSE
    <2>1. RingOf(contRings, r[i]) = RingOf(contRings, r[j])
      BY <1>0, <1>5, <1>7 DEF ListOK
    <2>2. r[j] # r[i]
      BY <1>1, <1>7 DEF IsRing
    <2>3. Alone(nontRings, r[j])
      BY <1>1, <1>5, <2>1, <2>2 DEF IsHeader
    <2>4. nont.next[r[j]] = r[j]
      BY <1>0, <1>5, <2>3, AloneIs
    <2>5. nont.next[r[j]] = r[IF j = n THEN 1 ELSE j + 1]
      BY <1>1 DEF IsRing
    <2>6. (IF j = n THEN 1 ELSE j + 1) \in 1 .. n /\ (IF j = n THEN 1 ELSE j + 1) # j
      BY <1>3, <1>7
    <2> QED BY <1>1, <2>4, <2>5, <2>6 DEF IsRing
  <1>8. Freed(c, n) = Message(e)
    <2>1. \A x : x \in Freed(c, n) <=> \E i \in 1 .. n : x \in ToSet(RingOf(contRings, r[i]))
      BY <1>5 DEF Freed
    <2>2. \A x : x \in Message(e) <=> \E h \in ToSet(r) : x \in ToSet(RingOf(contRings, h))
      BY <1>1 DEF Message
    <2>3. \A x : (\E i \in 1 .. n : x \in ToSet(RingOf(contRings, r[i])))
                 <=> \E h \in ToSet(r) : x \in ToSet(RingOf(contRings, h))
      BY <1>3
    <2>4. \A x : x \in Freed(c, n) <=> x \in Message(e)
      BY <2>1, <2>2, <2>3
    <2> QED BY <2>4
  <1> QED BY <1>5, <1>6, <1>7, <1>8 DEF r, c

LEMMA WithoutClosed ==
    ASSUME NEW R, NEW M, M \subseteq Entries, \A s \in R : ToSet(s) \cap M = {} \/ ToSet(s) \subseteq M
    PROVE  Apart(R, Without(R, M), M)
  BY DEF Apart, Without

LEMMA DeleteStep ==
    ASSUME Inv, NEW e \in alloced, nifo_node_delete(e)
    PROVE  Inv'
  <1> DEFINE r == From(nontRings, e)
             c == Messages(e)
             M == Message(e)
             s == [nont |-> nont, cont |-> cont, alloced |-> alloced, broken |-> broken, pNode |-> e]
             z == Loop(DeleteMessage, s)
  <1>1. /\ IsHeader(e) /\ nont' = z.nont /\ cont' = z.cont /\ alloced' = z.alloced /\ broken' = z.broken
        /\ nontRings' = Without(nontRings, M) /\ contRings' = Without(contRings, M)
    BY DEF nifo_node_delete
  <1>2. broken = FALSE /\ ListOK(nont, nontRings, alloced) /\ ListOK(cont, contRings, alloced)
    BY DEF Inv
  <1>3. Sound(nont) /\ Sound(cont) /\ alloced \subseteq Entries
    <2>1. \A t \in nontRings : ToSet(t) \subseteq Entries
      BY <1>2, RingSetOf DEF ListOK
    <2> QED BY <1>2, <2>1 DEF ListOK
  <1>4. IsRing(nont, r) /\ r[1] = e /\ ToSet(r) = ToSet(RingOf(nontRings, e)) /\ RingOf(nontRings, e) \in nontRings
    BY <1>2, FromIs, RingOfIs
  <1>5. /\ \A i \in 1 .. Len(r) : /\ r[i] \in alloced /\ IsRing(cont, c[i]) /\ c[i][1] = r[i]
                                  /\ ToSet(c[i]) = ToSet(RingOf(contRings, r[i]))
                                  /\ ToSet(c[i]) \subseteq alloced
        /\ \A i, j \in 1 .. Len(r) : i # j => ToSet(c[i]) \cap ToSet(c[j]) = {}
        /\ Freed(c, Len(r)) = M
    BY <1>1, MessagesAre
  <1>6. /\ s \in States /\ ~s.broken /\ s.pNode = e /\ s.nont = nont /\ s.cont = cont /\ s.alloced = alloced
    <2>1. nont \in SoundLinks /\ cont \in SoundLinks /\ e \in Entries
      BY <1>3, SoundIs
    <2> QED BY <1>2, <1>3, <2>1 DEF States
  <1> HIDE DEF r, c, s
  <1>7. /\ z \in States /\ ~z.broken /\ z.alloced = alloced \ M
        /\ \A x \in Entries : z.nont.next[x] = IF x \in ToSet(r) THEN x ELSE nont.next[x]
        /\ \A x \in Entries : z.cont.next[x] = IF x \in M THEN x ELSE cont.next[x]
    <2> HIDE DEF z, M
    <2>1. /\ s \in States /\ ~s.broken /\ IsRing(s.nont, r) /\ s.pNode = r[1]
          /\ Headers(s, r, c) /\ M = Freed(c, Len(r)) /\ z = Loop(DeleteMessage, s)
      BY <1>4, <1>5, <1>6 DEF z, Headers
    <2>2. /\ z \in States /\ ~z.broken /\ z.alloced = s.alloced \ M
          /\ \A x \in Entries : z.nont.next[x] = IF x \in ToSet(r) THEN x ELSE s.nont.next[x]
          /\ \A x \in Entries : z.cont.next[x] = IF x \in M THEN x ELSE s.cont.next[x]
      BY ONLY <2>1, MessageLoop
    <2> QED BY <1>6, <2>2
  <1> HIDE DEF z
  <1>8. /\ broken' = FALSE /\ alloced' = alloced \ M /\ Sound(nont') /\ Sound(cont')
    BY <1>1, <1>7, SoundIs DEF States
  <1>9. \A x : x \in M <=> \E h \in ToSet(r) : x \in ToSet(RingOf(contRings, h))
    BY <1>4 DEF Message
  <1>10. ToSet(r) \subseteq M /\ M \subseteq alloced
    <2>1. ToSet(r) \subseteq alloced
      BY <1>2, <1>4 DEF ListOK
    <2>2. \A h \in ToSet(r) : /\ RingOf(contRings, h) \in contRings /\ h \in ToSet(RingOf(contRings, h))
      BY <1>2, <2>1, RingOfIs
    <2> QED BY <1>2, <1>9, <2>2 DEF ListOK
  <1>11. \A x \in M : x \in ToSet(r) \/ Alone(nontRings, x)
    <2> SUFFICES ASSUME NEW x \in M, x \notin ToSet(r) PROVE Alone(nontRings, x)
      OBVIOUS
    <2>1. PICK h \in ToSet(r) : x \in ToSet(RingOf(contRings, h))
      BY <1>9
    <2> QED BY <1>1, <1>4, <2>1 DEF IsHeader
  <1> HIDE DEF M
  <1>12. ListOK(cont', contRings', alloced')
    <2>1. ASSUME NEW t \in contRings, NEW x \in ToSet(t), x \in M PROVE ToSet(t) \subseteq M
      <3>1. PICK h \in ToSet(r) : x \in ToSet(RingOf(contRings, h))
        BY <1>9, <2>1
      <3>2. RingOf(contRings, h) \in contRings
        BY <1>2, <1>10, RingOfIs
      <3>3. t = RingOf(contRings, h)
        BY <1>2, <3>1, <3>2 DEF ListOK
      <3> QED BY <1>9, <3>3
    <2>2. Apart(contRings, Without(contRings, M), M)
      BY <1>3, <1>10, <2>1, WithoutClosed
    <2>3. Renewed(cont, cont', M, {}, alloced, alloced')
      BY <1>1, <1>7, <1>8, <1>10, <1>3 DEF Renewed
    <2>4. ListOK(cont', Without(contRings, M) \cup {}, alloced')
      BY <1>2, <2>2, <2>3, Rewritten
    <2> QED BY <1>1, <2>4
  <1>13. ListOK(nont', nontRings', alloced')
    <2>1. ASSUME NEW t \in nontRings, NEW x \in ToSet(t), x \in M PROVE ToSet(t) \subseteq M
      <3>1. x \in alloced
        BY <1>10, <2>1
      <3>2. t = RingOf(nontRings, x)
        BY <1>2, <3>1, RingOfIs
      <3>3. CASE x \in ToSet(r)
        <4>1. t = RingOf(nontRings, e)
          BY <1>2, <1>4, <3>3 DEF ListOK
        <4> QED BY <1>4, <1>10, <4>1
      <3>4. CASE Alone(nontRings, x)
        <4>1. ToSet(t) = {x}
          BY <1>2, <3>1, <3>2, <3>4, AloneIs
        <4> QED BY <2>1, <4>1
      <3> QED BY <1>11, <2>1, <3>3, <3>4
    <2>2. Apart(nontRings, Without(nontRings, M), M)
      BY <1>3, <1>10, <2>1, WithoutClosed
    <2>3. \A x \in M : nont'.next[x] = x
      <3> SUFFICES ASSUME NEW x \in M PROVE nont'.next[x] = x
        OBVIOUS
      <3>1. x \in alloced /\ x \in Entries
        BY <1>3, <1>10
      <3>2. Alone(nontRings, x) => nont.next[x] = x
        BY <1>2, <3>1, AloneIs
      <3> QED BY <1>1, <1>7, <1>11, <3>1, <3>2
    <2>4. \A x \in Entries \ M : nont'.next[x] = nont.next[x]
      BY <1>1, <1>7, <1>10
    <2>5. Renewed(nont, nont', M, {}, alloced, alloced')
      BY <1>8, <2>3, <2>4 DEF Renewed
    <2>6. ListOK(nont', Without(nontRings, M) \cup {}, alloced')
      BY <1>2, <2>2, <2>5, Rewritten
    <2> QED BY <1>1, <2>6
  <1> QED BY <1>8, <1>12, <1>13 DEF Inv

(* The invariant holds in every state.                                     *)
THEOREM RingsAreKept == Spec => []Inv
  <1>1. Init => Inv
    <2> SUFFICES ASSUME Init PROVE Inv
      OBVIOUS
    <2>1. Sound(SelfLinks) /\ \A x \in Entries : SelfLinks.next[x] = x
      BY DEF Sound, Inverse2, SelfLinks
    <2>2. ListOK(SelfLinks, {}, {})
      BY <2>1 DEF ListOK
    <2> QED BY <2>2 DEF Init, Inv
  <1>2. Inv /\ [Next]_vars => Inv'
    <2> SUFFICES ASSUME Inv, [Next]_vars PROVE Inv'
      OBVIOUS
    <2>0. broken = FALSE /\ ListOK(nont, nontRings, alloced) /\ ListOK(cont, contRings, alloced)
      BY DEF Inv
    <2>1. ASSUME NEW e \in Entries, nifo_node_alloc(e) PROVE Inv'
      <3>1. /\ ListOK(CINIT_LIST_HEAD(nont, e), nontRings \cup {<<e>>}, alloced \cup {e})
            /\ ListOK(CINIT_LIST_HEAD(cont, e), contRings \cup {<<e>>}, alloced \cup {e})
        BY <2>0, <2>1, AllocOK DEF nifo_node_alloc
      <3> QED BY <2>0, <2>1, <3>1 DEF nifo_node_alloc, Inv
    <2>2. ASSUME NEW a \in alloced, nifo_node_unlink_nont(a) PROVE Inv'
      <3>1. ListOK(clist_del_init(nont, a), RefUnlink(nontRings, a), alloced)
        BY <2>0, UnlinkOK
      <3> QED BY <2>0, <2>2, <3>1 DEF nifo_node_unlink_nont, Inv
    <2>3. ASSUME NEW a \in alloced, nifo_node_unlink_cont(a) PROVE Inv'
      <3>1. ListOK(clist_del_init(cont, a), RefUnlink(contRings, a), alloced)
        BY <2>0, UnlinkOK
      <3> QED BY <2>0, <2>3, <3>1 DEF nifo_node_unlink_cont, Inv
    <2>4. ASSUME NEW a \in alloced, nifo_node_delete(a) PROVE Inv'
      BY <2>4, DeleteStep
    <2>5. ASSUME NEW a \in alloced, NEW b \in alloced, nifo_node_link_cont_prev(a, b) PROVE Inv'
      <3>1. ListOK(clist_add_tail(cont, b, a), RefLinkPrev(contRings, a, b), alloced)
        BY <2>0, <2>5, LinkPrevOK DEF nifo_node_link_cont_prev
      <3> QED BY <2>0, <2>5, <3>1 DEF nifo_node_link_cont_prev, Inv
    <2>6. ASSUME NEW a \in alloced, NEW b \in alloced, nifo_node_link_cont_next(a, b) PROVE Inv'
      <3>1. ListOK(clist_add_head(cont, b, a), RefLinkNext(contRings, a, b), alloced)
        BY <2>0, <2>6, LinkNextOK DEF nifo_node_link_cont_next
      <3> QED BY <2>0, <2>6, <3>1 DEF nifo_node_link_cont_next, Inv
    <2>7. ASSUME NEW a \in alloced, NEW b \in alloced, nifo_node_link_nont_prev(a, b) PROVE Inv'
      <3>1. ListOK(clist_add_tail(nont, b, a), RefLinkPrev(nontRings, a, b), alloced)
        BY <2>0, <2>7, LinkPrevOK DEF nifo_node_link_nont_prev
      <3> QED BY <2>0, <2>7, <3>1 DEF nifo_node_link_nont_prev, Inv
    <2>8. ASSUME NEW a \in alloced, NEW b \in alloced, nifo_node_link_nont_next(a, b) PROVE Inv'
      <3>1. ListOK(clist_add_head(nont, b, a), RefLinkNext(nontRings, a, b), alloced)
        BY <2>0, <2>8, LinkNextOK DEF nifo_node_link_nont_next
      <3> QED BY <2>0, <2>8, <3>1 DEF nifo_node_link_nont_next, Inv
    <2>9. ASSUME NEW a \in alloced, NEW b \in alloced, nifo_splice_nont(a, b) PROVE Inv'
      <3>1. ListOK(clist_splice(nont, a, b), RefSplice(nontRings, a, b), alloced)
        BY <2>0, <2>9, SpliceOK DEF nifo_splice_nont
      <3> QED BY <2>0, <2>9, <3>1 DEF nifo_splice_nont, Inv
    <2>10. ASSUME NEW a \in alloced, NEW b \in alloced, nifo_splice_cont(a, b) PROVE Inv'
      <3>1. ListOK(clist_splice(cont, a, b), RefSplice(contRings, a, b), alloced)
        BY <2>0, <2>10, SpliceOK DEF nifo_splice_cont
      <3> QED BY <2>0, <2>10, <3>1 DEF nifo_splice_cont, Inv
    <2>11. CASE UNCHANGED vars
      BY <2>0, <2>11 DEF vars, Inv
    <2> QED BY <2>1, <2>2, <2>3, <2>4, <2>5, <2>6, <2>7, <2>8, <2>9, <2>10, <2>11 DEF Next
  <1> QED BY <1>1, <1>2, PTL DEF Spec

-----------------------------------------------------------------------------
(* No operation of nifo.c leaves a link of a node at offset 0, whatever    *)
(* the order of the calls and however many nodes there are.                *)
THEOREM NodeTypes == Spec => []TypeOK
  <1>1. Inv => TypeOK
    <2> SUFFICES ASSUME Inv PROVE TypeOK
      OBVIOUS
    <2>1. \A s \in nontRings : ToSet(s) \subseteq Entries
      BY RingSetOf DEF Inv, ListOK
    <2>2. alloced \subseteq Entries
      BY <2>1 DEF Inv, ListOK
    <2> QED BY <2>2 DEF Inv, ListOK, Sound, TypeOK
  <1> QED BY <1>1, RingsAreKept, PTL

(* Walking nont or cont with clist_for_each, after any sequence of link,   *)
(* unlink, splice and delete calls, visits the nodes the figures of nifo.c *)
(* put on the list, in their order, and prev is the reverse of next.       *)
THEOREM WalksAreRings == Spec => []WalkIsRing
  <1>1. Inv => WalkIsRing
    <2> SUFFICES ASSUME Inv, NEW e \in alloced
                 PROVE  /\ clist_for_each(nont, e) = From(nontRings, e)
                        /\ clist_for_each(cont, e) = From(contRings, e)
                        /\ nont.prev[nont.next[e]] = e /\ cont.prev[cont.next[e]] = e
      BY DEF WalkIsRing
    <2>1. ASSUME NEW l, NEW R, ListOK(l, R, alloced)
          PROVE  clist_for_each(l, e) = From(R, e) /\ l.prev[l.next[e]] = e
      <3>1. IsRing(l, From(R, e)) /\ From(R, e)[1] = e
        BY <2>1, FromIs
      <3>2. Sound(l) /\ Inverse2(l)
        BY <2>1 DEF ListOK, Sound
      <3>3. e \in Entries
        BY <3>1, RingSetOf
      <3>4. clist_for_each(l, From(R, e)[1]) = From(R, e)
        BY <3>1, <3>2, RingWalk
      <3> QED BY <3>1, <3>2, <3>3, <3>4 DEF Inverse2
    <2> QED BY <2>1 DEF Inv
  <1> QED BY <1>1, RingsAreKept, PTL

(* nifo_node_delete of a header frees every node of every message on its   *)
(* list once, none twice, and leaves no link from a node that stays to one *)
(* that is free, for any number of messages of any number of nodes.        *)
THEOREM DeletionIsExact == Spec => []DeleteIsExact
  <1>1. Inv => DeleteIsExact
    <2> SUFFICES ASSUME Inv PROVE DeleteIsExact
      OBVIOUS
    <2>1. ASSUME NEW l, NEW R, ListOK(l, R, alloced), NEW e \in alloced
          PROVE  l.next[e] \in alloced /\ l.prev[e] \in alloced
      <3>1. RingOf(R, e) \in R /\ e \in ToSet(RingOf(R, e))
        BY <2>1, RingOfIs
      <3>2. Sound(l) /\ IsRing(l, RingOf(R, e)) /\ ToSet(RingOf(R, e)) \subseteq alloced
        BY <2>1, <3>1 DEF ListOK
      <3> QED BY <3>1, <3>2, RingLinks
    <2>2. ListOK(nont, nontRings, alloced) /\ ListOK(cont, contRings, alloced) /\ ~broken
      BY DEF Inv
    <2>3. \A e \in alloced : {nont.next[e], nont.prev[e], cont.next[e], cont.prev[e]} \subseteq alloced
      BY <2>1, <2>2
    <2>4. alloced = UNION {ToSet(s) : s \in contRings} /\ alloced = UNION {ToSet(s) : s \in nontRings}
      BY <2>2 DEF ListOK
    <2> QED BY <2>2, <2>3, <2>4 DEF DeleteIsExact
  <1> QED BY <1>1, RingsAreKept, PTL
=============================================================================
