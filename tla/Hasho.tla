------------------------------- MODULE Hasho -------------------------------
(***************************************************************************)
(* The open hash table of UPST_LIB (SRC/HASHO/hasho.c) and the allocator   *)
(* of its nodes (memg.c).  Both live in one shared memory segment and      *)
(* survive the process that uses them.  A table is one value t; offsets    *)
(* are node numbers and 0 is offset 0.  Each operator is a function from   *)
(* the segment before the call to the segment after it.  What a free node  *)
(* last held stays in its body, as memg_free clears nothing.               *)
(***************************************************************************)
EXTENDS Integers, Sequences, FiniteSetsExt

CONSTANTS
    Keys,           \* the keys, all usKeyLen bytes of them
    HashSize,       \* uiHashSize
    NodesPerBucket, \* nodes hasho_init asks memg_init for, per bucket: 5
    hasho_func,     \* the bucket of a key
    NoKey, NoData   \* the zero bytes of a body that was never used

Bucket  == 0 .. HashSize - 1
TotCnt  == HashSize * NodesPerBucket
HNode   == 1 .. TotCnt
HOffset == 0 .. TotCnt

ASSUME HashAssumption ==
    /\ HashSize \in Nat \ {0} /\ NodesPerBucket \in Nat \ {0}
    /\ hasho_func \in [Keys -> Bucket] /\ NoKey \notin Keys

-----------------------------------------------------------------------------
(* memg.c                                                                  *)

hasho_init ==
    [head |-> [b \in Bucket |-> 0],
     next |-> [p \in HNode |-> 0], prev |-> [p \in HNode |-> 0],
     key  |-> [p \in HNode |-> NoKey], data |-> [p \in HNode |-> NoData],
     alloced |-> {}, allocedCnt |-> 0, freeList |-> 1]

\* Broken variant: the cursor is not set back at offsetNodeEnd.
ProbeRunsOff(t, i) == t.freeList + i

\* The i-th header inspected, from the cursor on and round the end of the segment.
Probe(t, i) == ((t.freeList - 1 + i) % TotCnt) + 1

\* Broken variant: the search does not go past the last node of the segment.
AllocNoWrap(t) ==
    LET hits == {i \in 0 .. TotCnt - t.freeList : Probe(t, i) \notin t.alloced}
    IN  IF t.allocedCnt >= TotCnt \/ hits = {} THEN [t |-> t, p |-> 0]
        ELSE LET p == Probe(t, Min(hits))
             IN  [t |-> [t EXCEPT !.alloced = @ \cup {p}, !.allocedCnt = @ + 1,
                                  !.freeList = Probe(t, Min(hits) + 1)], p |-> p]

\* The loop gives up after TotCnt + 1 headers (iDebug).
memg_alloc(t) ==
    LET hits == {i \in 0 .. TotCnt : Probe(t, i) \notin t.alloced}
    IN  IF t.allocedCnt >= TotCnt THEN [t |-> t, p |-> 0]
        ELSE IF hits = {} THEN [t |-> [t EXCEPT !.freeList = Probe(t, TotCnt + 1)], p |-> 0]
        ELSE LET p == Probe(t, Min(hits))
             IN  [t |-> [t EXCEPT !.alloced = @ \cup {p}, !.allocedCnt = @ + 1,
                                  !.freeList = Probe(t, Min(hits) + 1)], p |-> p]

\* Broken variant: the body is cleared with the header.
FreeClears(t, p) ==
    IF p \notin t.alloced THEN t
    ELSE [t EXCEPT !.alloced = @ \ {p}, !.allocedCnt = @ - 1,
                   !.key[p] = NoKey, !.data[p] = NoData]

memg_free(t, p) ==
    IF p \notin t.alloced THEN t
    ELSE [t EXCEPT !.alloced = @ \ {p}, !.allocedCnt = @ - 1]

hasho_reset(t) ==
    [t EXCEPT !.alloced = {}, !.allocedCnt = 0, !.freeList = 1,
              !.head = [b \in Bucket |-> 0]]

-----------------------------------------------------------------------------
(* hasho.c                                                                 *)

hasho_link_node(t, p) ==
    LET b   == hasho_func[t.key[p]]
        old == t.head[b]
    IN  IF old = 0 THEN [t EXCEPT !.head[b] = p]
        ELSE [t EXCEPT !.prev[p] = t.prev[old], !.prev[old] = p,
                       !.next[p] = old, !.head[b] = p]

\* Behind the node before p, or at the head of the chain, comes the one after p.
ForwardUnlink(t, p) ==
    IF t.prev[p] # 0 THEN [t EXCEPT !.next[t.prev[p]] = t.next[p]]
                     ELSE [t EXCEPT !.head[hasho_func[t.key[p]]] = t.next[p]]

\* Broken variant: the node behind the one taken out keeps its prev offset.
UnlinkOneWay(t, p) == ForwardUnlink(t, p)

hasho_unlink_node(t, p) ==
    IF t.next[p] = 0 THEN ForwardUnlink(t, p)
    ELSE [ForwardUnlink(t, p) EXCEPT !.prev[t.next[p]] = t.prev[p]]

\* The offsets hasho_find comes to in bucket b; it goes nowhere from offset 0.
Visit(t, b) ==
    LET next == [o \in HOffset |-> IF o = 0 THEN 0 ELSE t.next[o]]
        visit[i \in 0 .. TotCnt] == IF i = 0 THEN t.head[b] ELSE next[visit[i - 1]]
    IN  visit

\* The chain of bucket b, cut off after TotCnt nodes.
Chain(t, b) ==
    LET visit == Visit(t, b)
        len   == Cardinality({i \in 0 .. TotCnt - 1 : visit[i] # 0})
    IN  [i \in 1 .. len |-> visit[i - 1]]

hasho_find(t, k) ==
    LET c    == Chain(t, hasho_func[k])
        hits == {i \in DOMAIN c : t.key[c[i]] = k}
    IN  IF hits = {} THEN 0 ELSE c[Min(hits)]

\* The new node's body: key, data and no links.
FillBody(t, p, k, d) ==
    [t EXCEPT !.key[p] = k, !.data[p] = d, !.next[p] = 0, !.prev[p] = 0]

hasho_add(t, k, d) ==
    LET a == memg_alloc(t)
    IN  IF hasho_find(t, k) # 0 THEN [t |-> t, p |-> 0]
        ELSE IF a.p = 0 THEN a
        ELSE [t |-> hasho_link_node(FillBody(a.t, a.p, k, d), a.p), p |-> a.p]

hasho_del(t, k) ==
    LET p == hasho_find(t, k)
    IN  IF p = 0 THEN t ELSE memg_free(hasho_unlink_node(t, p), p)

Stored(t)   == {k \in Keys : hasho_find(t, k) # 0}
Contents(t) == [k \in Stored(t) |-> t.data[hasho_find(t, k)]]

-----------------------------------------------------------------------------
(* What a table looks like between two calls: every chain ends, holds      *)
(* allocated nodes of its own bucket, and is linked both ways; a key is in *)
(* one node; every allocated node is on a chain, and they are counted.     *)
TableOK(t) ==
    /\ \A b \in Bucket :
          LET c == Chain(t, b)
          IN  /\ \A i \in DOMAIN c :
                    /\ c[i] \in t.alloced /\ t.key[c[i]] \in Keys
                    /\ hasho_func[t.key[c[i]]] = b
                    /\ t.prev[c[i]] = (IF i = 1 THEN 0 ELSE c[i - 1])
                    /\ t.next[c[i]] = (IF i = Len(c) THEN 0 ELSE c[i + 1])
              /\ \A i, j \in DOMAIN c : t.key[c[i]] = t.key[c[j]] => i = j
    /\ \A p \in t.alloced : \E b \in Bucket : \E i \in DOMAIN Chain(t, b) : Chain(t, b)[i] = p
    /\ t.allocedCnt = Cardinality(t.alloced)

TableType(D) ==
    [head : [Bucket -> HOffset], next : [HNode -> HOffset], prev : [HNode -> HOffset],
     key : [HNode -> Keys \cup {NoKey}], data : [HNode -> D \cup {NoData}],
     alloced : SUBSET HNode, allocedCnt : HOffset, freeList : HNode]
=============================================================================
