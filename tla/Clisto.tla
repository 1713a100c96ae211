------------------------------- MODULE Clisto -------------------------------
(***************************************************************************)
(* The offset-based circular doubly linked list of UPST_LIB                *)
(* (INC/clisto.h).  The links of all entries live in shared memory; here   *)
(* they are one value l with two functions, l.next and l.prev, from        *)
(* entries to entries.  Null is offset 0.  The operators are the list      *)
(* primitives, each a function from the links before the call to the       *)
(* links after it, with the stores in the order of the source.             *)
(***************************************************************************)
EXTENDS Naturals, Sequences, FiniteSets

CONSTANTS Entries, \* the list entries that exist in shared memory
          Null     \* offset 0

ASSUME NullAssumption   == Null \notin Entries
ASSUME FiniteAssumption == IsFiniteSet(Entries)

Links == [next : [Entries -> Entries \cup {Null}],
          prev : [Entries -> Entries \cup {Null}]]

SetNext(l, e, x) == [l EXCEPT !.next[e] = x]
SetPrev(l, e, x) == [l EXCEPT !.prev[e] = x]

CINIT_LIST_HEAD(l, e) == SetPrev(SetNext(l, e, e), e, e)

clist_add(l, new, prev, next) ==
    LET l1 == SetPrev(l, next, new)
        l2 == SetNext(l1, new, next)
        l3 == SetPrev(l2, new, prev)
    IN  SetNext(l3, prev, new)

clist_add_head(l, new, head) == clist_add(l, new, head, l.next[head])

\* Broken variant: the entry goes behind the head instead of before it.
AddTailAtHead(l, new, head) == clist_add(l, new, head, l.next[head])

clist_add_tail(l, new, head) == clist_add(l, new, l.prev[head], head)

clist_unhook(l, prev, next) == SetNext(SetPrev(l, next, prev), prev, next)

\* Broken variant: the entry is poisoned, as clist_del does, not initialised.
DelPoisons(l, e) ==
    SetPrev(SetNext(clist_unhook(l, l.prev[e], l.next[e]), e, Null), e, Null)

clist_del_init(l, e) ==
    CINIT_LIST_HEAD(clist_unhook(l, l.prev[e], l.next[e]), e)

\* Broken variant: the list is put behind the head, not behind the tail.
SpliceAtHead(l, list, head) ==
    LET last == l.prev[list]
        at   == l.next[head]
        l1   == SetPrev(l, at, last)
        l2   == SetNext(l1, last, at)
        l3   == SetPrev(l2, list, head)
    IN  SetNext(l3, head, list)

\* last and at are read before any link is written.
clist_splice(l, list, head) ==
    LET last == l.prev[list]
        at   == l.prev[head]
        l1   == SetPrev(l, head, last)
        l2   == SetNext(l1, last, head)
        l3   == SetPrev(l2, list, at)
    IN  SetNext(l3, at, list)

\* Where the next links lead from head; from Null they lead nowhere.
Visited(l, head) ==
    LET next == [e \in Entries \cup {Null} |-> IF e = Null THEN Null ELSE l.next[e]]
        visit[k \in 0 .. Cardinality(Entries)] == IF k = 0 THEN head ELSE next[visit[k - 1]]
    IN  visit

(***************************************************************************)
(* The entries clist_for_each visits from head, in order.  On broken links *)
(* the walk runs into Null, or goes on for more entries than there are.    *)
(***************************************************************************)
clist_for_each(l, head) ==
    LET size  == Cardinality(Entries)
        visit == Visited(l, head)
        back  == {k \in 1 .. size : visit[k] = head}
        len   == IF back = {} THEN size + 1 ELSE CHOOSE k \in back : \A j \in back : k <= j
    IN  [i \in 1 .. len |-> visit[i - 1]]

\* A list hung on an offset: nothing when the offset is NULL.
ListAt(l, o) == IF o = Null THEN <<>> ELSE clist_for_each(l, o)

SelfLinks == [next |-> [e \in Entries |-> e], prev |-> [e \in Entries |-> e]]
=============================================================================
