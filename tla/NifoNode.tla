------------------------------ MODULE NifoNode ------------------------------
(***************************************************************************)
(* The node operations of NIFO (UPST_LIB SRC/NIFO/nifo.c) on the two       *)
(* circular lists every node is on: nont chains the messages of a batch,   *)
(* cont chains the nodes of one message behind its header node.  One       *)
(* process owns the nodes it works on.  Beside the links, nontRings and    *)
(* contRings keep the lists as plain sequences: what each operation is     *)
(* meant to do, as the figures in the comments of nifo.c draw it.          *)
(***************************************************************************)
EXTENDS Clisto, SequencesExt

VARIABLES
    nont, cont,           \* the links of the two lists
    alloced,              \* nodes mems_alloc has given out
    broken,               \* nifo_node_free met a node that is not allocated
    nontRings, contRings  \* the lists as a set of sequences, for reference

vars == <<nont, cont, alloced, broken, nontRings, contRings>>

Init ==
    /\ nont = SelfLinks /\ cont = SelfLinks
    /\ alloced = {} /\ broken = FALSE
    /\ nontRings = {} /\ contRings = {}

-----------------------------------------------------------------------------
(* Reference operations on a set of rings.                                 *)

RingOf(R, e) == CHOOSE s \in R : e \in ToSet(s)

\* The ring s, read from its i-th node on.
Turned(s, i) ==
    [j \in 1 .. Len(s) |-> IF i + j - 1 <= Len(s) THEN s[i + j - 1] ELSE s[i + j - 1 - Len(s)]]

\* The ring of e, written so that it begins with e.
From(R, e) ==
    LET s == RingOf(R, e)
    IN  Turned(s, CHOOSE i \in DOMAIN s : s[i] = e)

Alone(R, e) == Len(RingOf(R, e)) = 1

Without(R, S) == {s \in R : ToSet(s) \cap S = {}}

RefLinkPrev(R, head, new) == Without(R, {head, new}) \cup {Append(From(R, head), new)}
RefLinkNext(R, head, new) == Without(R, {head, new}) \cup {<<head, new>> \o Tail(From(R, head))}
RefSplice(R, list, head)  == Without(R, {list, head}) \cup {From(R, head) \o From(R, list)}
RefUnlink(R, e) ==
    Without(R, {e}) \cup {<<e>>} \cup (IF Alone(R, e) THEN {} ELSE {Tail(From(R, e))})

-----------------------------------------------------------------------------
\* A node is a header if it is not behind another one in a message: such a
\* node is alone on nont.  The caller has to know which nodes are headers.
Message(e)  == UNION {ToSet(RingOf(contRings, h)) : h \in ToSet(RingOf(nontRings, e))}
IsHeader(e) == \A h \in ToSet(RingOf(nontRings, e)) :
                   \A n \in ToSet(RingOf(contRings, h)) : n # h => Alone(nontRings, n)

nifo_node_alloc(e) ==
    /\ e \notin alloced
    /\ alloced' = alloced \cup {e}
    /\ nont' = CINIT_LIST_HEAD(nont, e)
    /\ cont' = CINIT_LIST_HEAD(cont, e)
    /\ nontRings' = nontRings \cup {<<e>>}
    /\ contRings' = contRings \cup {<<e>>}
    /\ UNCHANGED broken

nifo_node_link_cont_prev(head, new) ==
    /\ head # new /\ Alone(contRings, new) /\ Alone(nontRings, new)
    /\ cont' = clist_add_tail(cont, new, head)
    /\ contRings' = RefLinkPrev(contRings, head, new)
    /\ UNCHANGED <<nont, alloced, broken, nontRings>>

nifo_node_link_cont_next(head, new) ==
    /\ head # new /\ Alone(contRings, new) /\ Alone(nontRings, new)
    /\ cont' = clist_add_head(cont, new, head)
    /\ contRings' = RefLinkNext(contRings, head, new)
    /\ UNCHANGED <<nont, alloced, broken, nontRings>>

nifo_node_link_nont_prev(head, new) ==
    /\ head # new /\ Alone(nontRings, new)
    /\ nont' = clist_add_tail(nont, new, head)
    /\ nontRings' = RefLinkPrev(nontRings, head, new)
    /\ UNCHANGED <<cont, alloced, broken, contRings>>

nifo_node_link_nont_next(head, new) ==
    /\ head # new /\ Alone(nontRings, new)
    /\ nont' = clist_add_head(nont, new, head)
    /\ nontRings' = RefLinkNext(nontRings, head, new)
    /\ UNCHANGED <<cont, alloced, broken, contRings>>

nifo_splice_nont(list, head) ==
    /\ RingOf(nontRings, list) # RingOf(nontRings, head)
    /\ nont' = clist_splice(nont, list, head)
    /\ nontRings' = RefSplice(nontRings, list, head)
    /\ UNCHANGED <<cont, alloced, broken, contRings>>

nifo_splice_cont(list, head) ==
    /\ RingOf(contRings, list) # RingOf(contRings, head)
    /\ cont' = clist_splice(cont, list, head)
    /\ contRings' = RefSplice(contRings, list, head)
    /\ UNCHANGED <<nont, alloced, broken, nontRings>>

nifo_node_unlink_nont(e) ==
    /\ nont' = clist_del_init(nont, e)
    /\ nontRings' = RefUnlink(nontRings, e)
    /\ UNCHANGED <<cont, alloced, broken, contRings>>

nifo_node_unlink_cont(e) ==
    /\ cont' = clist_del_init(cont, e)
    /\ contRings' = RefUnlink(contRings, e)
    /\ UNCHANGED <<nont, alloced, broken, nontRings>>

-----------------------------------------------------------------------------
(* nifo_node_delete.  A state of the call is the segment and the local     *)
(* pNode; a node that was not allocated ends the process (broken).         *)

nifo_node_free(s, e) ==
    [s EXCEPT !.alloced = @ \ {e}, !.broken = @ \/ e \notin s.alloced]

\* What both delete functions return: NULL behind the last node of a list.
pNext(l, e) == IF l.next[e] = e THEN Null ELSE l.next[e]

\* Broken variant: the last node of a message is not recognised.
ContDeleteNoEnd(s) ==
    LET s1 == nifo_node_free([s EXCEPT !.cont = clist_del_init(@, s.pNode)], s.pNode)
    IN  [s1 EXCEPT !.pNode = s.cont.next[s.pNode]]

\* Unlink and free a node of a message, and go on to the next.
nifo_cont_delete(s) ==
    LET s1 == nifo_node_free([s EXCEPT !.cont = clist_del_init(@, s.pNode)], s.pNode)
    IN  [s1 EXCEPT !.pNode = pNext(s.cont, s.pNode)]

\* Body is done until pNode is NULL.  Each time a node is freed, so that after
\* as many times as there are nodes, and one more, the loop has ended.
Loop(Body(_), s) ==
    LET size == Cardinality(Entries)
        run[k \in 0 .. size + 1] ==
            IF k = 0 THEN s
            ELSE IF run[k - 1].pNode = Null \/ run[k - 1].broken THEN run[k - 1]
            ELSE Body(run[k - 1])
    IN  run[size + 1]

nifo_nont_delete(s) == [s EXCEPT !.nont = clist_del_init(@, s.pNode)]

\* Take a message off nont, delete its nodes, and go on to the next message.
DeleteMessage(s) ==
    [Loop(nifo_cont_delete, nifo_nont_delete(s)) EXCEPT !.pNode = pNext(s.nont, s.pNode)]

nifo_node_delete(e) ==
    /\ IsHeader(e)
    /\ LET s == Loop(DeleteMessage, [nont |-> nont, cont |-> cont, alloced |-> alloced,
                                    broken |-> broken, pNode |-> e])
       IN  /\ nont' = s.nont /\ cont' = s.cont
           /\ alloced' = s.alloced /\ broken' = s.broken
    /\ nontRings' = Without(nontRings, Message(e))
    /\ contRings' = Without(contRings, Message(e))

Next ==
    \/ \E e \in Entries : nifo_node_alloc(e)
    \/ ~broken /\ \E a \in alloced :
        \/ nifo_node_unlink_nont(a) \/ nifo_node_unlink_cont(a) \/ nifo_node_delete(a)
        \/ \E b \in alloced :
             \/ nifo_node_link_cont_prev(a, b) \/ nifo_node_link_cont_next(a, b)
             \/ nifo_node_link_nont_prev(a, b) \/ nifo_node_link_nont_next(a, b)
             \/ nifo_splice_nont(a, b) \/ nifo_splice_cont(a, b)

Spec == Init /\ [][Next]_vars

-----------------------------------------------------------------------------
(* Type invariant: no operation of nifo.c leaves a link of offset 0.       *)
TypeOK ==
    /\ {nont, cont} \subseteq [next : [Entries -> Entries], prev : [Entries -> Entries]]
    /\ alloced \subseteq Entries /\ broken \in BOOLEAN

(* After any sequence of link, unlink, splice and delete calls, walking    *)
(* either list from any node with clist_for_each visits what the reference *)
(* says, in its order, and the prev links are the reverse of the next      *)
(* links.                                                                  *)
WalkIsRing ==
    \A e \in alloced :
        /\ clist_for_each(nont, e) = From(nontRings, e)
        /\ clist_for_each(cont, e) = From(contRings, e)
        /\ nont.prev[nont.next[e]] = e /\ cont.prev[cont.next[e]] = e

(* nifo_node_delete of a header frees every node of every message on its   *)
(* nont list exactly once: none twice (BROKEN MEMORY), and no node that    *)
(* stays allocated is left with a link to one that does not.               *)
DeleteIsExact ==
    /\ ~broken
    /\ alloced = UNION {ToSet(s) : s \in contRings}
    /\ alloced = UNION {ToSet(s) : s \in nontRings}
    /\ \A e \in alloced : {nont.next[e], nont.prev[e], cont.next[e], cont.prev[e]} \subseteq alloced
=============================================================================
