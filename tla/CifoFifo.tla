------------------------------ MODULE CifoFifo ------------------------------
(***************************************************************************)
(* What users of a CIFO channel rely on, stated on the nodes themselves:   *)
(* the lists hung on the cells, on wOffset and on the locals of the calls  *)
(* are walked through the nont links.                                      *)
(***************************************************************************)
EXTENDS Cifo

\* The lists of the cells from the read position on.
CellLists == [i \in 1 .. CellCnt |-> ListAt(nont, cell[CellAt(i - 1)])]

\* The first i of the lists joined, but for the first k of them.
Joined(lists, k) ==
    LET join[i \in 0 .. CellCnt] == IF i <= k THEN <<>> ELSE join[i - 1] \o lists[i]
    IN  join

\* The lists of the unread cells but for the first k, oldest first.
UnreadAfter(k) == Joined(CellLists, k)[cifo_used_count]

\* The list a process of S holds in its local f; at most one of them holds one.
ListOf(S, f) ==
    LET holders == {p \in S : f[p] # Null}
    IN  IF holders = {} THEN <<>> ELSE ListAt(nont, f[CHOOSE p \in holders : TRUE])

\* Every node written and not yet returned by a read, in the order the code
\* keeps them.  A reader about to advance has already joined the list of the
\* oldest cell to its own.
InFlight ==
    ListOf({r \in Readers : pc[r] \in {"loop", "advance"}}, pHead)
        \o UnreadAfter(IF \E r \in Readers : pc[r] = "advance" THEN 1 ELSE 0)
        \o ListOf(Writers, input)
        \o ListAt(nont, wOffset)

\* The list the last read returned, while its caller works on it.
Returned == ListOf({r \in Readers : pc[r] = "consume"}, pHead)

F == INSTANCE Fifo WITH Items <- Node, q <- InFlight, taken <- Returned

\* The step past the full check, at which a write is sure to be accepted.
Accepts(w) == pc[w] = "check" /\ pc'[w] = "count"

\* What a step other than a death does to the nodes in flight.
ChannelStep ==
    IF \E w \in Writers : Accepts(w)
    THEN \E w \in Writers : Accepts(w) /\ F!Put(offset[w])
    ELSE UNCHANGED F!vars \/ F!Get \/ F!Done

(* cifo_write and cifo_read together are a FIFO: in every interleaving of  *)
(* writers and reader a node enters the channel when its write passes the  *)
(* full check, leaves it only in the list a cifo_read returns, and what    *)
(* that read returns are the oldest nodes, none lost, repeated or          *)
(* overtaken, although they pass through the gathered list, the cells and  *)
(* the joined list.  cifo_set_buffcnt may store both counts meanwhile, the *)
(* write count only while no write is past its full check (LiveTuning is   *)
(* FALSE).  A death is excepted: it loses the list its process holds, and  *)
(* the others go on with what is left.                                     *)
FifoRefinement == F!Init /\ [][crashes' = crashes => ChannelStep]_vars

NodesAt(o) == LET list == ListAt(nont, o) IN {list[i] : i \in DOMAIN list}

\* Where an offset is kept.  A reader about to advance has joined the oldest
\* cell to its list but not yet given the cell up.
Places ==
    [tag : {"cell"}, at : {CellAt(k) : k \in 0 .. cifo_used_count - 1}]
    \cup [tag : {"wOffset"}, at : {0}]
    \cup [tag : {"offset", "input"}, at : Writers]
    \cup [tag : {"pHead"}, at : {r \in Readers : pc[r] # "advance"}]

OffsetAt(p) ==
    CASE p.tag = "cell"    -> cell[p.at]
      [] p.tag = "wOffset" -> wOffset
      [] p.tag = "offset"  -> offset[p.at]
      [] p.tag = "input"   -> input[p.at]
      [] p.tag = "pHead"   -> pHead[p.at]

(* Even when processes die in the middle of cifo_write or cifo_read, no    *)
(* node is reachable from two places at once: a list that was returned to  *)
(* one caller, or given back as fresh, is never also in a cell, in the     *)
(* gathered list, or in another call (no double delivery, no double free). *)
AtMostOnce ==
    /\ \A p, q \in Places : p # q => NodesAt(OffsetAt(p)) \cap NodesAt(OffsetAt(q)) = {}
    /\ \A p \in Places : NodesAt(OffsetAt(p)) \cap fresh = {}

-----------------------------------------------------------------------------
(* Fairness: a process inside a call keeps running; semop serves waiting   *)
(* processes in turn, so a waiter is not passed over for ever; readers     *)
(* poll the channel from their main loops.  Nobody has to write.           *)

InsideWrite(w) == pc[w] # "idle" /\ cifo_write(w)

Fairness ==
    /\ \A w \in Writers : WF_vars(InsideWrite(w)) /\ SF_vars(WriteP(w))
    /\ \A r \in Readers : WF_vars(cifo_read(r) \/ Consume(r))

FairSpec == Spec /\ Fairness

InCell(n) ==
    n \notin fresh /\ \E k \in 0 .. cifo_used_count - 1 : n \in NodesAt(cell[CellAt(k)])

\* Nothing leads to the node any more: the process that held it has died.
Lost(n) == n \notin fresh /\ \A p \in Places : n \notin NodesAt(OffsetAt(p))

(* A list that is in a cell is eventually returned to the reader's caller, *)
(* who gives its nodes back.  Only a death after that can keep it from     *)
(* this, and then nothing leads to the node any more: no node stays in a   *)
(* cell for ever, and while nobody dies none is dropped (cifo_read).       *)
CellsAreDelivered ==
    \A n \in Node, c \in 0 .. MaxCrashes :
        crashes = c /\ InCell(n) ~> n \in fresh \/ (crashes > c /\ Lost(n))

(* A process that dies holding the write semaphore does not lock the       *)
(* others out: every cifo_write that waits for it returns (SEM_UNDO).      *)
(* That a refused write gives the semaphore back is part of RingInv.       *)
WritersReturn == \A w \in Writers : pc[w] = "P" ~> pc[w] = "idle"
=============================================================================
