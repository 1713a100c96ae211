-------------------------------- MODULE Cifo --------------------------------
(***************************************************************************)
(* One channel of CIFO (UPST_LIB SRC/CIFO/cifo.c): a ring of cells in      *)
(* shared memory, each holding the offset of a NIFO list.  Writers take    *)
(* the channel's write semaphore; readers take the read semaphore only if  *)
(* the channel's flag says so.  Up to uiWBuffCnt writes are gathered in    *)
(* one list (wOffset) before the list is put in a cell, and one read takes *)
(* up to uiRBuffCnt cells and joins their lists.                           *)
(*                                                                         *)
(* An action is the code between two accesses to memory another process    *)
(* also accesses.  Shared memory is sequentially consistent: the code      *)
(* relies on the store of a cell (line 282) being seen before the store of *)
(* wCellPos (line 283).                                                    *)
(***************************************************************************)
EXTENDS Clisto, Integers

CONSTANTS
    Writers, Readers,   \* processes that call cifo_write and cifo_read
    CellCnt,            \* uiCellCnt of the channel
    WBuffCnt, RBuffCnt, \* uiWBuffCnt and uiRBuffCnt of the configuration
    WSemFlag,           \* uiWSemFlag of the configuration
    WTune, RTune,       \* values cifo_set_buffcnt is asked to store
    LiveTuning,         \* is the write count tuned while writes are running?
    MaxCrashes          \* bound: how many processes may die

INSTANCE Sema

ASSUME ProcsAssumption   == Writers \cap Readers = {} /\ Null \notin Writers \cup Readers
ASSUME CellCntAssumption == CellCnt \in Nat \ {0}
ASSUME BuffCntAssumption == /\ WBuffCnt \in Nat \ {0} /\ RBuffCnt \in Nat \ {0}
                            /\ WTune \subseteq Nat /\ RTune \subseteq Nat
ASSUME FlagAssumption    == WSemFlag \in {0, MEMS_SEMA_ON} /\ LiveTuning \in BOOLEAN
ASSUME CrashAssumption   == MaxCrashes \in Nat

VARIABLES
    wCellPos, rCellPos, cell,          \* st_CHAN: the ring
    wOffset, uiWCnt,                   \* st_CHAN: the list being gathered
    uiWBuffCnt, uiRBuffCnt,            \* st_CHAN: the gathering limits
    wsem, rsem,                        \* who holds iWSemID and iRSemID
    nont,                              \* the nont links of all nodes
    pc,                                \* where each process is
    offset, curReadPos, curWritePos, nextPos, input,  \* locals of cifo_write
    pHead, pNext, curCnt,                             \* locals of cifo_read
    fresh,                             \* nodes nobody has written yet
    crashes                            \* how many processes have died

chanVars  == <<wCellPos, rCellPos, cell, wOffset, uiWCnt>>
buffVars  == <<uiWBuffCnt, uiRBuffCnt>>
writeVars == <<offset, input>>
readVars  == <<pHead, pNext, curCnt>>
posVars   == <<curReadPos, curWritePos, nextPos>>
semVars   == <<wsem, rsem>>
envVars   == <<fresh, crashes>>
vars == <<wCellPos, rCellPos, cell, wOffset, uiWCnt, uiWBuffCnt, uiRBuffCnt,
          wsem, rsem, nont, pc, offset, curReadPos, curWritePos, nextPos, input,
          pHead, pNext, curCnt, fresh, crashes>>

Procs == Writers \cup Readers
Pos   == 0 .. CellCnt - 1
Node  == Entries
NodeOrNull == Entries \cup {Null}

(***************************************************************************)
(* cifo_init copies uiWSemFlag from the configuration.  It never stores    *)
(* uiRSemFlag, which keeps the zero of a new shared memory segment.        *)
(***************************************************************************)
uiWSemFlag == WSemFlag
uiRSemFlag == 0

\* Broken variant: the position is not wrapped.
NextPosUnwrapped(p) == p + 1

cifo_next_pos(p) == (p + 1) % CellCnt

cifo_get_count(w, r) == IF w - r >= 0 THEN w - r ELSE CellCnt + (w - r)

cifo_used_count == cifo_get_count(wCellPos, rCellPos)

Init ==
    /\ wCellPos = 0 /\ rCellPos = 0
    /\ cell = [i \in Pos |-> Null]
    /\ wOffset = Null /\ uiWCnt = 0
    /\ uiWBuffCnt = WBuffCnt /\ uiRBuffCnt = RBuffCnt
    /\ wsem = Null /\ rsem = Null
    /\ nont = SelfLinks
    /\ pc = [p \in Procs |-> "idle"]
    /\ offset = [w \in Writers |-> Null] /\ input = [w \in Writers |-> Null]
    /\ curReadPos = [p \in Procs |-> 0]
    /\ curWritePos = [p \in Procs |-> 0]
    /\ nextPos = [p \in Procs |-> 0]
    /\ pHead = [r \in Readers |-> Null] /\ pNext = [r \in Readers |-> Null]
    /\ curCnt = [r \in Readers |-> 0]
    /\ fresh = Node
    /\ crashes = 0

-----------------------------------------------------------------------------
Goto(p, from, to) == pc[p] = from /\ pc' = [pc EXCEPT ![p] = to]

\* Locals are dead when a call returns or its process dies.
ForgetPos(p) ==
    /\ curReadPos' = [curReadPos EXCEPT ![p] = 0]
    /\ curWritePos' = [curWritePos EXCEPT ![p] = 0]
    /\ nextPos' = [nextPos EXCEPT ![p] = 0]

-----------------------------------------------------------------------------
(* cifo_write                                                              *)

\* The caller passes a node of its own.
WriteCall(w, n) ==
    /\ Goto(w, "idle", "P")
    /\ n \in fresh
    /\ fresh' = fresh \ {n}
    /\ offset' = [offset EXCEPT ![w] = n]
    /\ UNCHANGED <<chanVars, buffVars, semVars, nont, posVars, input,
                   readVars, crashes>>

WriteP(w) ==
    /\ Goto(w, "P", "pos")
    /\ P(wsem, uiWSemFlag, w)
    /\ UNCHANGED <<chanVars, buffVars, rsem, nont, writeVars, posVars,
                   readVars, envVars>>

WriteReadPos(w) ==
    /\ Goto(w, "pos", "check")
    /\ curReadPos' = [curReadPos EXCEPT ![w] = rCellPos]
    /\ curWritePos' = [curWritePos EXCEPT ![w] = wCellPos]
    /\ nextPos' = [nextPos EXCEPT ![w] = cifo_next_pos(wCellPos)]
    /\ UNCHANGED <<chanVars, buffVars, semVars, nont, writeVars, readVars,
                   envVars>>

\* Broken variant: the write about to be gathered is not counted.
QueueFullOffByOne(w) == nextPos[w] = curReadPos[w] /\ uiWCnt >= uiWBuffCnt

QueueFull(w) == nextPos[w] = curReadPos[w] /\ uiWCnt + 1 >= uiWBuffCnt

\* The -2 return: the node is still the caller's, and the caller deletes it.
WriteFull(w) ==
    /\ QueueFull(w)
    /\ Goto(w, "check", "idle")
    /\ V(wsem, uiWSemFlag)
    /\ fresh' = fresh \cup {offset[w]}
    /\ offset' = [offset EXCEPT ![w] = Null]
    /\ ForgetPos(w)
    /\ UNCHANGED <<chanVars, buffVars, rsem, nont, input, readVars, crashes>>

\* Join the list being gathered, or start one.
WriteBuffer(w) ==
    /\ ~QueueFull(w)
    /\ Goto(w, "check", "count")
    /\ IF wOffset # Null
       THEN nont' = clist_splice(nont, offset[w], wOffset) /\ UNCHANGED wOffset
       ELSE wOffset' = offset[w] /\ UNCHANGED nont
    /\ offset' = [offset EXCEPT ![w] = Null]
    /\ UNCHANGED <<wCellPos, rCellPos, cell, uiWCnt, buffVars, semVars, input,
                   posVars, readVars, envVars>>

WriteCount(w) ==
    /\ Goto(w, "count", "flush")
    /\ uiWCnt' = uiWCnt + 1
    /\ UNCHANGED <<wCellPos, rCellPos, cell, wOffset, buffVars, semVars, nont,
                   writeVars, posVars, readVars, envVars>>

\* Broken variant: wOffset is not reset when its list is taken.
WriteFlushKeepsList(w) ==
    /\ uiWCnt >= uiWBuffCnt
    /\ Goto(w, "flush", IF wOffset # Null THEN "store" ELSE "V")
    /\ input' = [input EXCEPT ![w] = wOffset]
    /\ uiWCnt' = 0
    /\ UNCHANGED <<wCellPos, rCellPos, cell, wOffset, buffVars, semVars, nont, offset,
                   posVars, readVars, envVars>>

\* The list is long enough: take it out of the channel for the cell.
WriteFlush(w) ==
    /\ uiWCnt >= uiWBuffCnt
    /\ Goto(w, "flush", IF wOffset # Null THEN "store" ELSE "V")
    /\ input' = [input EXCEPT ![w] = wOffset]
    /\ wOffset' = Null
    /\ uiWCnt' = 0
    /\ UNCHANGED <<wCellPos, rCellPos, cell, buffVars, semVars, nont, offset,
                   posVars, readVars, envVars>>

WriteKeep(w) ==
    /\ uiWCnt < uiWBuffCnt
    /\ Goto(w, "flush", "V")
    /\ UNCHANGED <<chanVars, buffVars, semVars, nont, writeVars, posVars,
                   readVars, envVars>>

\* Broken variant: the cell after the one that is published is stored.
WriteStoreNextCell(w) ==
    /\ Goto(w, "store", "publish")
    /\ cell' = [cell EXCEPT ![nextPos[w]] = input[w]]
    /\ UNCHANGED <<wCellPos, rCellPos, wOffset, uiWCnt, buffVars, semVars,
                   nont, writeVars, posVars, readVars, envVars>>

WriteStore(w) ==
    /\ Goto(w, "store", "publish")
    /\ cell' = [cell EXCEPT ![curWritePos[w]] = input[w]]
    /\ UNCHANGED <<wCellPos, rCellPos, wOffset, uiWCnt, buffVars, semVars,
                   nont, writeVars, posVars, readVars, envVars>>

WritePublish(w) ==
    /\ Goto(w, "publish", "V")
    /\ wCellPos' = nextPos[w]
    /\ input' = [input EXCEPT ![w] = Null]
    /\ UNCHANGED <<rCellPos, cell, wOffset, uiWCnt, buffVars, semVars, nont,
                   offset, posVars, readVars, envVars>>

WriteV(w) ==
    /\ Goto(w, "V", "idle")
    /\ V(wsem, uiWSemFlag)
    /\ ForgetPos(w)
    /\ UNCHANGED <<chanVars, buffVars, rsem, nont, writeVars, readVars,
                   envVars>>

-----------------------------------------------------------------------------
(* cifo_read                                                               *)

ReadP(r) ==
    /\ Goto(r, "idle", "snap")
    /\ P(rsem, uiRSemFlag, r)
    /\ UNCHANGED <<chanVars, buffVars, wsem, nont, writeVars, posVars,
                   readVars, envVars>>

\* The write position is read once, before the loop.
ReadSnap(r) ==
    /\ Goto(r, "snap", "loop")
    /\ curWritePos' = [curWritePos EXCEPT ![r] = wCellPos]
    /\ UNCHANGED <<chanVars, buffVars, semVars, nont, writeVars, curReadPos,
                   nextPos, readVars, envVars>>

More(r) == curCnt[r] < uiRBuffCnt /\ rCellPos # curWritePos[r]

\* Broken variant: a second list is not joined to the first.
ReadCellDropsList(r) ==
    /\ More(r)
    /\ Goto(r, "loop", "advance")
    /\ nextPos' = [nextPos EXCEPT ![r] = cifo_next_pos(rCellPos)]
    /\ pNext' = [pNext EXCEPT ![r] = cell[rCellPos]]
    /\ pHead' = [pHead EXCEPT ![r] = IF @ = Null THEN cell[rCellPos] ELSE @]
    /\ UNCHANGED <<chanVars, buffVars, semVars, nont, writeVars, curReadPos,
                   curWritePos, curCnt, envVars>>

ReadCell(r) ==
    /\ More(r)
    /\ Goto(r, "loop", "advance")
    /\ nextPos' = [nextPos EXCEPT ![r] = cifo_next_pos(rCellPos)]
    /\ pNext' = [pNext EXCEPT ![r] = cell[rCellPos]]
    /\ IF pHead[r] = Null
       THEN pHead' = [pHead EXCEPT ![r] = cell[rCellPos]] /\ UNCHANGED nont
       ELSE nont' = clist_splice(nont, cell[rCellPos], pHead[r]) /\ UNCHANGED pHead
    /\ UNCHANGED <<chanVars, buffVars, semVars, writeVars, curReadPos,
                   curWritePos, curCnt, envVars>>

ReadAdvance(r) ==
    /\ Goto(r, "advance", "loop")
    /\ rCellPos' = nextPos[r]
    /\ curCnt' = [curCnt EXCEPT ![r] = @ + 1]
    /\ pNext' = [pNext EXCEPT ![r] = Null]
    /\ UNCHANGED <<wCellPos, cell, wOffset, uiWCnt, buffVars, semVars, nont,
                   writeVars, posVars, pHead, envVars>>

\* Return the offset of the joined list, 0 when there was nothing to read.
ReadReturn(r) ==
    /\ ~More(r)
    /\ Goto(r, "loop", IF pHead[r] = Null THEN "idle" ELSE "consume")
    /\ V(rsem, uiRSemFlag)
    /\ curCnt' = [curCnt EXCEPT ![r] = 0]
    /\ ForgetPos(r)
    /\ UNCHANGED <<chanVars, buffVars, wsem, nont, writeVars, pHead, pNext,
                   envVars>>

\* The caller walks the list it was given and deletes its nodes, which may
\* then be allocated and written again.
Consume(r) ==
    /\ Goto(r, "consume", "idle")
    /\ LET list == ListAt(nont, pHead[r])
           got  == {n \in Node : \E i \in DOMAIN list : list[i] = n}
       IN  /\ fresh' = fresh \cup got
           /\ nont' = [next |-> [e \in Entries |-> IF e \in got THEN e ELSE nont.next[e]],
                       prev |-> [e \in Entries |-> IF e \in got THEN e ELSE nont.prev[e]]]
    /\ pHead' = [pHead EXCEPT ![r] = Null]
    /\ UNCHANGED <<chanVars, buffVars, semVars, writeVars, posVars, pNext,
                   curCnt, crashes>>

-----------------------------------------------------------------------------
(***************************************************************************)
(* cifo_set_buffcnt takes no semaphore: it may store while another process *)
(* is inside cifo_write.  A zero count is refused.  Unless LiveTuning, the *)
(* caller tunes the write count only while no write is past its full check.*)
(***************************************************************************)
SetWBuffCnt(n) ==
    /\ n # 0
    /\ LiveTuning \/ \A w \in Writers : pc[w] \notin {"count", "flush"}
    /\ uiWBuffCnt' = n
    /\ UNCHANGED <<chanVars, uiRBuffCnt, semVars, nont, pc, writeVars,
                   posVars, readVars, envVars>>

SetRBuffCnt(n) ==
    /\ n # 0
    /\ uiRBuffCnt' = n
    /\ UNCHANGED <<chanVars, uiWBuffCnt, semVars, nont, pc, writeVars,
                   posVars, readVars, envVars>>

\* A process dies in a call.  SEM_UNDO gives its semaphores back; the nodes
\* it held stay allocated.
Crash(p) ==
    /\ crashes < MaxCrashes
    /\ crashes' = crashes + 1
    /\ pc[p] \notin {"idle", "consume"}
    /\ pc' = [pc EXCEPT ![p] = "idle"]
    /\ Release(wsem, p) /\ Release(rsem, p)
    /\ ForgetPos(p)
    /\ offset' = [w \in Writers |-> IF w = p THEN Null ELSE offset[w]]
    /\ input' = [w \in Writers |-> IF w = p THEN Null ELSE input[w]]
    /\ pHead' = [r \in Readers |-> IF r = p THEN Null ELSE pHead[r]]
    /\ pNext' = [r \in Readers |-> IF r = p THEN Null ELSE pNext[r]]
    /\ curCnt' = [r \in Readers |-> IF r = p THEN 0 ELSE curCnt[r]]
    /\ UNCHANGED <<chanVars, buffVars, nont, fresh>>

-----------------------------------------------------------------------------
cifo_write(w) ==
    \/ \E n \in Node : WriteCall(w, n)
    \/ WriteP(w) \/ WriteReadPos(w) \/ WriteFull(w) \/ WriteBuffer(w)
    \/ WriteCount(w) \/ WriteFlush(w) \/ WriteKeep(w) \/ WriteStore(w)
    \/ WritePublish(w) \/ WriteV(w)

cifo_read(r) ==
    ReadP(r) \/ ReadSnap(r) \/ ReadCell(r) \/ ReadAdvance(r) \/ ReadReturn(r)

cifo_set_buffcnt ==
    (\E n \in WTune : SetWBuffCnt(n)) \/ (\E n \in RTune : SetRBuffCnt(n))

Next ==
    \/ \E w \in Writers : cifo_write(w)
    \/ \E r \in Readers : cifo_read(r) \/ Consume(r)
    \/ cifo_set_buffcnt
    \/ \E p \in Procs : Crash(p)

Spec == Init /\ [][Next]_vars

-----------------------------------------------------------------------------
(***************************************************************************)
(* The configurations the code is written for: gifo_conf_check demands the *)
(* write semaphore of a channel with more than one writer; one process     *)
(* reads a channel; the write count is not tuned under a running write.    *)
(***************************************************************************)
WriteSemConfigured == WSemFlag = MEMS_SEMA_ON \/ \A v, w \in Writers : v = w
OneReader          == \E r \in Readers : Readers = {r}
Configured         == WriteSemConfigured /\ OneReader /\ ~LiveTuning

InSection == {"pos", "check", "count", "flush", "store", "publish", "V"}

WriterPC == InSection \cup {"idle", "P"}
ReaderPC == {"idle", "snap", "loop", "advance", "consume"}

(* Type invariant of st_CHAN, the semaphores and the locals of the calls.  *)
TypeOK ==
    /\ wCellPos \in Pos /\ rCellPos \in Pos
    /\ cell \in [Pos -> NodeOrNull]
    /\ wOffset \in NodeOrNull /\ uiWCnt \in Nat
    /\ uiWBuffCnt \in Nat \ {0} /\ uiRBuffCnt \in Nat \ {0}
    /\ wsem \in Writers \cup {Null} /\ rsem \in Readers \cup {Null}
    /\ nont \in Links
    /\ pc \in [Procs -> WriterPC \cup ReaderPC]
    /\ \A w \in Writers : pc[w] \in WriterPC
    /\ \A r \in Readers : pc[r] \in ReaderPC
    /\ offset \in [Writers -> NodeOrNull] /\ input \in [Writers -> NodeOrNull]
    /\ curReadPos \in [Procs -> Pos] /\ curWritePos \in [Procs -> Pos]
    /\ nextPos \in [Procs -> Pos]
    /\ pHead \in [Readers -> NodeOrNull] /\ pNext \in [Readers -> NodeOrNull]
    /\ curCnt \in [Readers -> Nat]
    /\ fresh \subseteq Node
    /\ crashes \in 0 .. MaxCrashes

\* Position of the i-th unread cell, counted from 0.
CellAt(i) == IF rCellPos + i < CellCnt THEN rCellPos + i ELSE rCellPos + i - CellCnt

(***************************************************************************)
(* The inductive invariant of the ring, as a conjunction of named parts.   *)
(***************************************************************************)
\* Whoever is inside the write section holds the semaphore, and nobody else
\* does: a refused write has given it back, and so has a death.
SectionHeld ==
    WSemFlag = MEMS_SEMA_ON => \A w \in Writers : pc[w] \in InSection <=> wsem = w

\* What a writer has in its locals is still true of the channel.  Its copy
\* of the read position may be old, but then the ring was fuller than it is.
WriterView ==
    \A w \in Writers :
        /\ pc[w] \in {"P", "pos", "check"} => offset[w] \in Node
        /\ pc[w] \in {"check", "count", "flush", "store", "publish"} =>
              curWritePos[w] = wCellPos /\ nextPos[w] = cifo_next_pos(wCellPos)
        /\ pc[w] = "check" =>
              cifo_used_count <= cifo_get_count(wCellPos, curReadPos[w])
        /\ pc[w] \in {"store", "publish"} => input[w] \in Node
        /\ pc[w] = "publish" => cell[wCellPos] = input[w]

\* A writer that will put its list in a cell has a cell to put it in.
RoomToFlush ==
    \A w \in Writers :
        \/ cifo_used_count < CellCnt - 1
        \/ /\ pc[w] \notin {"store", "publish"}
           /\ pc[w] = "count" => uiWCnt + 1 < uiWBuffCnt
           /\ pc[w] = "flush" => uiWCnt < uiWBuffCnt

\* The reader's copy of the write position is at most as far as the real one.
ReaderView ==
    \A r \in Readers :
        /\ pc[r] \in {"loop", "advance"} =>
              cifo_get_count(curWritePos[r], rCellPos) <= cifo_used_count
        /\ IF pc[r] = "advance"
           THEN /\ curWritePos[r] # rCellPos
                /\ nextPos[r] = cifo_next_pos(rCellPos)
                /\ pNext[r] = cell[rCellPos]
           ELSE pNext[r] = Null

\* Every unread cell holds a node.
UnreadHoldNodes == \A i \in 0 .. cifo_used_count - 1 : cell[CellAt(i)] \in Node

(* No unread cell is ever stored over and no read position overtakes the   *)
(* write position, and the write semaphore is held only inside the write   *)
(* section: the parts above, which cifo_write and cifo_read maintain       *)
(* together although the reader takes no semaphore.                        *)
RingInv == SectionHeld /\ WriterView /\ RoomToFlush /\ ReaderView /\ UnreadHoldNodes

TheReader == CHOOSE r \in Readers : TRUE

UnreadQueue == [i \in 1 .. cifo_used_count |-> cell[CellAt(i - 1)]]

CQ == INSTANCE CifoQueue WITH Offsets <- Node, None <- Null, Cap <- CellCnt - 1,
                              queue <- UnreadQueue, front <- pNext[TheReader]

(* The cells from rCellPos to wCellPos are a bounded FIFO queue of list    *)
(* offsets, with any number of writers and with processes dying anywhere   *)
(* in cifo_write and cifo_read: a list once published is read exactly once *)
(* and in order, a full ring is never written to, and a dead reader's      *)
(* unfinished cell is read again.                                          *)
QueueRefinement == CQ!Spec
=============================================================================
