----------------------------- MODULE CifoProofs -----------------------------
(***************************************************************************)
(* Proofs about one CIFO channel, for every number of cells, writers,      *)
(* nodes and crashes, in three parts.                                      *)
(*                                                                         *)
(* The ring of cells: it is described by the number of unread cells        *)
(* (cifo_used_count), which a publish adds one to and an advance takes one *)
(* from (PublishCount, AdvanceCount); RingInv says that neither happens    *)
(* when the count is at its limit, although writers and reader work from   *)
(* copies of each other's position.                                        *)
(*                                                                         *)
(* No node in two places (NoNodeTwice): next and prev are always inverse   *)
(* to each other, so that a list is closed under both links.  Every node   *)
(* has one owner, the place its list hangs on, and the nodes of a list     *)
(* have the same owner; each step gives all nodes of one owner to another  *)
(* (OwnInv).                                                               *)
(*                                                                         *)
(* The channel is a FIFO of nodes (ChannelIsFifo): by the second part a    *)
(* splice joins two different lists, one behind the other, and leaves all  *)
(* others as they are; so the lists in flight, read one after the other,   *)
(* change only where a write adds a node and where a read returns a list.  *)
(***************************************************************************)
EXTENDS CifoFifo, ClistoProofs

(* Positions *)

(* cifo_next_pos steps to the next cell and wraps at the end of the ring.  *)
LEMMA NextPos ==
    \A p \in Pos : /\ cifo_next_pos(p) \in Pos
                   /\ cifo_next_pos(p) = IF p + 1 = CellCnt THEN 0 ELSE p + 1
  BY CellCntAssumption DEF cifo_next_pos, Pos

(* cifo_get_count is between 0 and one less than the number of cells.      *)
LEMMA CountRange ==
    \A w, r \in Pos : /\ cifo_get_count(w, r) \in 0 .. CellCnt - 1
                      /\ cifo_get_count(w, r) = 0 <=> w = r
                      /\ cifo_get_count(w, r) = CellCnt - 1 <=> cifo_next_pos(w) = r
  BY NextPos, CellCntAssumption DEF cifo_get_count, Pos

(* The same range, without the number of cells.                            *)
LEMMA CountNat ==
    \A w, r \in Pos : /\ cifo_get_count(w, r) \in Nat
                      /\ cifo_get_count(w, r) = 0 <=> w = r
  BY CountRange, CellCntAssumption

(* Moving the write position of a ring that is not full adds one.          *)
LEMMA PublishCount ==
    ASSUME NEW w \in Pos, NEW r \in Pos, cifo_get_count(w, r) < CellCnt - 1
    PROVE  cifo_get_count(cifo_next_pos(w), r) = cifo_get_count(w, r) + 1
  BY NextPos, CellCntAssumption DEF cifo_get_count, Pos

(* Moving the read position of a ring that is not empty takes one away.    *)
LEMMA AdvanceCount ==
    ASSUME NEW w \in Pos, NEW r \in Pos, w # r
    PROVE  cifo_get_count(w, cifo_next_pos(r)) = cifo_get_count(w, r) - 1
  BY NextPos, CellCntAssumption DEF cifo_get_count, Pos

(* Joining two lists keeps the links inside the nodes.                     *)
LEMMA SpliceType ==
    ASSUME NEW l \in Links, NEW a \in Entries, NEW b \in Entries
    PROVE  clist_splice(l, a, b) \in Links
  <1>1. ASSUME NEW k \in Links, NEW e, NEW x \in Entries \cup {Null}
        PROVE  SetNext(k, e, x) \in Links /\ SetPrev(k, e, x) \in Links
    BY <1>1 DEF SetNext, SetPrev, Links
  <1>2. l.prev[a] \in Entries \cup {Null} /\ l.prev[b] \in Entries \cup {Null}
    BY DEF Links
  <1> QED BY <1>1, <1>2 DEF clist_splice

-----------------------------------------------------------------------------
(* Types *)

(* The next-state relation, action by action.                              *)
LEMMA NextCases ==
    ASSUME Next
    PROVE  \/ \E w \in Writers, n \in Node : WriteCall(w, n)
           \/ \E w \in Writers : WriteP(w)
           \/ \E w \in Writers : WriteReadPos(w)
           \/ \E w \in Writers : WriteFull(w)
           \/ \E w \in Writers : WriteBuffer(w)
           \/ \E w \in Writers : WriteCount(w)
           \/ \E w \in Writers : WriteFlush(w)
           \/ \E w \in Writers : WriteKeep(w)
           \/ \E w \in Writers : WriteStore(w)
           \/ \E w \in Writers : WritePublish(w)
           \/ \E w \in Writers : WriteV(w)
           \/ \E r \in Readers : ReadP(r)
           \/ \E r \in Readers : ReadSnap(r)
           \/ \E r \in Readers : ReadCell(r)
           \/ \E r \in Readers : ReadAdvance(r)
           \/ \E r \in Readers : ReadReturn(r)
           \/ \E r \in Readers : Consume(r)
           \/ \E n \in WTune : SetWBuffCnt(n)
           \/ \E n \in RTune : SetRBuffCnt(n)
           \/ \E p \in Procs : Crash(p)
  BY DEF Next, cifo_write, cifo_read, cifo_set_buffcnt

(* A reader whose copy of the write position is ahead of the read position *)
(* finds a node in the cell it reads.                                      *)
LEMMA UnreadHead ==
    ASSUME TypeOK, RingInv, NEW r \in Readers,
           pc[r] \in {"loop", "advance"}, rCellPos # curWritePos[r]
    PROVE  wCellPos # rCellPos /\ cell[rCellPos] \in Node
  <1>1. curWritePos[r] \in Pos /\ rCellPos \in Pos /\ wCellPos \in Pos
    BY DEF TypeOK, Procs
  <1>2. /\ cifo_get_count(curWritePos[r], rCellPos) \in Nat \ {0}
        /\ cifo_used_count \in Nat
    BY <1>1, CountNat DEF cifo_used_count
  <1>3. cifo_used_count > 0
    BY <1>2 DEF RingInv, ReaderView
  <1>4. CellAt(0) = rCellPos
    BY <1>1, CellCntAssumption DEF CellAt, Pos
  <1>5. cell[CellAt(0)] \in Node
    BY <1>2, <1>3 DEF RingInv, UnreadHoldNodes
  <1> QED BY <1>1, <1>3, <1>4, <1>5, CountRange DEF cifo_used_count

(* Every step of the channel keeps its variables in their types.           *)
LEMMA TypeStep ==
    ASSUME Configured, TypeOK, RingInv, [Next]_vars
    PROVE  TypeOK'
  <1> USE ProcsAssumption, CellCntAssumption, BuffCntAssumption, FlagAssumption,
          CrashAssumption, NullAssumption
          DEF Procs, NodeOrNull, Node, WriterPC, ReaderPC, InSection,
              chanVars, buffVars, writeVars, readVars, posVars, semVars, envVars
  <1>0. 0 \in Pos
    BY DEF Pos
  <1>1. ASSUME NEW w \in Writers, NEW n \in Node, WriteCall(w, n)
        PROVE  TypeOK'
    BY <1>1 DEF TypeOK, WriteCall, Goto
  <1>2. ASSUME NEW w \in Writers, WriteP(w)
        PROVE  TypeOK'
    BY <1>2 DEF TypeOK, WriteP, Goto, P
  <1>3. ASSUME NEW w \in Writers, WriteReadPos(w)
        PROVE  TypeOK'
    BY <1>3, NextPos DEF TypeOK, WriteReadPos, Goto
  <1>4. ASSUME NEW w \in Writers, WriteFull(w)
        PROVE  TypeOK'
    BY <1>0, <1>4 DEF RingInv, WriterView, TypeOK, WriteFull, Goto, V, ForgetPos
  <1>5. ASSUME NEW w \in Writers, WriteBuffer(w)
        PROVE  TypeOK'
    <2>1. offset[w] \in Entries
      BY <1>5 DEF RingInv, WriterView, WriteBuffer, Goto
    <2>2. nont' \in Links
      BY <1>5, <2>1, SpliceType DEF WriteBuffer, TypeOK
    <2> QED BY <1>5, <2>1, <2>2 DEF TypeOK, WriteBuffer, Goto
  <1>6. ASSUME NEW w \in Writers, WriteCount(w)
        PROVE  TypeOK'
    BY <1>6 DEF TypeOK, WriteCount, Goto
  <1>7. ASSUME NEW w \in Writers, WriteFlush(w)
        PROVE  TypeOK'
    BY <1>7 DEF TypeOK, WriteFlush, Goto
  <1>8. ASSUME NEW w \in Writers, WriteKeep(w)
        PROVE  TypeOK'
    BY <1>8 DEF TypeOK, WriteKeep, Goto
  <1>9. ASSUME NEW w \in Writers, WriteStore(w)
        PROVE  TypeOK'
    BY <1>9 DEF TypeOK, WriteStore, Goto
  <1>10. ASSUME NEW w \in Writers, WritePublish(w)
        PROVE  TypeOK'
    BY <1>10 DEF TypeOK, WritePublish, Goto
  <1>11. ASSUME NEW w \in Writers, WriteV(w)
        PROVE  TypeOK'
    BY <1>0, <1>11 DEF TypeOK, WriteV, Goto, V, ForgetPos
  <1>12. ASSUME NEW r \in Readers, ReadP(r)
        PROVE  TypeOK'
    BY <1>12 DEF TypeOK, ReadP, Goto, P, uiRSemFlag
  <1>13. ASSUME NEW r \in Readers, ReadSnap(r)
        PROVE  TypeOK'
    BY <1>13 DEF TypeOK, ReadSnap, Goto
  <1>14. ASSUME NEW r \in Readers, ReadCell(r)
        PROVE  TypeOK'
    <2>1. cell[rCellPos] \in Entries
      BY <1>14, UnreadHead DEF ReadCell, More, Goto
    <2>2. nont' \in Links
      BY <1>14, <2>1, SpliceType DEF ReadCell, TypeOK
    <2> QED BY <1>14, <2>1, <2>2, NextPos DEF TypeOK, ReadCell, Goto
  <1>15. ASSUME NEW r \in Readers, ReadAdvance(r)
        PROVE  TypeOK'
    BY <1>15 DEF TypeOK, ReadAdvance, Goto
  <1>16. ASSUME NEW r \in Readers, ReadReturn(r)
        PROVE  TypeOK'
    BY <1>0, <1>16 DEF TypeOK, ReadReturn, Goto, V, ForgetPos, uiRSemFlag
  <1>17. ASSUME NEW r \in Readers, Consume(r)
        PROVE  TypeOK'
    <2>1. nont' \in Links
      BY <1>17 DEF Consume, TypeOK, Links
    <2> QED BY <1>17, <2>1 DEF TypeOK, Consume, Goto
  <1>18. ASSUME NEW n \in WTune, SetWBuffCnt(n)
        PROVE  TypeOK'
    BY <1>18 DEF TypeOK, SetWBuffCnt
  <1>19. ASSUME NEW n \in RTune, SetRBuffCnt(n)
        PROVE  TypeOK'
    BY <1>19 DEF TypeOK, SetRBuffCnt
  <1>20. ASSUME NEW p \in Procs, Crash(p)
        PROVE  TypeOK'
    BY <1>0, <1>20 DEF TypeOK, Crash, ForgetPos, Release
  <1>21. ASSUME UNCHANGED vars PROVE TypeOK'
    BY <1>21 DEF TypeOK, vars
  <1> QED BY <1>1, <1>2, <1>3, <1>4, <1>5, <1>6, <1>7, <1>8, <1>9, <1>10,
             <1>11, <1>12, <1>13, <1>14, <1>15, <1>16, <1>17, <1>18, <1>19, <1>20,
             <1>21, NextCases
-----------------------------------------------------------------------------
(* The ring *)

(* Two writers are never inside the write section of cifo_write together.  *)
LEMMA Exclusive ==
    ASSUME Configured, TypeOK, SectionHeld, NEW v \in Writers, NEW w \in Writers,
           pc[v] \in InSection, pc[w] \in InSection
    PROVE  v = w
  BY DEF Configured, WriteSemConfigured, SectionHeld

(* Every step keeps the write section exclusive.                           *)
LEMMA SectionStep ==
    ASSUME Configured, TypeOK, SectionHeld, [Next]_vars
    PROVE  SectionHeld'
  <1> SUFFICES ASSUME WSemFlag = MEMS_SEMA_ON, NEW v \in Writers
               PROVE  pc'[v] \in InSection <=> wsem' = v
    BY DEF SectionHeld
  <1> DEFINE SectionOf(u) == pc'[u] \in InSection <=> wsem' = u
  <1> USE ProcsAssumption DEF Procs, SectionHeld, TypeOK, InSection, uiWSemFlag, chanVars,
          buffVars, writeVars, readVars, posVars, semVars, envVars
  <1>1. ASSUME NEW w \in Writers, NEW n \in Node, WriteCall(w, n) PROVE SectionOf(v)
    BY <1>1 DEF WriteCall, Goto
  <1>2. ASSUME NEW w \in Writers, WriteP(w) PROVE SectionOf(v)
    BY <1>2 DEF WriteP, Goto, P
  <1>3. ASSUME NEW w \in Writers, WriteReadPos(w) PROVE SectionOf(v)
    BY <1>3 DEF WriteReadPos, Goto
  <1>4. ASSUME NEW w \in Writers, WriteFull(w) PROVE SectionOf(v)
    BY <1>4 DEF WriteFull, Goto, V
  <1>5. ASSUME NEW w \in Writers, WriteBuffer(w) PROVE SectionOf(v)
    BY <1>5 DEF WriteBuffer, Goto
  <1>6. ASSUME NEW w \in Writers, WriteCount(w) PROVE SectionOf(v)
    BY <1>6 DEF WriteCount, Goto
  <1>7. ASSUME NEW w \in Writers, WriteFlush(w) PROVE SectionOf(v)
    BY <1>7 DEF WriteFlush, Goto
  <1>8. ASSUME NEW w \in Writers, WriteKeep(w) PROVE SectionOf(v)
    BY <1>8 DEF WriteKeep, Goto
  <1>9. ASSUME NEW w \in Writers, WriteStore(w) PROVE SectionOf(v)
    BY <1>9 DEF WriteStore, Goto
  <1>10. ASSUME NEW w \in Writers, WritePublish(w) PROVE SectionOf(v)
    BY <1>10 DEF WritePublish, Goto
  <1>11. ASSUME NEW w \in Writers, WriteV(w) PROVE SectionOf(v)
    BY <1>11 DEF WriteV, Goto, V
  <1>12. ASSUME NEW r \in Readers, ReadP(r) PROVE SectionOf(v)
    BY <1>12 DEF ReadP, Goto
  <1>13. ASSUME NEW r \in Readers, ReadSnap(r) PROVE SectionOf(v)
    BY <1>13 DEF ReadSnap, Goto
  <1>14. ASSUME NEW r \in Readers, ReadCell(r) PROVE SectionOf(v)
    BY <1>14 DEF ReadCell, Goto
  <1>15. ASSUME NEW r \in Readers, ReadAdvance(r) PROVE SectionOf(v)
    BY <1>15 DEF ReadAdvance, Goto
  <1>16. ASSUME NEW r \in Readers, ReadReturn(r) PROVE SectionOf(v)
    BY <1>16 DEF ReadReturn, Goto
  <1>17. ASSUME NEW r \in Readers, Consume(r) PROVE SectionOf(v)
    BY <1>17 DEF Consume, Goto
  <1>18. ASSUME NEW n \in WTune, SetWBuffCnt(n) PROVE SectionOf(v)
    BY <1>18 DEF SetWBuffCnt
  <1>19. ASSUME NEW n \in RTune, SetRBuffCnt(n) PROVE SectionOf(v)
    BY <1>19 DEF SetRBuffCnt
  <1>20. ASSUME NEW p \in Procs, Crash(p) PROVE SectionOf(v)
    BY <1>20 DEF Crash, Release
  <1>21. ASSUME UNCHANGED vars PROVE SectionOf(v)
    BY <1>21 DEF vars
  <1> QED BY <1>1, <1>2, <1>3, <1>4, <1>5, <1>6, <1>7, <1>8, <1>9, <1>10,
             <1>11, <1>12, <1>13, <1>14, <1>15, <1>16, <1>17, <1>18, <1>19, <1>20,
             <1>21, NextCases

(* The views the writers have of the channel stay right: only the writer   *)
(* inside the section moves wCellPos, and an advance empties the ring.     *)
LEMMA WriterViewStep ==
    ASSUME Configured, TypeOK, RingInv, [Next]_vars
    PROVE  WriterView'
  <1> USE ProcsAssumption DEF Procs, RingInv, WriterView, TypeOK, InSection, Goto,
          chanVars, buffVars, writeVars, readVars, posVars, semVars, envVars,
          cifo_used_count, Node, NodeOrNull
  <1>0. \A v, w \in Writers : pc[v] \in InSection /\ pc[w] \in InSection => v = w
    BY Exclusive
  <1>1. ASSUME NEW w \in Writers, NEW n \in Node, WriteCall(w, n)
        PROVE  WriterView'
    BY <1>1 DEF WriteCall
  <1>2. ASSUME NEW w \in Writers, WriteP(w)
        PROVE  WriterView'
    BY <1>2 DEF WriteP
  <1>3. ASSUME NEW w \in Writers, WriteReadPos(w)
        PROVE  WriterView'
    BY <1>3, CountRange, CellCntAssumption DEF WriteReadPos
  <1>4. ASSUME NEW w \in Writers, WriteFull(w)
        PROVE  WriterView'
    BY <1>4 DEF WriteFull, ForgetPos
  <1>5. ASSUME NEW w \in Writers, WriteBuffer(w)
        PROVE  WriterView'
    BY <1>5 DEF WriteBuffer
  <1>6. ASSUME NEW w \in Writers, WriteCount(w)
        PROVE  WriterView'
    BY <1>6 DEF WriteCount
  <1>7. ASSUME NEW w \in Writers, WriteFlush(w)
        PROVE  WriterView'
    BY <1>7 DEF WriteFlush
  <1>8. ASSUME NEW w \in Writers, WriteKeep(w)
        PROVE  WriterView'
    BY <1>8 DEF WriteKeep
  <1>9. ASSUME NEW w \in Writers, WriteStore(w)
        PROVE  WriterView'
    BY <1>9, <1>0 DEF WriteStore
  <1>10. ASSUME NEW w \in Writers, WritePublish(w)
        PROVE  WriterView'
    BY <1>10, <1>0 DEF WritePublish
  <1>11. ASSUME NEW w \in Writers, WriteV(w)
        PROVE  WriterView'
    BY <1>11 DEF WriteV, ForgetPos
  <1>12. ASSUME NEW r \in Readers, ReadP(r)
        PROVE  WriterView'
    BY <1>12 DEF ReadP
  <1>13. ASSUME NEW r \in Readers, ReadSnap(r)
        PROVE  WriterView'
    BY <1>13 DEF ReadSnap
  <1>14. ASSUME NEW r \in Readers, ReadCell(r)
        PROVE  WriterView'
    BY <1>14 DEF ReadCell
  <1>15. ASSUME NEW r \in Readers, ReadAdvance(r)
        PROVE  WriterView'
    BY <1>15, AdvanceCount, CountRange, UnreadHead, CellCntAssumption
       DEF ReadAdvance, ReaderView
  <1>16. ASSUME NEW r \in Readers, ReadReturn(r)
        PROVE  WriterView'
    BY <1>16 DEF ReadReturn, ForgetPos
  <1>17. ASSUME NEW r \in Readers, Consume(r)
        PROVE  WriterView'
    BY <1>17 DEF Consume
  <1>18. ASSUME NEW n \in WTune, SetWBuffCnt(n)
        PROVE  WriterView'
    BY <1>18 DEF SetWBuffCnt
  <1>19. ASSUME NEW n \in RTune, SetRBuffCnt(n)
        PROVE  WriterView'
    BY <1>19 DEF SetRBuffCnt
  <1>20. ASSUME NEW p \in Procs, Crash(p)
        PROVE  WriterView'
    BY <1>20 DEF Crash, ForgetPos, Release
  <1>21. ASSUME UNCHANGED vars
        PROVE  WriterView'
    BY <1>21 DEF vars
  <1> QED BY <1>1, <1>2, <1>3, <1>4, <1>5, <1>6, <1>7, <1>8, <1>9, <1>10,
             <1>11, <1>12, <1>13, <1>14, <1>15, <1>16, <1>17, <1>18, <1>19, <1>20,
             <1>21, NextCases

(* A writer that has decided to flush keeps its room: only it adds cells,  *)
(* the reader only takes them away, and the limit is not lowered under it. *)
LEMMA RoomStep ==
    ASSUME Configured, TypeOK, RingInv, [Next]_vars
    PROVE  RoomToFlush'
  <1> USE ProcsAssumption, CellCntAssumption, BuffCntAssumption
      DEF Procs, RingInv, WriterView, RoomToFlush, TypeOK, InSection, Goto,
          chanVars, buffVars, writeVars, readVars, posVars, semVars, envVars,
          cifo_used_count
  <1>0. \A v, w \in Writers : pc[v] \in InSection /\ pc[w] \in InSection => v = w
    BY Exclusive
  <1>a. cifo_used_count \in 0 .. CellCnt - 1
    BY CountRange
  <1>1. ASSUME NEW w \in Writers, NEW n \in Node, WriteCall(w, n)
        PROVE  RoomToFlush'
    BY <1>1 DEF WriteCall
  <1>2. ASSUME NEW w \in Writers, WriteP(w)
        PROVE  RoomToFlush'
    BY <1>2 DEF WriteP
  <1>3. ASSUME NEW w \in Writers, WriteReadPos(w)
        PROVE  RoomToFlush'
    BY <1>3 DEF WriteReadPos
  <1>4. ASSUME NEW w \in Writers, WriteFull(w)
        PROVE  RoomToFlush'
    BY <1>4 DEF WriteFull
  <1>5. ASSUME NEW w \in Writers, WriteBuffer(w)
        PROVE  RoomToFlush'
    <2>1. CASE nextPos[w] # curReadPos[w]
      <3>a. /\ wCellPos \in Pos /\ curReadPos[w] \in Pos
            /\ cifo_next_pos(wCellPos) # curReadPos[w]
        BY <1>5, <2>1 DEF WriteBuffer
      <3>b. /\ cifo_get_count(wCellPos, curReadPos[w]) \in 0 .. CellCnt - 1
            /\ cifo_get_count(wCellPos, curReadPos[w]) # CellCnt - 1
        BY <3>a, CountRange
      <3>1. cifo_get_count(wCellPos, curReadPos[w]) < CellCnt - 1
        BY <3>b
      <3>2. cifo_used_count < CellCnt - 1
        BY <1>5, <3>1, <1>a, CountRange DEF WriteBuffer
      <3> QED BY <1>5, <3>2 DEF WriteBuffer
    <2>2. CASE uiWCnt + 1 < uiWBuffCnt
      BY <1>5, <2>2, <1>0 DEF WriteBuffer
    <2> QED BY <1>5, <2>1, <2>2 DEF WriteBuffer, QueueFull
  <1>6. ASSUME NEW w \in Writers, WriteCount(w)
        PROVE  RoomToFlush'
    BY <1>6, <1>0 DEF WriteCount
  <1>7. ASSUME NEW w \in Writers, WriteFlush(w)
        PROVE  RoomToFlush'
    BY <1>7, <1>0 DEF WriteFlush
  <1>8. ASSUME NEW w \in Writers, WriteKeep(w)
        PROVE  RoomToFlush'
    BY <1>8 DEF WriteKeep
  <1>9. ASSUME NEW w \in Writers, WriteStore(w)
        PROVE  RoomToFlush'
    BY <1>9 DEF WriteStore
  <1>10. ASSUME NEW w \in Writers, WritePublish(w)
        PROVE  RoomToFlush'
    BY <1>10, <1>0 DEF WritePublish
  <1>11. ASSUME NEW w \in Writers, WriteV(w)
        PROVE  RoomToFlush'
    BY <1>11 DEF WriteV
  <1>12. ASSUME NEW r \in Readers, ReadP(r)
        PROVE  RoomToFlush'
    BY <1>12 DEF ReadP
  <1>13. ASSUME NEW r \in Readers, ReadSnap(r)
        PROVE  RoomToFlush'
    BY <1>13 DEF ReadSnap
  <1>14. ASSUME NEW r \in Readers, ReadCell(r)
        PROVE  RoomToFlush'
    BY <1>14 DEF ReadCell
  <1>15. ASSUME NEW r \in Readers, ReadAdvance(r)
        PROVE  RoomToFlush'
    BY <1>15, <1>a, AdvanceCount, UnreadHead DEF ReadAdvance, ReaderView
  <1>16. ASSUME NEW r \in Readers, ReadReturn(r)
        PROVE  RoomToFlush'
    BY <1>16 DEF ReadReturn
  <1>17. ASSUME NEW r \in Readers, Consume(r)
        PROVE  RoomToFlush'
    BY <1>17 DEF Consume
  <1>18. ASSUME NEW n \in WTune, SetWBuffCnt(n)
        PROVE  RoomToFlush'
    BY <1>18 DEF SetWBuffCnt, Configured
  <1>19. ASSUME NEW n \in RTune, SetRBuffCnt(n)
        PROVE  RoomToFlush'
    BY <1>19 DEF SetRBuffCnt
  <1>20. ASSUME NEW p \in Procs, Crash(p)
        PROVE  RoomToFlush'
    BY <1>20 DEF Crash
  <1>21. ASSUME UNCHANGED vars
        PROVE  RoomToFlush'
    BY <1>21 DEF vars
  <1> QED BY <1>1, <1>2, <1>3, <1>4, <1>5, <1>6, <1>7, <1>8, <1>9, <1>10,
             <1>11, <1>12, <1>13, <1>14, <1>15, <1>16, <1>17, <1>18, <1>19, <1>20,
             <1>21, NextCases

(* The reader's view of the channel stays right: a publish only makes the  *)
(* ring fuller, and a store never hits the cell the reader is looking at.  *)
LEMMA ReaderViewStep ==
    ASSUME Configured, TypeOK, RingInv, [Next]_vars
    PROVE  ReaderView'
  <1> USE ProcsAssumption, CellCntAssumption
      DEF Procs, RingInv, ReaderView, TypeOK, InSection, Goto,
          chanVars, buffVars, writeVars, readVars, posVars, semVars, envVars,
          cifo_used_count
  <1>0. \A q, r \in Readers : q = r
    BY DEF Configured, OneReader
  <1>1. ASSUME NEW w \in Writers, NEW n \in Node, WriteCall(w, n)
        PROVE  ReaderView'
    BY <1>1 DEF WriteCall
  <1>2. ASSUME NEW w \in Writers, WriteP(w)
        PROVE  ReaderView'
    BY <1>2 DEF WriteP
  <1>3. ASSUME NEW w \in Writers, WriteReadPos(w)
        PROVE  ReaderView'
    BY <1>3 DEF WriteReadPos
  <1>4. ASSUME NEW w \in Writers, WriteFull(w)
        PROVE  ReaderView'
    BY <1>4 DEF WriteFull, ForgetPos
  <1>5. ASSUME NEW w \in Writers, WriteBuffer(w)
        PROVE  ReaderView'
    BY <1>5 DEF WriteBuffer
  <1>6. ASSUME NEW w \in Writers, WriteCount(w)
        PROVE  ReaderView'
    BY <1>6 DEF WriteCount
  <1>7. ASSUME NEW w \in Writers, WriteFlush(w)
        PROVE  ReaderView'
    BY <1>7 DEF WriteFlush
  <1>8. ASSUME NEW w \in Writers, WriteKeep(w)
        PROVE  ReaderView'
    BY <1>8 DEF WriteKeep
  <1>9. ASSUME NEW w \in Writers, WriteStore(w)
        PROVE  ReaderView'
    BY <1>9, UnreadHead DEF WriteStore, WriterView
  <1>10. ASSUME NEW w \in Writers, WritePublish(w)
        PROVE  ReaderView'
    BY <1>10, PublishCount, CountRange DEF WritePublish, WriterView, RoomToFlush
  <1>11. ASSUME NEW w \in Writers, WriteV(w)
        PROVE  ReaderView'
    BY <1>11 DEF WriteV, ForgetPos
  <1>12. ASSUME NEW r \in Readers, ReadP(r)
        PROVE  ReaderView'
    BY <1>12 DEF ReadP
  <1>13. ASSUME NEW r \in Readers, ReadSnap(r)
        PROVE  ReaderView'
    BY <1>13, <1>0, CountNat DEF ReadSnap
  <1>14. ASSUME NEW r \in Readers, ReadCell(r)
        PROVE  ReaderView'
    BY <1>14, <1>0 DEF ReadCell, More
  <1>15. ASSUME NEW r \in Readers, ReadAdvance(r)
        PROVE  ReaderView'
    BY <1>15, <1>0, AdvanceCount, UnreadHead, CountRange DEF ReadAdvance
  <1>16. ASSUME NEW r \in Readers, ReadReturn(r)
        PROVE  ReaderView'
    BY <1>16, <1>0 DEF ReadReturn, ForgetPos
  <1>17. ASSUME NEW r \in Readers, Consume(r)
        PROVE  ReaderView'
    BY <1>17 DEF Consume
  <1>18. ASSUME NEW n \in WTune, SetWBuffCnt(n)
        PROVE  ReaderView'
    BY <1>18 DEF SetWBuffCnt
  <1>19. ASSUME NEW n \in RTune, SetRBuffCnt(n)
        PROVE  ReaderView'
    BY <1>19 DEF SetRBuffCnt
  <1>20. ASSUME NEW p \in Procs, Crash(p)
        PROVE  ReaderView'
    BY <1>20 DEF Crash, ForgetPos
  <1>21. ASSUME UNCHANGED vars
        PROVE  ReaderView'
    BY <1>21 DEF vars
  <1> QED BY <1>1, <1>2, <1>3, <1>4, <1>5, <1>6, <1>7, <1>8, <1>9, <1>10,
             <1>11, <1>12, <1>13, <1>14, <1>15, <1>16, <1>17, <1>18, <1>19, <1>20,
             <1>21, NextCases

(* The cells between the read and the write position, and the one behind. *)
LEMMA CellAtRange ==
    ASSUME TypeOK
    PROVE  /\ cifo_used_count \in 0 .. CellCnt - 1
           /\ \A i \in 0 .. cifo_used_count :
                 CellAt(i) \in Pos /\ (CellAt(i) = wCellPos <=> i = cifo_used_count)
  BY CellCntAssumption DEF TypeOK, CellAt, Pos, cifo_used_count, cifo_get_count

(* After an advance the unread cells are the ones behind the first.        *)
LEMMA CellAtAdvance ==
    ASSUME TypeOK, rCellPos' = cifo_next_pos(rCellPos), NEW i \in 0 .. cifo_used_count - 1
    PROVE  CellAt(i)' = CellAt(i + 1)
  <1>1. /\ cifo_used_count \in 0 .. CellCnt - 1
        /\ rCellPos \in 0 .. CellCnt - 1
        /\ rCellPos' = IF rCellPos + 1 = CellCnt THEN 0 ELSE rCellPos + 1
    BY CellAtRange, NextPos DEF TypeOK, Pos
  <1>2. i \in Int /\ 0 <= i /\ i < CellCnt - 1
    BY <1>1, CellCntAssumption
  <1> QED BY <1>1, <1>2, CellCntAssumption DEF CellAt

(* Unread cells keep their nodes: a store goes to the cell behind the last *)
(* unread one, and only a node that was stored is published.               *)
LEMMA UnreadStep ==
    ASSUME Configured, TypeOK, RingInv, [Next]_vars
    PROVE  UnreadHoldNodes'
  <1> USE CellCntAssumption
      DEF RingInv, UnreadHoldNodes, TypeOK, Goto,
          chanVars, buffVars, writeVars, readVars, posVars, semVars, envVars,
          cifo_used_count, CellAt
  <1>1. ASSUME NEW w \in Writers, NEW n \in Node, WriteCall(w, n)
        PROVE  UnreadHoldNodes'
    BY <1>1 DEF WriteCall
  <1>2. ASSUME NEW w \in Writers, WriteP(w)
        PROVE  UnreadHoldNodes'
    BY <1>2 DEF WriteP
  <1>3. ASSUME NEW w \in Writers, WriteReadPos(w)
        PROVE  UnreadHoldNodes'
    BY <1>3 DEF WriteReadPos
  <1>4. ASSUME NEW w \in Writers, WriteFull(w)
        PROVE  UnreadHoldNodes'
    BY <1>4 DEF WriteFull
  <1>5. ASSUME NEW w \in Writers, WriteBuffer(w)
        PROVE  UnreadHoldNodes'
    BY <1>5 DEF WriteBuffer
  <1>6. ASSUME NEW w \in Writers, WriteCount(w)
        PROVE  UnreadHoldNodes'
    BY <1>6 DEF WriteCount
  <1>7. ASSUME NEW w \in Writers, WriteFlush(w)
        PROVE  UnreadHoldNodes'
    BY <1>7 DEF WriteFlush
  <1>8. ASSUME NEW w \in Writers, WriteKeep(w)
        PROVE  UnreadHoldNodes'
    BY <1>8 DEF WriteKeep
  <1>9. ASSUME NEW w \in Writers, WriteStore(w)
        PROVE  UnreadHoldNodes'
    BY <1>9, CellAtRange DEF WriteStore, WriterView
  <1>10. ASSUME NEW w \in Writers, WritePublish(w)
        PROVE  UnreadHoldNodes'
    <2>1. cifo_used_count' = cifo_used_count + 1
      BY <1>10, PublishCount DEF WritePublish, WriterView, RoomToFlush
    <2>2. \A i \in 0 .. cifo_used_count : cell[CellAt(i)] \in Node
      BY <1>10, CellAtRange DEF WritePublish, WriterView
    <2> QED BY <1>10, <2>1, <2>2, CellAtRange DEF WritePublish
  <1>11. ASSUME NEW w \in Writers, WriteV(w)
        PROVE  UnreadHoldNodes'
    BY <1>11 DEF WriteV
  <1>12. ASSUME NEW r \in Readers, ReadP(r)
        PROVE  UnreadHoldNodes'
    BY <1>12 DEF ReadP
  <1>13. ASSUME NEW r \in Readers, ReadSnap(r)
        PROVE  UnreadHoldNodes'
    BY <1>13 DEF ReadSnap
  <1>14. ASSUME NEW r \in Readers, ReadCell(r)
        PROVE  UnreadHoldNodes'
    BY <1>14 DEF ReadCell
  <1>15. ASSUME NEW r \in Readers, ReadAdvance(r)
        PROVE  UnreadHoldNodes'
    <2>1. rCellPos' = cifo_next_pos(rCellPos) /\ wCellPos # rCellPos
      BY <1>15, UnreadHead DEF ReadAdvance, ReaderView, RingInv
    <2>2. cifo_used_count' = cifo_used_count - 1
      BY <1>15, <2>1, AdvanceCount DEF ReadAdvance, TypeOK, cifo_used_count
    <2>3. \A i \in 0 .. cifo_used_count' - 1 : CellAt(i)' = CellAt(i + 1)
      BY <2>1, <2>2, CellAtAdvance, CellAtRange
    <2> QED BY <1>15, <2>2, <2>3, CellAtRange DEF ReadAdvance
  <1>16. ASSUME NEW r \in Readers, ReadReturn(r)
        PROVE  UnreadHoldNodes'
    BY <1>16 DEF ReadReturn
  <1>17. ASSUME NEW r \in Readers, Consume(r)
        PROVE  UnreadHoldNodes'
    BY <1>17 DEF Consume
  <1>18. ASSUME NEW n \in WTune, SetWBuffCnt(n)
        PROVE  UnreadHoldNodes'
    BY <1>18 DEF SetWBuffCnt
  <1>19. ASSUME NEW n \in RTune, SetRBuffCnt(n)
        PROVE  UnreadHoldNodes'
    BY <1>19 DEF SetRBuffCnt
  <1>20. ASSUME NEW p \in Procs, Crash(p)
        PROVE  UnreadHoldNodes'
    BY <1>20 DEF Crash
  <1>21. ASSUME UNCHANGED vars
        PROVE  UnreadHoldNodes'
    BY <1>21 DEF vars
  <1> QED BY <1>1, <1>2, <1>3, <1>4, <1>5, <1>6, <1>7, <1>8, <1>9, <1>10,
             <1>11, <1>12, <1>13, <1>14, <1>15, <1>16, <1>17, <1>18, <1>19, <1>20,
             <1>21, NextCases

-----------------------------------------------------------------------------
(* Theorems *)

(* A new channel satisfies the invariant.                                  *)
LEMMA InitInv ==
    ASSUME Configured, Init
    PROVE  TypeOK /\ RingInv
  <1> USE ProcsAssumption, CellCntAssumption, BuffCntAssumption, CrashAssumption
      DEF Init, Procs, Pos, NodeOrNull, Node
  <1>1. SelfLinks \in Links
    BY DEF SelfLinks, Links
  <1>2. TypeOK
    BY <1>1 DEF TypeOK, WriterPC, ReaderPC
  <1>3. cifo_used_count = 0
    BY DEF cifo_used_count, cifo_get_count
  <1>4. SectionHeld /\ WriterView /\ RoomToFlush /\ ReaderView
    BY DEF SectionHeld, WriterView, RoomToFlush, ReaderView, InSection
  <1>5. UnreadHoldNodes
    BY <1>3 DEF UnreadHoldNodes
  <1> QED BY <1>2, <1>4, <1>5 DEF RingInv

(* Every step of the channel keeps the ring invariant.                     *)
LEMMA RingStep ==
    ASSUME Configured, TypeOK, RingInv, [Next]_vars
    PROVE  RingInv'
  <1>1. SectionHeld'
    BY SectionStep DEF RingInv
  <1> QED BY <1>1, WriterViewStep, RoomStep, ReaderViewStep, UnreadStep DEF RingInv

(* The inductive invariant: types and ring together, because a splice has  *)
(* well-typed links only if the cells that are read hold nodes.            *)
THEOREM ChannelInvariant ==
    ASSUME Configured
    PROVE  Spec => [](TypeOK /\ RingInv)
  <1>1. Init => TypeOK /\ RingInv
    BY InitInv
  <1>2. TypeOK /\ RingInv /\ [Next]_vars => (TypeOK /\ RingInv)'
    BY TypeStep, RingStep
  <1> QED BY <1>1, <1>2, PTL DEF Spec

(* The variables of cifo_write and cifo_read keep their types, the links   *)
(* that both splice included.                                              *)
THEOREM TypeCorrect ==
    ASSUME Configured
    PROVE  Spec => []TypeOK
  <1>1. Spec => [](TypeOK /\ RingInv)
    BY ChannelInvariant
  <1> QED BY <1>1, PTL

(* cifo_write never stores over an unread cell and cifo_read never         *)
(* overtakes the write position, for every ring size, number of writers    *)
(* and number of crashes.                                                  *)
THEOREM RingSafe ==
    ASSUME Configured
    PROVE  Spec => []RingInv
  <1>1. Spec => [](TypeOK /\ RingInv)
    BY ChannelInvariant
  <1> QED BY <1>1, PTL

(* A publish puts the list at the end of the queue of unread cells.        *)
LEMMA PublishIsPut ==
    ASSUME Configured, TypeOK, RingInv, NEW w \in Writers, WritePublish(w)
    PROVE  CQ!Put(input[w]) /\ input[w] \in Node
  <1> DEFINE u == cifo_used_count
  <1>1. /\ wCellPos' = cifo_next_pos(wCellPos) /\ rCellPos' = rCellPos
        /\ cell' = cell /\ pNext' = pNext
        /\ u < CellCnt - 1 /\ cell[wCellPos] = input[w] /\ input[w] \in Node
    BY DEF WritePublish, Goto, RingInv, WriterView, RoomToFlush, readVars, posVars
  <1>2. u \in Nat /\ u' = u + 1
    BY <1>1, PublishCount, CellAtRange, CellCntAssumption DEF TypeOK, cifo_used_count
  <1>3. CellAt(u) = wCellPos /\ \A i \in Nat : CellAt(i)' = CellAt(i)
    BY <1>1, <1>2, CellAtRange DEF CellAt
  <1>4. Len(UnreadQueue) = u /\ UnreadQueue \in Seq(NodeOrNull)
    BY <1>2, CellAtRange DEF UnreadQueue, TypeOK
  <1>5. UnreadQueue' = [i \in 1 .. u + 1 |-> cell[CellAt(i - 1)]]
    BY <1>1, <1>2, <1>3 DEF UnreadQueue
  <1>6. UnreadQueue' = Append(UnreadQueue, input[w])
    BY <1>1, <1>2, <1>3, <1>4, <1>5 DEF UnreadQueue
  <1> QED BY <1>1, <1>4, <1>6 DEF CQ!Put

(* An advance takes the first list off the queue of unread cells.          *)
LEMMA AdvanceIsDrop ==
    ASSUME Configured, TypeOK, RingInv, NEW r \in Readers, ReadAdvance(r)
    PROVE  CQ!Drop
  <1> DEFINE u == cifo_used_count
  <1>1. /\ r = TheReader /\ r \in Readers
        /\ rCellPos' = cifo_next_pos(rCellPos) /\ wCellPos' = wCellPos /\ cell' = cell
        /\ wCellPos # rCellPos
        /\ pNext[r] = cell[rCellPos] /\ pNext'[r] = Null
    BY UnreadHead DEF Configured, OneReader, TheReader, ReadAdvance, Goto, RingInv,
       ReaderView, TypeOK
  <1>2. u \in Nat /\ u > 0 /\ u' = u - 1
    BY <1>1, AdvanceCount, CellAtRange, CountNat, CellCntAssumption
       DEF TypeOK, cifo_used_count
  <1>3. CellAt(0) = rCellPos /\ \A i \in 0 .. u - 1 : CellAt(i)' = CellAt(i + 1)
    BY <1>1, <1>2, CellAtAdvance, CellCntAssumption DEF CellAt, TypeOK, Pos
  <1>4. Len(UnreadQueue) = u /\ UnreadQueue \in Seq(NodeOrNull)
    BY <1>2, CellAtRange DEF UnreadQueue, TypeOK
  <1>5. UnreadQueue # <<>> /\ Head(UnreadQueue) = cell[rCellPos]
    BY <1>2, <1>3, <1>4 DEF UnreadQueue
  <1>6. UnreadQueue' = [i \in 1 .. u - 1 |-> cell[CellAt(i)]]
    BY <1>1, <1>2, <1>3 DEF UnreadQueue
  <1>7. Tail(UnreadQueue) = [i \in 1 .. u - 1 |-> cell[CellAt(i)]]
    BY <1>2, <1>4 DEF UnreadQueue
  <1> QED BY <1>1, <1>5, <1>6, <1>7 DEF CQ!Drop

(* Steps that leave the positions and the cells alone leave the queue.     *)
LEMMA QuietQueue ==
    ASSUME UNCHANGED <<wCellPos, rCellPos, cell>>
    PROVE  UNCHANGED UnreadQueue
  BY DEF UnreadQueue, CellAt, cifo_used_count

(* A store goes to the cell behind the last unread one.                    *)
LEMMA StoreQuiet ==
    ASSUME TypeOK, RingInv, NEW w \in Writers, WriteStore(w)
    PROVE  UNCHANGED UnreadQueue
  <1>1. /\ UNCHANGED <<wCellPos, rCellPos>>
        /\ cell' = [cell EXCEPT ![wCellPos] = input[w]]
    BY DEF WriteStore, Goto, RingInv, WriterView
  <1>2. cifo_used_count' = cifo_used_count /\ cifo_used_count \in Nat
    BY <1>1, CellAtRange, CellCntAssumption DEF cifo_used_count
  <1>3. \A i \in 1 .. cifo_used_count : cell'[CellAt(i - 1)'] = cell[CellAt(i - 1)]
    BY <1>1, <1>2, CellAtRange DEF CellAt, TypeOK
  <1> QED BY <1>2, <1>3 DEF UnreadQueue

(* A reader that enters the loop body looks at the head of the queue.      *)
LEMMA ReadCellIsPeek ==
    ASSUME Configured, TypeOK, RingInv, NEW r \in Readers, ReadCell(r)
    PROVE  CQ!Peek
  <1>1. /\ r = TheReader
        /\ UNCHANGED <<wCellPos, rCellPos, cell>>
        /\ wCellPos # rCellPos
        /\ pNext[r] = Null /\ pNext'[r] = cell[rCellPos]
    BY UnreadHead DEF Configured, OneReader, TheReader, ReadCell, More, Goto, RingInv,
       ReaderView, TypeOK, chanVars
  <1>2. cifo_used_count \in Nat /\ cifo_used_count > 0
    BY <1>1, CellAtRange, CountNat, CellCntAssumption DEF TypeOK, cifo_used_count
  <1>3. CellAt(0) = rCellPos
    BY CellCntAssumption DEF CellAt, TypeOK, Pos
  <1>4. Len(UnreadQueue) = cifo_used_count /\ UnreadQueue \in Seq(NodeOrNull)
    BY <1>2, CellAtRange DEF UnreadQueue, TypeOK
  <1>5. UnreadQueue # <<>> /\ Head(UnreadQueue) = cell[rCellPos]
    BY <1>2, <1>3, <1>4 DEF UnreadQueue
  <1> QED BY <1>1, <1>5, QuietQueue DEF CQ!Peek

(* Every step of the channel is a step of the queue, or leaves it alone.   *)
LEMMA QueueStep ==
    ASSUME Configured, TypeOK, RingInv, [Next]_vars
    PROVE  [CQ!Next]_<<UnreadQueue, pNext[TheReader]>>
  <1> USE DEF chanVars, readVars, posVars, semVars, envVars
  <1>1. ASSUME NEW w \in Writers, NEW n \in Node, WriteCall(w, n)
        PROVE  [CQ!Next]_<<UnreadQueue, pNext[TheReader]>>
    BY <1>1, QuietQueue DEF WriteCall
  <1>2. ASSUME NEW w \in Writers, WriteP(w)
        PROVE  [CQ!Next]_<<UnreadQueue, pNext[TheReader]>>
    BY <1>2, QuietQueue DEF WriteP
  <1>3. ASSUME NEW w \in Writers, WriteReadPos(w)
        PROVE  [CQ!Next]_<<UnreadQueue, pNext[TheReader]>>
    BY <1>3, QuietQueue DEF WriteReadPos
  <1>4. ASSUME NEW w \in Writers, WriteFull(w)
        PROVE  [CQ!Next]_<<UnreadQueue, pNext[TheReader]>>
    BY <1>4, QuietQueue DEF WriteFull
  <1>5. ASSUME NEW w \in Writers, WriteBuffer(w)
        PROVE  [CQ!Next]_<<UnreadQueue, pNext[TheReader]>>
    BY <1>5, QuietQueue DEF WriteBuffer
  <1>6. ASSUME NEW w \in Writers, WriteCount(w)
        PROVE  [CQ!Next]_<<UnreadQueue, pNext[TheReader]>>
    BY <1>6, QuietQueue DEF WriteCount
  <1>7. ASSUME NEW w \in Writers, WriteFlush(w)
        PROVE  [CQ!Next]_<<UnreadQueue, pNext[TheReader]>>
    BY <1>7, QuietQueue DEF WriteFlush
  <1>8. ASSUME NEW w \in Writers, WriteKeep(w)
        PROVE  [CQ!Next]_<<UnreadQueue, pNext[TheReader]>>
    BY <1>8, QuietQueue DEF WriteKeep
  <1>9. ASSUME NEW w \in Writers, WriteStore(w)
        PROVE  [CQ!Next]_<<UnreadQueue, pNext[TheReader]>>
    BY <1>9, StoreQuiet DEF WriteStore
  <1>10. ASSUME NEW w \in Writers, WritePublish(w)
        PROVE  [CQ!Next]_<<UnreadQueue, pNext[TheReader]>>
    BY <1>10, PublishIsPut DEF CQ!Next
  <1>11. ASSUME NEW w \in Writers, WriteV(w)
        PROVE  [CQ!Next]_<<UnreadQueue, pNext[TheReader]>>
    BY <1>11, QuietQueue DEF WriteV
  <1>12. ASSUME NEW r \in Readers, ReadP(r)
        PROVE  [CQ!Next]_<<UnreadQueue, pNext[TheReader]>>
    BY <1>12, QuietQueue DEF ReadP
  <1>13. ASSUME NEW r \in Readers, ReadSnap(r)
        PROVE  [CQ!Next]_<<UnreadQueue, pNext[TheReader]>>
    BY <1>13, QuietQueue DEF ReadSnap
  <1>14. ASSUME NEW r \in Readers, ReadCell(r)
        PROVE  [CQ!Next]_<<UnreadQueue, pNext[TheReader]>>
    BY <1>14, ReadCellIsPeek DEF CQ!Next
  <1>15. ASSUME NEW r \in Readers, ReadAdvance(r)
        PROVE  [CQ!Next]_<<UnreadQueue, pNext[TheReader]>>
    BY <1>15, AdvanceIsDrop DEF CQ!Next
  <1>16. ASSUME NEW r \in Readers, ReadReturn(r)
        PROVE  [CQ!Next]_<<UnreadQueue, pNext[TheReader]>>
    BY <1>16, QuietQueue DEF ReadReturn
  <1>17. ASSUME NEW r \in Readers, Consume(r)
        PROVE  [CQ!Next]_<<UnreadQueue, pNext[TheReader]>>
    BY <1>17, QuietQueue DEF Consume
  <1>18. ASSUME NEW n \in WTune, SetWBuffCnt(n)
        PROVE  [CQ!Next]_<<UnreadQueue, pNext[TheReader]>>
    BY <1>18, QuietQueue DEF SetWBuffCnt
  <1>19. ASSUME NEW n \in RTune, SetRBuffCnt(n)
        PROVE  [CQ!Next]_<<UnreadQueue, pNext[TheReader]>>
    BY <1>19, QuietQueue DEF SetRBuffCnt
  <1>20. ASSUME NEW p \in Procs, Crash(p)
        PROVE  [CQ!Next]_<<UnreadQueue, pNext[TheReader]>>
    <2>1. UNCHANGED UnreadQueue
      BY <1>20, QuietQueue DEF Crash
    <2>2. TheReader \in Readers
      BY DEF Configured, OneReader, TheReader
    <2>3. pNext'[TheReader] \in {Null, pNext[TheReader]}
      BY <1>20, <2>2 DEF Crash
    <2> QED BY <2>1, <2>3 DEF CQ!Next, CQ!Forget
  <1>21. ASSUME UNCHANGED vars
        PROVE  [CQ!Next]_<<UnreadQueue, pNext[TheReader]>>
    BY <1>21, QuietQueue DEF vars
  <1> QED BY <1>1, <1>2, <1>3, <1>4, <1>5, <1>6, <1>7, <1>8, <1>9, <1>10,
             <1>11, <1>12, <1>13, <1>14, <1>15, <1>16, <1>17, <1>18, <1>19, <1>20,
             <1>21, NextCases

(* The cells of a channel implement a bounded FIFO queue of list offsets,  *)
(* for every ring size, number of writers and number of crashes inside     *)
(* cifo_write and cifo_read.                                               *)
THEOREM ChannelIsQueue ==
    ASSUME Configured
    PROVE  Spec => QueueRefinement
  <1>1. Init => CQ!Init
    <2> SUFFICES ASSUME Init PROVE CQ!Init
      OBVIOUS
    <2>1. cifo_used_count = 0
      BY DEF Init, cifo_used_count, cifo_get_count
    <2>2. UnreadQueue = <<>>
      BY <2>1 DEF UnreadQueue
    <2>3. pNext[TheReader] = Null
      BY DEF Init, Configured, OneReader, TheReader
    <2> QED BY <2>2, <2>3 DEF CQ!Init
  <1>2. TypeOK /\ RingInv /\ [Next]_vars => [CQ!Next]_<<UnreadQueue, pNext[TheReader]>>
    BY QueueStep
  <1>3. Spec => [](TypeOK /\ RingInv)
    BY ChannelInvariant
  <1> QED BY <1>1, <1>2, <1>3, PTL DEF Spec, QueueRefinement, CQ!Spec

-----------------------------------------------------------------------------
(* No node in two places                                                   *)

\* An owner: a place as in Places, or the store of fresh nodes.
Owner(tag, at) == [tag |-> tag, at |-> at]

(* Owners of two kinds, or at two places, differ.                          *)
LEMMA OwnersDiffer ==
    ASSUME NEW t, NEW a, NEW u, NEW b, Owner(t, a) = Owner(u, b)
    PROVE  t = u /\ a = b
  <1>1. Owner(t, a).tag = Owner(u, b).tag /\ Owner(t, a).at = Owner(u, b).at
    OBVIOUS
  <1> QED BY <1>1 DEF Owner

Unread == {CellAt(k) : k \in 0 .. cifo_used_count - 1}

\* The parts of the invariant.  own maps every node to its owner.
OneList(own) == \A e \in Node : own[nont.next[e]] = own[e]

GatheredOwned(own) == wOffset # Null => own[wOffset] = Owner("wOffset", 0)

CellsOwned(own) == \A c \in Unread : own[cell[c]] = Owner("cell", c)

WritersOwned(own) ==
    \A w \in Writers : /\ offset[w] # Null => /\ own[offset[w]] = Owner("offset", w)
                                              /\ nont.next[offset[w]] = offset[w]
                                              /\ nont.prev[offset[w]] = offset[w]
                       /\ input[w] # Null => own[input[w]] = Owner("input", w)

\* A reader about to advance has joined its list to the oldest cell's.
ReadersOwned(own) ==
    \A r \in Readers :
        IF pc[r] = "advance"
        THEN pHead[r] # Null /\ own[pHead[r]] = Owner("cell", rCellPos)
        ELSE pHead[r] # Null => own[pHead[r]] = Owner("pHead", r)

FreshOwned(own) ==
    \A e \in fresh : own[e] = Owner("fresh", 0) /\ nont.next[e] = e /\ nont.prev[e] = e

Owned(own) ==
    /\ OneList(own) /\ GatheredOwned(own) /\ CellsOwned(own)
    /\ WritersOwned(own) /\ ReadersOwned(own) /\ FreshOwned(own)

\* Every node has one owner, and the nodes of a list have the same one.
OwnInv == Inverse2(nont) /\ \E own : Owned(own)

(* The unread cells: none is the one behind the last, and all hold nodes.  *)
LEMMA UnreadFacts ==
    ASSUME TypeOK, RingInv
    PROVE  /\ Unread \subseteq Pos /\ wCellPos \notin Unread
           /\ \A c \in Unread : cell[c] \in Node
  <1>1. cifo_used_count \in Nat
    BY CellAtRange, CellCntAssumption
  <1>2. ASSUME NEW c \in Unread PROVE c \in Pos /\ c # wCellPos /\ cell[c] \in Node
    <2>1. PICK k \in 0 .. cifo_used_count - 1 : c = CellAt(k)
      BY DEF Unread
    <2>2. k \in 0 .. cifo_used_count /\ k # cifo_used_count
      BY <1>1
    <2> QED BY <2>1, <2>2, CellAtRange DEF RingInv, UnreadHoldNodes
  <1> QED BY <1>2

(* A publish adds the cell it publishes to the unread ones.                *)
LEMMA UnreadPublish ==
    ASSUME TypeOK, wCellPos' = cifo_next_pos(wCellPos), rCellPos' = rCellPos,
           cifo_used_count < CellCnt - 1
    PROVE  Unread' \subseteq Unread \cup {wCellPos}
  <1>1. cifo_used_count \in Nat /\ cifo_used_count' = cifo_used_count + 1
    BY PublishCount, CellAtRange, CellCntAssumption DEF TypeOK, cifo_used_count
  <1>2. CellAt(cifo_used_count) = wCellPos /\ \A i \in Nat : CellAt(i)' = CellAt(i)
    BY <1>1, CellAtRange DEF CellAt
  <1>3. ASSUME NEW c \in Unread' PROVE c \in Unread \cup {wCellPos}
    <2>1. PICK k \in 0 .. cifo_used_count' - 1 : c = CellAt(k)'
      BY DEF Unread
    <2>2. k \in Nat /\ (k = cifo_used_count \/ k \in 0 .. cifo_used_count - 1)
      BY <1>1
    <2> QED BY <1>2, <2>1, <2>2 DEF Unread
  <1> QED BY <1>3

(* An advance takes the oldest of the unread cells away.                   *)
LEMMA UnreadAdvance ==
    ASSUME TypeOK, rCellPos' = cifo_next_pos(rCellPos), wCellPos' = wCellPos, wCellPos # rCellPos
    PROVE  Unread' \subseteq Unread \ {rCellPos}
  <1>1. cifo_used_count \in Nat /\ cifo_used_count > 0 /\ cifo_used_count' = cifo_used_count - 1
    BY AdvanceCount, CellAtRange, CountNat, CellCntAssumption DEF TypeOK, cifo_used_count
  <1>2. cifo_used_count \in 0 .. CellCnt - 1 /\ rCellPos \in 0 .. CellCnt - 1
    BY CellAtRange DEF TypeOK, Pos
  <1>3. ASSUME NEW c \in Unread' PROVE c \in Unread \ {rCellPos}
    <2>1. PICK k \in 0 .. cifo_used_count' - 1 : c = CellAt(k)'
      BY DEF Unread
    <2>2. k \in 0 .. cifo_used_count - 1 /\ k + 1 \in 0 .. cifo_used_count - 1
      BY <1>1
    <2>3. c = CellAt(k + 1)
      BY <2>1, <2>2, CellAtAdvance
    <2>4. CellAt(k + 1) # rCellPos
      BY <1>2, <2>2, CellCntAssumption DEF CellAt
    <2> QED BY <2>2, <2>3, <2>4 DEF Unread
  <1> QED BY <1>3

(* A reader that has more to read finds the oldest cell unread.            *)
LEMMA OldestUnread ==
    ASSUME TypeOK, wCellPos # rCellPos
    PROVE  rCellPos \in Unread
  <1>1. cifo_used_count \in Nat /\ cifo_used_count > 0
    BY CellAtRange, CountNat, CellCntAssumption DEF TypeOK, cifo_used_count
  <1>2. CellAt(0) = rCellPos /\ 0 \in 0 .. cifo_used_count - 1
    BY <1>1, CellCntAssumption DEF CellAt, TypeOK, Pos
  <1> QED BY <1>2 DEF Unread

\* All nodes of the owner a are given to the owner b.
Given(own, a, b) == [e \in Node |-> IF own[e] = a THEN b ELSE own[e]]

(* A step that moves no list and no offset leaves the owners as they are.  *)
LEMMA QuietOwners ==
    ASSUME OwnInv, UNCHANGED <<nont, wOffset, cell, wCellPos, rCellPos, offset, input, pHead, fresh>>,
           \A r \in Readers : pc'[r] = "advance" <=> pc[r] = "advance"
    PROVE  OwnInv'
  <1>1. PICK own : Owned(own)
    BY DEF OwnInv
  <1>2. Unread' = Unread
    BY DEF Unread, CellAt, cifo_used_count
  <1>3. OneList(own)' /\ GatheredOwned(own)' /\ CellsOwned(own)'
    BY <1>1, <1>2 DEF Owned, OneList, GatheredOwned, CellsOwned
  <1>4. WritersOwned(own)' /\ ReadersOwned(own)' /\ FreshOwned(own)'
    BY <1>1 DEF Owned, WritersOwned, ReadersOwned, FreshOwned
  <1>5. Inverse2(nont)'
    BY DEF OwnInv
  <1> QED BY <1>3, <1>4, <1>5 DEF OwnInv, Owned

(* cifo_write is called with a fresh node, which becomes the call's own.   *)
LEMMA CallOwners ==
    ASSUME TypeOK, RingInv, OwnInv, NEW w \in Writers, NEW n \in Node, WriteCall(w, n)
    PROVE  OwnInv'
  <1>1. PICK own : Owned(own)
    BY DEF OwnInv
  <1>2. PICK new : new = [e \in Node |-> IF e = n THEN Owner("offset", w) ELSE own[e]]
    OBVIOUS
  <1>3. \A e \in Node : new[e] = IF e = n THEN Owner("offset", w) ELSE own[e]
    BY <1>2
  <1>4. /\ UNCHANGED <<nont, wOffset, cell, wCellPos, rCellPos, input, pHead>>
        /\ n \in fresh /\ fresh' = fresh \ {n} /\ fresh \subseteq Node
        /\ offset' = [offset EXCEPT ![w] = n] /\ offset \in [Writers -> NodeOrNull]
        /\ \A r \in Readers : pc'[r] = "advance" <=> pc[r] = "advance"
    BY ProcsAssumption DEF WriteCall, Goto, TypeOK, chanVars, readVars, Procs
  <1>5. /\ own[n] = Owner("fresh", 0) /\ nont.next[n] = n /\ nont.prev[n] = n
        /\ \A e \in Node : nont.next[e] \in Node /\ nont.next[nont.prev[e]] = e /\ nont.prev[nont.next[e]] = e
    BY <1>1, <1>4 DEF Owned, FreshOwned, OwnInv, Inverse2, Node
  <1>6. \A t, a : t # "fresh" => Owner(t, a) # Owner("fresh", 0)
    BY OwnersDiffer
  <1>7. Unread' = Unread /\ \A c \in Unread : cell[c] \in Node
    BY <1>4, UnreadFacts DEF Unread, CellAt, cifo_used_count
  <1>8. /\ wOffset \in NodeOrNull /\ input \in [Writers -> NodeOrNull]
        /\ pHead \in [Readers -> NodeOrNull]
    BY DEF TypeOK
  <1>9. OneList(new)'
    BY <1>1, <1>3, <1>4, <1>5, <1>6 DEF Owned, OneList, NodeOrNull, Node
  <1>10. GatheredOwned(new)'
    BY <1>1, <1>3, <1>4, <1>5, <1>6, <1>8 DEF Owned, GatheredOwned, NodeOrNull, Node
  <1>11. CellsOwned(new)'
    BY <1>1, <1>3, <1>4, <1>5, <1>6, <1>7 DEF Owned, CellsOwned, NodeOrNull, Node
  <1>12. WritersOwned(new)'
    <2>1. ASSUME NEW v \in Writers
          PROVE  /\ offset'[v] # Null => /\ new[offset'[v]] = Owner("offset", v)
                                         /\ nont.next[offset'[v]] = offset'[v]
                                         /\ nont.prev[offset'[v]] = offset'[v]
                 /\ input[v] # Null => new[input[v]] = Owner("input", v)
      <3>1. /\ offset[v] \in NodeOrNull /\ input[v] \in NodeOrNull
            /\ offset'[v] = IF v = w THEN n ELSE offset[v]
        BY <1>4, <1>8
      <3>2. /\ offset[v] # Null => /\ own[offset[v]] = Owner("offset", v)
                                   /\ nont.next[offset[v]] = offset[v]
                                   /\ nont.prev[offset[v]] = offset[v]
            /\ input[v] # Null => own[input[v]] = Owner("input", v)
        BY <1>1 DEF Owned, WritersOwned
      <3> QED BY <1>3, <1>5, <1>6, <3>1, <3>2 DEF NodeOrNull, Node
    <2> QED BY <1>4, <2>1 DEF WritersOwned
  <1>13. ReadersOwned(new)'
    BY <1>1, <1>3, <1>4, <1>5, <1>6, <1>8 DEF Owned, ReadersOwned, NodeOrNull, Node
  <1>14. FreshOwned(new)'
    BY <1>1, <1>3, <1>4, <1>5, <1>6 DEF Owned, FreshOwned, NodeOrNull, Node
  <1>15. Inverse2(nont)'
    BY <1>4 DEF OwnInv
  <1> QED BY <1>9, <1>10, <1>11, <1>12, <1>13, <1>14, <1>15 DEF OwnInv, Owned

(* A refused write gives its node back to its caller.                      *)
LEMMA FullOwners ==
    ASSUME TypeOK, RingInv, OwnInv, NEW w \in Writers, WriteFull(w)
    PROVE  OwnInv'
  <1>1. PICK own : Owned(own)
    BY DEF OwnInv
  <1>2. PICK n \in Node : n = offset[w]
    BY DEF WriteFull, Goto, RingInv, WriterView
  <1>3. PICK new : new = [e \in Node |-> IF e = n THEN Owner("fresh", 0) ELSE own[e]]
    OBVIOUS
  <1>4. \A e \in Node : new[e] = IF e = n THEN Owner("fresh", 0) ELSE own[e]
    BY <1>3
  <1>5. /\ UNCHANGED <<nont, wOffset, cell, wCellPos, rCellPos, input, pHead>>
        /\ fresh' = fresh \cup {n} /\ fresh \subseteq Node
        /\ offset' = [offset EXCEPT ![w] = Null] /\ offset \in [Writers -> NodeOrNull]
        /\ \A r \in Readers : pc'[r] = "advance" <=> pc[r] = "advance"
    BY <1>2, ProcsAssumption DEF WriteFull, Goto, TypeOK, chanVars, readVars, Procs
  <1>6. /\ own[n] = Owner("offset", w) /\ nont.next[n] = n /\ nont.prev[n] = n
        /\ \A e \in Node : nont.next[e] \in Node /\ nont.next[nont.prev[e]] = e /\ nont.prev[nont.next[e]] = e
    BY <1>1, <1>2, NullAssumption DEF Owned, WritersOwned, OwnInv, Inverse2, Node
  <1>7. \A t, a : (t # "offset" \/ a # w) => Owner(t, a) # Owner("offset", w)
    BY OwnersDiffer
  <1>8. Unread' = Unread /\ \A c \in Unread : cell[c] \in Node
    BY <1>5, UnreadFacts DEF Unread, CellAt, cifo_used_count
  <1>9. /\ wOffset \in NodeOrNull /\ input \in [Writers -> NodeOrNull]
        /\ pHead \in [Readers -> NodeOrNull]
    BY DEF TypeOK
  <1>10. OneList(new)'
    BY <1>1, <1>4, <1>5, <1>6, <1>7 DEF Owned, OneList, NodeOrNull, Node
  <1>11. GatheredOwned(new)'
    BY <1>1, <1>4, <1>5, <1>6, <1>7, <1>9 DEF Owned, GatheredOwned, NodeOrNull, Node
  <1>12. CellsOwned(new)'
    BY <1>1, <1>4, <1>5, <1>6, <1>7, <1>8 DEF Owned, CellsOwned, NodeOrNull, Node
  <1>13. WritersOwned(new)'
    <2>1. ASSUME NEW v \in Writers
          PROVE  /\ offset'[v] # Null => /\ new[offset'[v]] = Owner("offset", v)
                                         /\ nont.next[offset'[v]] = offset'[v]
                                         /\ nont.prev[offset'[v]] = offset'[v]
                 /\ input[v] # Null => new[input[v]] = Owner("input", v)
      <3>1. /\ offset[v] \in NodeOrNull /\ input[v] \in NodeOrNull
            /\ offset'[v] = IF v = w THEN Null ELSE offset[v]
        BY <1>5, <1>9
      <3>2. /\ offset[v] # Null => /\ own[offset[v]] = Owner("offset", v)
                                   /\ nont.next[offset[v]] = offset[v]
                                   /\ nont.prev[offset[v]] = offset[v]
            /\ input[v] # Null => own[input[v]] = Owner("input", v)
        BY <1>1 DEF Owned, WritersOwned
      <3> QED BY <1>4, <1>6, <1>7, <3>1, <3>2 DEF NodeOrNull, Node
    <2> QED BY <1>5, <2>1 DEF WritersOwned
  <1>14. ReadersOwned(new)'
    BY <1>1, <1>4, <1>5, <1>6, <1>7, <1>9 DEF Owned, ReadersOwned, NodeOrNull, Node
  <1>15. FreshOwned(new)'
    BY <1>1, <1>4, <1>5, <1>6, <1>7 DEF Owned, FreshOwned, NodeOrNull, Node
  <1>16. Inverse2(nont)'
    BY <1>5 DEF OwnInv
  <1> QED BY <1>10, <1>11, <1>12, <1>13, <1>14, <1>15, <1>16 DEF OwnInv, Owned

(* Joining the lists of two owners leads from a node to another owner's    *)
(* only between these two, and no other list is touched.                   *)
LEMMA SpliceOwners ==
    ASSUME NEW l \in Links, Inverse2(l), NEW own, \A e \in Node : own[l.next[e]] = own[e],
           NEW a \in Node, NEW b \in Node, own[a] # own[b],
           NEW k, k = clist_splice(l, a, b)
    PROVE  /\ Inverse2(k)
           /\ \A e \in Node : \/ own[k.next[e]] = own[e]
                              \/ own[k.next[e]] \in {own[a], own[b]} /\ own[e] \in {own[a], own[b]}
           /\ \A e \in Node : own[e] # own[a] /\ own[e] # own[b] =>
                                 k.next[e] = l.next[e] /\ k.prev[e] = l.prev[e]
  <1> DEFINE c == l.prev[a]
             d == l.prev[b]
  <1>1. /\ Inverse2(k) /\ k.next = [l.next EXCEPT ![c] = b, ![d] = a]
        /\ k.prev = [l.prev EXCEPT ![b] = c, ![a] = d]
    BY SpliceLinks DEF Node
  <1>2. /\ c \in Node /\ d \in Node /\ l.next[c] = a /\ l.next[d] = b
        /\ \A e \in Node : l.next[e] \in Node
    BY DEF Inverse2, Node
  <1> HIDE DEF c, d
  <1>3. own[c] = own[a] /\ own[d] = own[b]
    BY <1>2
  <1>4. DOMAIN l.next = Node /\ DOMAIN l.prev = Node
    BY DEF Links, Node
  <1>5. \A e \in Node : /\ k.next[e] = IF e = d THEN a ELSE IF e = c THEN b ELSE l.next[e]
                        /\ k.prev[e] = IF e = a THEN d ELSE IF e = b THEN c ELSE l.prev[e]
    BY <1>1, <1>4
  <1>6. ASSUME NEW e \in Node
        PROVE  \/ own[k.next[e]] = own[e]
               \/ own[k.next[e]] \in {own[a], own[b]} /\ own[e] \in {own[a], own[b]}
    BY <1>3, <1>5
  <1>7. ASSUME NEW e \in Node, own[e] # own[a], own[e] # own[b]
        PROVE  k.next[e] = l.next[e] /\ k.prev[e] = l.prev[e]
    <2>1. e # a /\ e # b /\ e # c /\ e # d
      BY <1>3, <1>7
    <2> QED BY <1>5, <2>1
  <1> QED BY <1>1, <1>6, <1>7

(* The node of a write becomes part of the gathered list.                  *)
LEMMA BufferOwners ==
    ASSUME TypeOK, RingInv, OwnInv, NEW w \in Writers, WriteBuffer(w)
    PROVE  OwnInv'
  <1>1. PICK own : Owned(own)
    BY DEF OwnInv
  <1> DEFINE x == Owner("offset", w)
             y == Owner("wOffset", 0)
             new == Given(own, x, y)
  <1>2. x # y
    BY OwnersDiffer
  <1>3. \A e \in Node : new[e] = IF own[e] = x THEN y ELSE own[e]
    BY DEF Given
  <1>4. /\ UNCHANGED <<cell, wCellPos, rCellPos, input, pHead, fresh>>
        /\ offset' = [offset EXCEPT ![w] = Null] /\ offset \in [Writers -> NodeOrNull]
        /\ offset[w] \in Node
        /\ \A r \in Readers : pc'[r] = "advance" <=> pc[r] = "advance"
    BY ProcsAssumption
       DEF WriteBuffer, Goto, TypeOK, readVars, envVars, Procs, RingInv, WriterView
  <1>5. own[offset[w]] = x
    BY <1>1, <1>4, NullAssumption DEF Owned, WritersOwned, Node
  <1>6. /\ wOffset' \in Node /\ new[wOffset'] = y /\ Inverse2(nont') /\ OneList(new)'
        /\ \A e \in Node : own[e] # x /\ own[e] # y =>
              nont'.next[e] = nont.next[e] /\ nont'.prev[e] = nont.prev[e]
    <2>1. \A e \in Node : own[nont.next[e]] = own[e] /\ nont.next[e] \in Node
      BY <1>1 DEF Owned, OneList, OwnInv, Inverse2, Node
    <2>2. CASE wOffset = Null
      <3>1. nont' = nont /\ wOffset' = offset[w]
        BY <2>2 DEF WriteBuffer
      <3>2. OneList(new)'
        BY <1>3, <2>1, <3>1 DEF OneList
      <3> QED BY <1>3, <1>4, <1>5, <3>1, <3>2 DEF OwnInv
    <2>3. CASE wOffset # Null
      <3>1. /\ nont' = clist_splice(nont, offset[w], wOffset) /\ wOffset' = wOffset
            /\ wOffset \in Node /\ own[wOffset] = y /\ nont \in Links
        BY <1>1, <2>3 DEF WriteBuffer, Owned, GatheredOwned, TypeOK, NodeOrNull, Node
      <3> HIDE DEF x, y, new
      <3>2. /\ Inverse2(nont')
            /\ \A e \in Node : \/ own[nont'.next[e]] = own[e]
                               \/ own[nont'.next[e]] \in {x, y} /\ own[e] \in {x, y}
            /\ \A e \in Node : own[e] # x /\ own[e] # y =>
                  nont'.next[e] = nont.next[e] /\ nont'.prev[e] = nont.prev[e]
        <4>1. own[offset[w]] # own[wOffset] /\ Inverse2(nont)
          BY <1>2, <1>5, <3>1 DEF OwnInv
        <4> QED BY <1>4, <1>5, <2>1, <3>1, <4>1, SpliceOwners
      <3>3. new[wOffset] = y
        BY <1>3, <3>1
      <3>4. OneList(new)'
        <4>1. \A e \in Node : nont'.next[e] \in Node
          BY <3>2 DEF Inverse2, Node
        <4>2. \A e \in Node : new[nont'.next[e]] = new[e]
          BY <1>3, <3>2, <4>1
        <4> QED BY <4>2 DEF OneList, new, x, y
      <3> QED BY <3>1, <3>2, <3>3, <3>4
    <2> QED BY <2>2, <2>3
  <1>7. Unread' = Unread /\ \A c \in Unread : cell[c] \in Node
    BY <1>4, UnreadFacts DEF Unread, CellAt, cifo_used_count
  <1>8. /\ input \in [Writers -> NodeOrNull] /\ pHead \in [Readers -> NodeOrNull]
        /\ fresh \subseteq Node
    BY DEF TypeOK
  <1>9. /\ \A a : Owner("cell", a) # x /\ Owner("pHead", a) # x
        /\ \A a : Owner("input", a) # x /\ Owner("fresh", a) # x
        /\ \A v : Owner("offset", v) # y /\ (v # w => Owner("offset", v) # x)
        /\ \A a : Owner("fresh", a) # y
    BY OwnersDiffer
  <1> HIDE DEF x, new
  <1>10. GatheredOwned(new)'
    BY <1>6 DEF GatheredOwned
  <1> HIDE DEF y
  <1>11. CellsOwned(new)'
    BY <1>1, <1>3, <1>4, <1>7, <1>9 DEF Owned, CellsOwned
  <1>12. WritersOwned(new)'
    <2>1. ASSUME NEW v \in Writers
          PROVE  /\ offset'[v] # Null => /\ new[offset'[v]] = Owner("offset", v)
                                         /\ nont'.next[offset'[v]] = offset'[v]
                                         /\ nont'.prev[offset'[v]] = offset'[v]
                 /\ input[v] # Null => new[input[v]] = Owner("input", v)
      <3>1. /\ offset[v] \in NodeOrNull /\ input[v] \in NodeOrNull
            /\ offset'[v] = IF v = w THEN Null ELSE offset[v]
        BY <1>4, <1>8
      <3>2. /\ offset[v] # Null => /\ own[offset[v]] = Owner("offset", v)
                                   /\ nont.next[offset[v]] = offset[v]
                                   /\ nont.prev[offset[v]] = offset[v]
            /\ input[v] # Null => own[input[v]] = Owner("input", v)
        BY <1>1 DEF Owned, WritersOwned
      <3> QED BY <1>3, <1>6, <1>9, <3>1, <3>2 DEF NodeOrNull, Node
    <2> QED BY <1>4, <2>1 DEF WritersOwned
  <1>13. ReadersOwned(new)'
    BY <1>1, <1>3, <1>4, <1>8, <1>9 DEF Owned, ReadersOwned, NodeOrNull, Node
  <1>14. FreshOwned(new)'
    BY <1>1, <1>3, <1>4, <1>6, <1>8, <1>9 DEF Owned, FreshOwned
  <1> QED BY <1>6, <1>10, <1>11, <1>12, <1>13, <1>14 DEF OwnInv, Owned

(* The gathered list leaves the channel for the local of its writer.       *)
LEMMA FlushOwners ==
    ASSUME TypeOK, RingInv, OwnInv, NEW w \in Writers, WriteFlush(w)
    PROVE  OwnInv'
  <1>1. PICK own : Owned(own)
    BY DEF OwnInv
  <1> DEFINE x == Owner("wOffset", 0)
             y == Owner("input", w)
             new == Given(own, x, y)
  <1>2. \A e \in Node : new[e] = IF own[e] = x THEN y ELSE own[e]
    BY DEF Given
  <1>3. /\ UNCHANGED <<nont, cell, wCellPos, rCellPos, offset, pHead, fresh>>
        /\ input' = [input EXCEPT ![w] = wOffset] /\ wOffset' = Null
        /\ \A r \in Readers : pc'[r] = "advance" <=> pc[r] = "advance"
    BY ProcsAssumption DEF WriteFlush, Goto, TypeOK, readVars, envVars, Procs
  <1>4. /\ wOffset \in NodeOrNull /\ input \in [Writers -> NodeOrNull]
        /\ offset \in [Writers -> NodeOrNull]
        /\ pHead \in [Readers -> NodeOrNull] /\ fresh \subseteq Node
    BY DEF TypeOK
  <1>5. Unread' = Unread /\ \A c \in Unread : cell[c] \in Node
    BY <1>3, UnreadFacts DEF Unread, CellAt, cifo_used_count
  <1>6. /\ \A a : Owner("cell", a) # x /\ Owner("pHead", a) # x /\ Owner("offset", a) # x
        /\ \A a : Owner("input", a) # x /\ Owner("fresh", a) # x
    BY OwnersDiffer
  <1>7. wOffset # Null => own[wOffset] = x
    BY <1>1 DEF Owned, GatheredOwned
  <1>8. Inverse2(nont') /\ \A e \in Node : nont.next[e] \in Node /\ own[nont.next[e]] = own[e]
    BY <1>1, <1>3 DEF OwnInv, Inverse2, Owned, OneList, Node
  <1> HIDE DEF x, new
  <1>9. OneList(new)'
    BY <1>2, <1>3, <1>8 DEF OneList
  <1>10. GatheredOwned(new)'
    BY <1>3 DEF GatheredOwned
  <1>11. CellsOwned(new)'
    BY <1>1, <1>2, <1>3, <1>5, <1>6 DEF Owned, CellsOwned
  <1>12. WritersOwned(new)'
    <2>1. ASSUME NEW v \in Writers
          PROVE  /\ offset[v] # Null => /\ new[offset[v]] = Owner("offset", v)
                                        /\ nont.next[offset[v]] = offset[v]
                                        /\ nont.prev[offset[v]] = offset[v]
                 /\ input'[v] # Null => new[input'[v]] = Owner("input", v)
      <3>1. /\ offset[v] \in NodeOrNull /\ input[v] \in NodeOrNull
            /\ input'[v] = IF v = w THEN wOffset ELSE input[v]
        BY <1>3, <1>4
      <3>2. /\ offset[v] # Null => /\ own[offset[v]] = Owner("offset", v)
                                   /\ nont.next[offset[v]] = offset[v]
                                   /\ nont.prev[offset[v]] = offset[v]
            /\ input[v] # Null => own[input[v]] = Owner("input", v)
        BY <1>1 DEF Owned, WritersOwned
      <3> QED BY <1>2, <1>4, <1>6, <1>7, <3>1, <3>2 DEF NodeOrNull, Node
    <2> QED BY <1>3, <2>1 DEF WritersOwned
  <1>13. ReadersOwned(new)'
    BY <1>1, <1>2, <1>3, <1>4, <1>6 DEF Owned, ReadersOwned, NodeOrNull, Node
  <1>14. FreshOwned(new)'
    BY <1>1, <1>2, <1>3, <1>4, <1>6 DEF Owned, FreshOwned
  <1> QED BY <1>8, <1>9, <1>10, <1>11, <1>12, <1>13, <1>14 DEF OwnInv, Owned

(* A store goes to a cell that is not unread.                              *)
LEMMA StoreOwners ==
    ASSUME TypeOK, RingInv, OwnInv, NEW w \in Writers, WriteStore(w)
    PROVE  OwnInv'
  <1>1. PICK own : Owned(own)
    BY DEF OwnInv
  <1>2. /\ UNCHANGED <<nont, wOffset, wCellPos, rCellPos, offset, input, pHead, fresh>>
        /\ cell' = [cell EXCEPT ![wCellPos] = input[w]] /\ cell \in [Pos -> NodeOrNull]
        /\ \A r \in Readers : pc'[r] = "advance" <=> pc[r] = "advance"
    BY ProcsAssumption DEF WriteStore, Goto, TypeOK, readVars, writeVars, envVars, Procs,
       RingInv, WriterView
  <1>3. Unread' = Unread /\ \A c \in Unread : c \in Pos /\ c # wCellPos
    BY <1>2, UnreadFacts DEF Unread, CellAt, cifo_used_count
  <1>4. OneList(own)' /\ GatheredOwned(own)' /\ FreshOwned(own)'
    BY <1>1, <1>2 DEF Owned, OneList, GatheredOwned, FreshOwned
  <1>5. CellsOwned(own)'
    BY <1>1, <1>2, <1>3 DEF Owned, CellsOwned
  <1>6. WritersOwned(own)' /\ ReadersOwned(own)'
    BY <1>1, <1>2 DEF Owned, WritersOwned, ReadersOwned
  <1>7. Inverse2(nont)'
    BY <1>2 DEF OwnInv
  <1> QED BY <1>4, <1>5, <1>6, <1>7 DEF OwnInv, Owned

(* A publish gives the writer's list to the cell.                          *)
LEMMA PublishOwners ==
    ASSUME TypeOK, RingInv, OwnInv, NEW w \in Writers, WritePublish(w)
    PROVE  OwnInv'
  <1>1. PICK own : Owned(own)
    BY DEF OwnInv
  <1>2. PICK c0 : c0 = wCellPos
    OBVIOUS
  <1> DEFINE x == Owner("input", w)
             y == Owner("cell", c0)
             new == Given(own, x, y)
  <1>3. \A e \in Node : new[e] = IF own[e] = x THEN y ELSE own[e]
    BY DEF Given
  <1>4. /\ UNCHANGED <<nont, wOffset, cell, rCellPos, offset, pHead, fresh>>
        /\ wCellPos' = cifo_next_pos(wCellPos) /\ cifo_used_count < CellCnt - 1
        /\ input[w] \in Node /\ cell[c0] = input[w]
        /\ input' = [input EXCEPT ![w] = Null]
        /\ \A r \in Readers : pc'[r] = "advance" <=> pc[r] = "advance"
    BY <1>2, ProcsAssumption DEF WritePublish, Goto, TypeOK, readVars, envVars, Procs, RingInv,
       WriterView, RoomToFlush
  <1>5. /\ wOffset \in NodeOrNull /\ input \in [Writers -> NodeOrNull]
        /\ offset \in [Writers -> NodeOrNull]
        /\ pHead \in [Readers -> NodeOrNull] /\ fresh \subseteq Node
    BY DEF TypeOK
  <1>6. Unread' \subseteq Unread \cup {c0} /\ \A c \in Unread : cell[c] \in Node
    BY <1>2, <1>4, UnreadFacts, UnreadPublish
  <1>7. /\ \A a : Owner("cell", a) # x /\ Owner("pHead", a) # x /\ Owner("offset", a) # x
        /\ \A a : Owner("wOffset", a) # x /\ Owner("fresh", a) # x
        /\ \A v : v # w => Owner("input", v) # x
    BY OwnersDiffer
  <1>8. own[input[w]] = x
    BY <1>1, <1>4, NullAssumption DEF Owned, WritersOwned, Node
  <1>9. Inverse2(nont') /\ \A e \in Node : nont.next[e] \in Node /\ own[nont.next[e]] = own[e]
    BY <1>1, <1>4 DEF OwnInv, Inverse2, Owned, OneList, Node
  <1> HIDE DEF x, new
  <1>10. OneList(new)'
    BY <1>3, <1>4, <1>9 DEF OneList
  <1>11. GatheredOwned(new)'
    BY <1>1, <1>3, <1>4, <1>5, <1>7 DEF Owned, GatheredOwned, NodeOrNull, Node
  <1>12. CellsOwned(new)'
    BY <1>1, <1>3, <1>4, <1>6, <1>7, <1>8 DEF Owned, CellsOwned
  <1>13. WritersOwned(new)'
    <2>1. ASSUME NEW v \in Writers
          PROVE  /\ offset[v] # Null => /\ new[offset[v]] = Owner("offset", v)
                                        /\ nont.next[offset[v]] = offset[v]
                                        /\ nont.prev[offset[v]] = offset[v]
                 /\ input'[v] # Null => new[input'[v]] = Owner("input", v)
      <3>1. /\ offset[v] \in NodeOrNull /\ input[v] \in NodeOrNull
            /\ input'[v] = IF v = w THEN Null ELSE input[v]
        BY <1>4, <1>5
      <3>2. /\ offset[v] # Null => /\ own[offset[v]] = Owner("offset", v)
                                   /\ nont.next[offset[v]] = offset[v]
                                   /\ nont.prev[offset[v]] = offset[v]
            /\ input[v] # Null => own[input[v]] = Owner("input", v)
        BY <1>1 DEF Owned, WritersOwned
      <3> QED BY <1>3, <1>7, <3>1, <3>2 DEF NodeOrNull, Node
    <2> QED BY <1>4, <2>1 DEF WritersOwned
  <1>14. ReadersOwned(new)'
    BY <1>1, <1>3, <1>4, <1>5, <1>7 DEF Owned, ReadersOwned, NodeOrNull, Node
  <1>15. FreshOwned(new)'
    BY <1>1, <1>3, <1>4, <1>5, <1>7 DEF Owned, FreshOwned
  <1> QED BY <1>9, <1>10, <1>11, <1>12, <1>13, <1>14, <1>15 DEF OwnInv, Owned

(* A reader joins the list of the oldest cell to its own, or starts with   *)
(* it: all nodes are the cell's until the reader advances.                 *)
LEMMA CellOwners ==
    ASSUME TypeOK, RingInv, OwnInv, NEW r \in Readers, ReadCell(r)
    PROVE  OwnInv'
  <1>1. PICK own : Owned(own)
    BY DEF OwnInv
  <1>2. PICK c0 : c0 = rCellPos
    OBVIOUS
  <1> DEFINE x == Owner("pHead", r)
             y == Owner("cell", c0)
             new == Given(own, x, y)
  <1>3. x # y
    BY OwnersDiffer
  <1>4. \A e \in Node : new[e] = IF own[e] = x THEN y ELSE own[e]
    BY DEF Given
  <1>5. /\ UNCHANGED <<wOffset, cell, wCellPos, rCellPos, offset, input, fresh>>
        /\ pc[r] = "loop" /\ pc'[r] = "advance"
        /\ \A s \in Readers : s # r => pc'[s] = pc[s]
        /\ cell[c0] \in Node /\ c0 \in Unread
    BY <1>2, UnreadHead, OldestUnread
       DEF ReadCell, More, Goto, TypeOK, chanVars, writeVars, envVars, Procs
  <1>6. own[cell[c0]] = y
    BY <1>1, <1>5 DEF Owned, CellsOwned
  <1>7. /\ pHead'[r] \in Node /\ new[pHead'[r]] = y
        /\ \A s \in Readers : s # r => pHead'[s] = pHead[s]
        /\ Inverse2(nont') /\ \A e \in Node : new[nont'.next[e]] = new[e]
        /\ \A e \in Node : own[e] # x /\ own[e] # y =>
              nont'.next[e] = nont.next[e] /\ nont'.prev[e] = nont.prev[e]
    <2>1. \A e \in Node : own[nont.next[e]] = own[e] /\ nont.next[e] \in Node
      BY <1>1 DEF Owned, OneList, OwnInv, Inverse2, Node
    <2>2. pHead \in [Readers -> NodeOrNull]
      BY DEF TypeOK
    <2> HIDE DEF x, y, new
    <2>3. CASE pHead[r] = Null
      <3>1. nont' = nont /\ pHead' = [pHead EXCEPT ![r] = cell[c0]]
        BY <1>2, <2>3 DEF ReadCell
      <3>2. /\ pHead'[r] = cell[c0] /\ new[cell[c0]] = y
            /\ \A s \in Readers : s # r => pHead'[s] = pHead[s]
        BY <1>4, <1>5, <1>6, <2>2, <3>1
      <3>3. \A e \in Node : new[nont'.next[e]] = new[e]
        BY <1>4, <2>1, <3>1
      <3> QED BY <1>5, <3>1, <3>2, <3>3 DEF OwnInv
    <2>4. CASE pHead[r] # Null
      <3>1. /\ nont' = clist_splice(nont, cell[c0], pHead[r]) /\ pHead' = pHead
            /\ pHead[r] \in Node /\ own[pHead[r]] = x /\ nont \in Links
        BY <1>1, <1>2, <1>5, <2>2, <2>4
           DEF ReadCell, Owned, ReadersOwned, TypeOK, NodeOrNull, Node, x
      <3>2. /\ Inverse2(nont')
            /\ \A e \in Node : \/ own[nont'.next[e]] = own[e]
                               \/ own[nont'.next[e]] \in {x, y} /\ own[e] \in {x, y}
            /\ \A e \in Node : own[e] # x /\ own[e] # y =>
                  nont'.next[e] = nont.next[e] /\ nont'.prev[e] = nont.prev[e]
        <4>1. own[cell[c0]] # own[pHead[r]] /\ Inverse2(nont)
          BY <1>3, <1>6, <3>1 DEF OwnInv
        <4> QED BY <1>5, <1>6, <2>1, <3>1, <4>1, SpliceOwners
      <3>3. \A e \in Node : nont'.next[e] \in Node
        BY <3>2 DEF Inverse2, Node
      <3>4. \A e \in Node : new[nont'.next[e]] = new[e]
        BY <1>4, <3>2, <3>3
      <3>5. new[pHead[r]] = y
        BY <1>4, <3>1
      <3> QED BY <3>1, <3>2, <3>4, <3>5
    <2> QED BY <2>3, <2>4
  <1>8. Unread' = Unread /\ \A c \in Unread : cell[c] \in Node
    BY <1>5, UnreadFacts DEF Unread, CellAt, cifo_used_count
  <1>9. /\ wOffset \in NodeOrNull /\ input \in [Writers -> NodeOrNull]
        /\ offset \in [Writers -> NodeOrNull]
        /\ pHead \in [Readers -> NodeOrNull] /\ fresh \subseteq Node
    BY DEF TypeOK
  <1>10. /\ \A a : Owner("cell", a) # x /\ Owner("input", a) # x /\ Owner("offset", a) # x
         /\ \A a : Owner("wOffset", a) # x /\ Owner("fresh", a) # x
         /\ \A a : Owner("offset", a) # y /\ Owner("fresh", a) # y
         /\ \A s : s # r => Owner("pHead", s) # x
    BY OwnersDiffer
  <1> HIDE DEF x, new
  <1>11. OneList(new)'
    BY <1>7 DEF OneList
  <1>12. ReadersOwned(new)'
    <2>1. ASSUME NEW s \in Readers, s # r
          PROVE  /\ pHead[s] \in NodeOrNull /\ pHead'[s] = pHead[s] /\ pc'[s] = pc[s]
                 /\ IF pc[s] = "advance"
                    THEN pHead[s] # Null /\ own[pHead[s]] = Owner("cell", rCellPos)
                    ELSE pHead[s] # Null => own[pHead[s]] = Owner("pHead", s)
      BY <1>1, <1>5, <1>7, <1>9, <2>1 DEF Owned, ReadersOwned
    <2>2. ASSUME NEW s \in Readers, s # r
          PROVE  IF pc'[s] = "advance"
                 THEN pHead'[s] # Null /\ new[pHead'[s]] = Owner("cell", rCellPos)
                 ELSE pHead'[s] # Null => new[pHead'[s]] = Owner("pHead", s)
      BY <1>4, <1>10, <2>1, <2>2 DEF NodeOrNull, Node
    <2>3. pHead'[r] # Null /\ new[pHead'[r]] = Owner("cell", rCellPos)
      BY <1>2, <1>7, NullAssumption DEF Node
    <2> QED BY <1>5, <2>2, <2>3 DEF ReadersOwned
  <1> HIDE DEF y
  <1>13. GatheredOwned(new)'
    BY <1>1, <1>4, <1>5, <1>9, <1>10 DEF Owned, GatheredOwned, NodeOrNull, Node
  <1>14. CellsOwned(new)'
    BY <1>1, <1>4, <1>5, <1>8, <1>10 DEF Owned, CellsOwned
  <1>15. WritersOwned(new)'
    <2>1. ASSUME NEW v \in Writers
          PROVE  /\ offset[v] # Null => /\ new[offset[v]] = Owner("offset", v)
                                        /\ nont'.next[offset[v]] = offset[v]
                                        /\ nont'.prev[offset[v]] = offset[v]
                 /\ input[v] # Null => new[input[v]] = Owner("input", v)
      <3>1. offset[v] \in NodeOrNull /\ input[v] \in NodeOrNull
        BY <1>9
      <3>2. /\ offset[v] # Null => /\ own[offset[v]] = Owner("offset", v)
                                   /\ nont.next[offset[v]] = offset[v]
                                   /\ nont.prev[offset[v]] = offset[v]
            /\ input[v] # Null => own[input[v]] = Owner("input", v)
        BY <1>1 DEF Owned, WritersOwned
      <3> QED BY <1>4, <1>7, <1>10, <3>1, <3>2 DEF NodeOrNull, Node
    <2> QED BY <1>5, <2>1 DEF WritersOwned
  <1>16. FreshOwned(new)'
    BY <1>1, <1>4, <1>5, <1>7, <1>9, <1>10 DEF Owned, FreshOwned
  <1> QED BY <1>7, <1>11, <1>12, <1>13, <1>14, <1>15, <1>16 DEF OwnInv, Owned

(* An advance gives the list of the oldest cell to the one reader.         *)
LEMMA AdvanceOwners ==
    ASSUME Configured, TypeOK, RingInv, OwnInv, NEW r \in Readers, ReadAdvance(r)
    PROVE  OwnInv'
  <1>1. PICK own : Owned(own)
    BY DEF OwnInv
  <1>2. PICK c0 : c0 = rCellPos
    OBVIOUS
  <1> DEFINE x == Owner("cell", c0)
             y == Owner("pHead", r)
             new == Given(own, x, y)
  <1>3. \A e \in Node : new[e] = IF own[e] = x THEN y ELSE own[e]
    BY DEF Given
  <1>4. /\ UNCHANGED <<nont, wOffset, cell, wCellPos, offset, input, pHead, fresh>>
        /\ pc[r] = "advance" /\ pc'[r] = "loop" /\ Readers = {r}
        /\ rCellPos' = cifo_next_pos(rCellPos) /\ wCellPos # rCellPos
    BY UnreadHead DEF ReadAdvance, Goto, TypeOK, writeVars, envVars, Procs, Configured,
       OneReader, RingInv, ReaderView
  <1>5. /\ wOffset \in NodeOrNull /\ input \in [Writers -> NodeOrNull]
        /\ offset \in [Writers -> NodeOrNull]
        /\ pHead[r] \in NodeOrNull /\ fresh \subseteq Node
    BY DEF TypeOK
  <1>6. Unread' \subseteq Unread \ {c0} /\ \A c \in Unread : cell[c] \in Node
    BY <1>2, <1>4, UnreadFacts, UnreadAdvance
  <1>7. /\ \A a : Owner("input", a) # x /\ Owner("offset", a) # x
        /\ \A a : Owner("wOffset", a) # x /\ Owner("fresh", a) # x
        /\ \A c : c # c0 => Owner("cell", c) # x
    BY OwnersDiffer
  <1>8. pHead[r] # Null /\ own[pHead[r]] = x
    BY <1>1, <1>2, <1>4 DEF Owned, ReadersOwned
  <1>9. Inverse2(nont') /\ \A e \in Node : nont.next[e] \in Node /\ own[nont.next[e]] = own[e]
    BY <1>1, <1>4 DEF OwnInv, Inverse2, Owned, OneList, Node
  <1> HIDE DEF x, new
  <1>10. OneList(new)'
    BY <1>3, <1>4, <1>9 DEF OneList
  <1>11. GatheredOwned(new)'
    BY <1>1, <1>3, <1>4, <1>5, <1>7 DEF Owned, GatheredOwned, NodeOrNull, Node
  <1>12. CellsOwned(new)'
    BY <1>1, <1>3, <1>4, <1>6, <1>7 DEF Owned, CellsOwned
  <1>13. WritersOwned(new)'
    BY <1>1, <1>3, <1>4, <1>5, <1>7 DEF Owned, WritersOwned, NodeOrNull, Node
  <1>14. ReadersOwned(new)'
    BY <1>3, <1>4, <1>5, <1>8 DEF ReadersOwned, NodeOrNull, Node
  <1>15. FreshOwned(new)'
    BY <1>1, <1>3, <1>4, <1>5, <1>7 DEF Owned, FreshOwned
  <1> QED BY <1>9, <1>10, <1>11, <1>12, <1>13, <1>14, <1>15 DEF OwnInv, Owned

(* The list at an offset stays with the offset's owner, and no link of a   *)
(* node outside it leads into it.                                          *)
LEMMA ListOwner ==
    ASSUME Inverse2(nont), NEW own, OneList(own), NEW h \in NodeOrNull
    PROVE  /\ NodesAt(h) \subseteq Node
           /\ h = Null => NodesAt(h) = {}
           /\ \A e \in NodesAt(h) : h # Null /\ own[e] = own[h]
           /\ \A e \in Node : e \notin NodesAt(h) => /\ nont.next[e] \notin NodesAt(h)
                                                     /\ nont.prev[e] \notin NodesAt(h)
  <1> DEFINE got == NodesAt(h)
  <1>1. CASE h = Null
    <2>1. ListAt(nont, h) = <<>> /\ DOMAIN <<>> = {}
      BY <1>1 DEF ListAt
    <2>2. got = {}
      BY <2>1 DEF NodesAt
    <2> HIDE DEF got
    <2> QED BY <1>1, <2>2 DEF got
  <1>2. CASE h # Null
    <2>1. h \in Entries /\ got = RingSet(nont, h)
      BY <1>2 DEF ListAt, RingSet, NodeOrNull, NodesAt
    <2> HIDE DEF got
    <2>2. /\ got \subseteq Node
          /\ \A e \in got : nont.next[e] \in got /\ nont.prev[e] \in got
      BY <2>1, RingIsClosed DEF Node
    <2> DEFINE S == {e \in Node : own[e] = own[h]}
    <2>3. h \in S /\ \A e \in S : nont.next[e] \in S
      BY <2>1 DEF Inverse2, OneList, Node
    <2>4. got \subseteq S
      <3> HIDE DEF S
      <3> QED BY <2>1, <2>3, RingIsLeast
    <2>5. ASSUME NEW e \in Node, e \notin got PROVE nont.next[e] \notin got /\ nont.prev[e] \notin got
      BY <2>2, <2>5 DEF Inverse2, Node
    <2> QED BY <1>2, <2>2, <2>4, <2>5 DEF got
  <1> QED BY <1>1, <1>2

(* The caller of cifo_read gives all nodes of its list back, and no other. *)
LEMMA ConsumeOwners ==
    ASSUME TypeOK, RingInv, OwnInv, NEW r \in Readers, Consume(r)
    PROVE  OwnInv'
  <1>1. PICK own : Owned(own)
    BY DEF OwnInv
  <1>2. PICK got : got = NodesAt(pHead[r])
    OBVIOUS
  <1> DEFINE x == Owner("pHead", r)
  <1>3. PICK new : new = [e \in Node |-> IF e \in got THEN Owner("fresh", 0) ELSE own[e]]
    OBVIOUS
  <1>4. \A e \in Node : new[e] = IF e \in got THEN Owner("fresh", 0) ELSE own[e]
    BY <1>3
  <1>5. /\ Inverse2(nont) /\ \A e \in Node : own[nont.next[e]] = own[e]
        /\ pHead[r] \in NodeOrNull
        /\ got = {ListAt(nont, pHead[r])[i] : i \in DOMAIN ListAt(nont, pHead[r])}
    BY <1>1, <1>2 DEF OwnInv, Owned, OneList, TypeOK, NodesAt
  <1>6. /\ got \subseteq Node
        /\ \A e \in got : pHead[r] # Null /\ own[e] = own[pHead[r]]
        /\ \A e \in Node : e \notin got => nont.next[e] \notin got /\ nont.prev[e] \notin got
    BY <1>1, <1>2, <1>5, ListOwner DEF Owned
  <1>7. \A e \in got : own[e] = x
    BY <1>1, <1>6 DEF Owned, ReadersOwned, Consume, Goto
  <1>8. /\ UNCHANGED <<wOffset, cell, wCellPos, rCellPos, offset, input>>
        /\ fresh' = fresh \cup got
        /\ nont' = [next |-> [e \in Node |-> IF e \in got THEN e ELSE nont.next[e]],
                    prev |-> [e \in Node |-> IF e \in got THEN e ELSE nont.prev[e]]]
        /\ pHead' = [pHead EXCEPT ![r] = Null]
        /\ \A s \in Readers : pc'[s] = "advance" <=> pc[s] = "advance"
    <2>1. got = {n \in Node : \E i \in DOMAIN ListAt(nont, pHead[r]) : ListAt(nont, pHead[r])[i] = n}
      BY <1>5, <1>6
    <2> QED BY <2>1 DEF Consume, Goto, TypeOK, chanVars, writeVars, Procs, Node
  <1>9. \A e \in Node : /\ nont'.next[e] = IF e \in got THEN e ELSE nont.next[e]
                        /\ nont'.prev[e] = IF e \in got THEN e ELSE nont.prev[e]
    BY <1>8
  <1>10. /\ wOffset \in NodeOrNull /\ input \in [Writers -> NodeOrNull]
         /\ offset \in [Writers -> NodeOrNull]
         /\ pHead \in [Readers -> NodeOrNull] /\ fresh \subseteq Node
    BY DEF TypeOK
  <1>11. Unread' = Unread /\ \A c \in Unread : cell[c] \in Node
    BY <1>8, UnreadFacts DEF Unread, CellAt, cifo_used_count
  <1>12. /\ \A a : Owner("input", a) # x /\ Owner("offset", a) # x
         /\ \A a : Owner("wOffset", a) # x /\ Owner("cell", a) # x
         /\ \A s : s # r => Owner("pHead", s) # x
    BY OwnersDiffer
  <1>13. \A e \in Node : own[e] # x => /\ new[e] = own[e] /\ nont'.next[e] = nont.next[e]
                                       /\ nont'.prev[e] = nont.prev[e]
    BY <1>4, <1>7, <1>9
  <1>14. \A e \in Node : /\ nont.next[e] \in Node /\ nont.prev[e] \in Node
                         /\ nont.prev[nont.next[e]] = e /\ nont.next[nont.prev[e]] = e
    BY <1>5 DEF Inverse2, Node
  <1> HIDE DEF x
  <1>15. Inverse2(nont)'
    <2>1. ASSUME NEW e \in Node
          PROVE  /\ nont'.next[e] \in Node /\ nont'.prev[e] \in Node
                 /\ nont'.prev[nont'.next[e]] = e /\ nont'.next[nont'.prev[e]] = e
      BY <1>6, <1>9, <1>14
    <2> QED BY <2>1 DEF Inverse2, Node
  <1>16. OneList(new)'
    BY <1>4, <1>5, <1>6, <1>9, <1>14 DEF OneList
  <1>17. GatheredOwned(new)' /\ CellsOwned(new)'
    BY <1>1, <1>8, <1>10, <1>11, <1>12, <1>13
       DEF Owned, GatheredOwned, CellsOwned, NodeOrNull, Node
  <1>18. WritersOwned(new)'
    <2>1. ASSUME NEW v \in Writers
          PROVE  /\ offset[v] # Null => /\ new[offset[v]] = Owner("offset", v)
                                        /\ nont'.next[offset[v]] = offset[v]
                                        /\ nont'.prev[offset[v]] = offset[v]
                 /\ input[v] # Null => new[input[v]] = Owner("input", v)
      <3>1. offset[v] \in NodeOrNull /\ input[v] \in NodeOrNull
        BY <1>10
      <3>2. /\ offset[v] # Null => /\ own[offset[v]] = Owner("offset", v)
                                   /\ nont.next[offset[v]] = offset[v]
                                   /\ nont.prev[offset[v]] = offset[v]
            /\ input[v] # Null => own[input[v]] = Owner("input", v)
        BY <1>1 DEF Owned, WritersOwned
      <3> QED BY <1>12, <1>13, <3>1, <3>2 DEF NodeOrNull, Node
    <2> QED BY <1>8, <2>1 DEF WritersOwned
  <1>19. ReadersOwned(new)'
    <2>1. ASSUME NEW s \in Readers
          PROVE  IF pc'[s] = "advance"
                 THEN pHead'[s] # Null /\ new[pHead'[s]] = Owner("cell", rCellPos)
                 ELSE pHead'[s] # Null => new[pHead'[s]] = Owner("pHead", s)
      <3>1. /\ pHead[s] \in NodeOrNull /\ pHead'[s] = IF s = r THEN Null ELSE pHead[s]
            /\ IF pc[s] = "advance"
               THEN pHead[s] # Null /\ own[pHead[s]] = Owner("cell", rCellPos)
               ELSE pHead[s] # Null => own[pHead[s]] = Owner("pHead", s)
        BY <1>1, <1>8, <1>10 DEF Owned, ReadersOwned
      <3>2. pc'[r] # "advance"
        BY <1>8 DEF Consume, Goto
      <3> QED BY <1>8, <1>12, <1>13, <3>1, <3>2 DEF NodeOrNull, Node
    <2> QED BY <1>8, <2>1 DEF ReadersOwned
  <1>20. FreshOwned(new)'
    BY <1>1, <1>4, <1>6, <1>8, <1>9, <1>10 DEF Owned, FreshOwned
  <1> QED BY <1>15, <1>16, <1>17, <1>18, <1>19, <1>20 DEF OwnInv, Owned

(* The nodes a dead process held stay where they are: nobody's.            *)
LEMMA CrashOwners ==
    ASSUME TypeOK, OwnInv, NEW p \in Procs, Crash(p)
    PROVE  OwnInv'
  <1>1. PICK own : Owned(own)
    BY DEF OwnInv
  <1>2. /\ UNCHANGED <<nont, wOffset, cell, wCellPos, rCellPos, fresh>>
        /\ \A w \in Writers : offset'[w] \in {offset[w], Null} /\ input'[w] \in {input[w], Null}
        /\ \A r \in Readers : \/ pc'[r] # "advance" /\ pHead'[r] = Null
                              \/ pc'[r] = pc[r] /\ pHead'[r] = pHead[r]
    BY DEF Crash, TypeOK, chanVars, Procs
  <1>3. Unread' = Unread
    BY <1>2 DEF Unread, CellAt, cifo_used_count
  <1>4. OneList(own)' /\ GatheredOwned(own)' /\ CellsOwned(own)' /\ FreshOwned(own)'
    BY <1>1, <1>2, <1>3 DEF Owned, OneList, GatheredOwned, CellsOwned, FreshOwned
  <1>5. WritersOwned(own)' /\ ReadersOwned(own)'
    BY <1>1, <1>2 DEF Owned, WritersOwned, ReadersOwned
  <1>6. Inverse2(nont)'
    BY <1>2 DEF OwnInv
  <1> QED BY <1>4, <1>5, <1>6 DEF OwnInv, Owned

(* Every step of the channel keeps one owner per node.                     *)
LEMMA OwnStep ==
    ASSUME Configured, TypeOK, RingInv, OwnInv, [Next]_vars
    PROVE  OwnInv'
  <1> USE DEF Goto, chanVars, readVars, writeVars, envVars
  <1>0. /\ pc \in [Procs -> WriterPC \cup ReaderPC]
        /\ Writers \subseteq Procs /\ Readers \subseteq Procs /\ \A w \in Writers : w \notin Readers
    BY ProcsAssumption DEF TypeOK, Procs
  <1>1. ASSUME NEW w \in Writers, NEW n \in Node, WriteCall(w, n) PROVE OwnInv'
    BY <1>1, CallOwners
  <1>2. ASSUME NEW w \in Writers, WriteP(w) PROVE OwnInv'
    BY <1>0, <1>2, QuietOwners DEF WriteP
  <1>3. ASSUME NEW w \in Writers, WriteReadPos(w) PROVE OwnInv'
    BY <1>0, <1>3, QuietOwners DEF WriteReadPos
  <1>4. ASSUME NEW w \in Writers, WriteFull(w) PROVE OwnInv'
    BY <1>4, FullOwners
  <1>5. ASSUME NEW w \in Writers, WriteBuffer(w) PROVE OwnInv'
    BY <1>5, BufferOwners
  <1>6. ASSUME NEW w \in Writers, WriteCount(w) PROVE OwnInv'
    BY <1>0, <1>6, QuietOwners DEF WriteCount
  <1>7. ASSUME NEW w \in Writers, WriteFlush(w) PROVE OwnInv'
    BY <1>7, FlushOwners
  <1>8. ASSUME NEW w \in Writers, WriteKeep(w) PROVE OwnInv'
    BY <1>0, <1>8, QuietOwners DEF WriteKeep
  <1>9. ASSUME NEW w \in Writers, WriteStore(w) PROVE OwnInv'
    BY <1>9, StoreOwners
  <1>10. ASSUME NEW w \in Writers, WritePublish(w) PROVE OwnInv'
    BY <1>10, PublishOwners
  <1>11. ASSUME NEW w \in Writers, WriteV(w) PROVE OwnInv'
    BY <1>0, <1>11, QuietOwners DEF WriteV
  <1>12. ASSUME NEW r \in Readers, ReadP(r) PROVE OwnInv'
    BY <1>0, <1>12, QuietOwners DEF ReadP
  <1>13. ASSUME NEW r \in Readers, ReadSnap(r) PROVE OwnInv'
    BY <1>0, <1>13, QuietOwners DEF ReadSnap
  <1>14. ASSUME NEW r \in Readers, ReadCell(r) PROVE OwnInv'
    BY <1>14, CellOwners
  <1>15. ASSUME NEW r \in Readers, ReadAdvance(r) PROVE OwnInv'
    BY <1>15, AdvanceOwners
  <1>16. ASSUME NEW r \in Readers, ReadReturn(r) PROVE OwnInv'
    BY <1>0, <1>16, QuietOwners DEF ReadReturn
  <1>17. ASSUME NEW r \in Readers, Consume(r) PROVE OwnInv'
    BY <1>17, ConsumeOwners
  <1>18. ASSUME NEW n \in WTune, SetWBuffCnt(n) PROVE OwnInv'
    BY <1>0, <1>18, QuietOwners DEF SetWBuffCnt
  <1>19. ASSUME NEW n \in RTune, SetRBuffCnt(n) PROVE OwnInv'
    BY <1>0, <1>19, QuietOwners DEF SetRBuffCnt
  <1>20. ASSUME NEW p \in Procs, Crash(p) PROVE OwnInv'
    BY <1>20, CrashOwners
  <1>21. ASSUME UNCHANGED vars PROVE OwnInv'
    BY <1>21, QuietOwners DEF vars
  <1> QED BY <1>1, <1>2, <1>3, <1>4, <1>5, <1>6, <1>7, <1>8, <1>9, <1>10,
             <1>11, <1>12, <1>13, <1>14, <1>15, <1>16, <1>17, <1>18, <1>19, <1>20,
             <1>21, NextCases

(* In a new channel all nodes are fresh, each in a list of its own.        *)
LEMMA OwnStart ==
    ASSUME Init
    PROVE  OwnInv
  <1>1. PICK own : own = [e \in Node |-> Owner("fresh", 0)]
    OBVIOUS
  <1>2. \A e \in Node : own[e] = Owner("fresh", 0) /\ nont.next[e] = e /\ nont.prev[e] = e
    BY <1>1 DEF Init, SelfLinks, Node
  <1>3. Inverse2(nont) /\ OneList(own)
    BY <1>2 DEF Inverse2, OneList, Node
  <1>4. Unread = {}
    BY DEF Init, Unread, cifo_used_count, cifo_get_count
  <1>5. /\ GatheredOwned(own) /\ CellsOwned(own) /\ WritersOwned(own) /\ FreshOwned(own)
    BY <1>2, <1>4 DEF Init, GatheredOwned, CellsOwned, WritersOwned, FreshOwned
  <1>6. ReadersOwned(own)
    BY DEF Init, ReadersOwned, Procs
  <1> QED BY <1>3, <1>5, <1>6 DEF OwnInv, Owned

(* The node an offset leads to belongs to the place the offset is kept at. *)
LEMMA PlaceOwner ==
    ASSUME TypeOK, RingInv, NEW own, Owned(own), NEW p \in Places
    PROVE  OffsetAt(p) \in NodeOrNull /\ (OffsetAt(p) # Null => own[OffsetAt(p)] = p)
  <1>0. /\ wOffset \in NodeOrNull /\ input \in [Writers -> NodeOrNull]
        /\ offset \in [Writers -> NodeOrNull] /\ pHead \in [Readers -> NodeOrNull]
    BY DEF TypeOK
  <1>1. CASE p \in [tag : {"cell"}, at : Unread]
    <2>1. PICK c \in Unread : p = Owner("cell", c)
      BY <1>1 DEF Owner
    <2>2. OffsetAt(p) = cell[c]
      BY <2>1 DEF OffsetAt, Owner
    <2> QED BY <2>1, <2>2, UnreadFacts DEF Owned, CellsOwned, NodeOrNull, Node
  <1>2. CASE p \in [tag : {"wOffset"}, at : {0}]
    <2>1. p = Owner("wOffset", 0)
      BY <1>2 DEF Owner
    <2>2. OffsetAt(p) = wOffset
      BY <2>1 DEF OffsetAt, Owner
    <2> QED BY <1>0, <2>1, <2>2 DEF Owned, GatheredOwned
  <1>3. CASE p \in [tag : {"offset", "input"}, at : Writers]
    <2>1. PICK w \in Writers : p = Owner("offset", w) \/ p = Owner("input", w)
      BY <1>3 DEF Owner
    <2>2. CASE p = Owner("offset", w)
      <3>1. OffsetAt(p) = offset[w]
        BY <2>2 DEF OffsetAt, Owner
      <3> QED BY <1>0, <2>2, <3>1 DEF Owned, WritersOwned
    <2>3. CASE p = Owner("input", w)
      <3>1. OffsetAt(p) = input[w]
        BY <2>3 DEF OffsetAt, Owner
      <3> QED BY <1>0, <2>3, <3>1 DEF Owned, WritersOwned
    <2> QED BY <2>1, <2>2, <2>3
  <1>4. CASE p \in [tag : {"pHead"}, at : {r \in Readers : pc[r] # "advance"}]
    <2>1. PICK r \in Readers : pc[r] # "advance" /\ p = Owner("pHead", r)
      BY <1>4 DEF Owner
    <2>2. OffsetAt(p) = pHead[r]
      BY <2>1 DEF OffsetAt, Owner
    <2> QED BY <1>0, <2>1, <2>2 DEF Owned, ReadersOwned
  <1> QED BY <1>1, <1>2, <1>3, <1>4 DEF Places, Unread

(* With one owner per node, no two places lead to the same node.           *)
LEMMA OwnersSeparate ==
    ASSUME TypeOK, RingInv, OwnInv
    PROVE  AtMostOnce
  <1>1. PICK own : Owned(own)
    BY DEF OwnInv
  <1>2. ASSUME NEW p \in Places, NEW e \in NodesAt(OffsetAt(p)) PROVE own[e] = p
    <2>1. OffsetAt(p) \in NodeOrNull /\ (OffsetAt(p) # Null => own[OffsetAt(p)] = p)
      BY <1>1, PlaceOwner
    <2>2. OffsetAt(p) # Null /\ own[e] = own[OffsetAt(p)]
      BY <1>1, <2>1, ListOwner DEF OwnInv, Owned
    <2> QED BY <2>1, <2>2
  <1>3. \A p, q \in Places : p # q => NodesAt(OffsetAt(p)) \cap NodesAt(OffsetAt(q)) = {}
    BY <1>2
  <1>4. Owner("fresh", 0) \notin Places
    BY DEF Places, Owner
  <1>5. \A p \in Places : NodesAt(OffsetAt(p)) \cap fresh = {}
    BY <1>1, <1>2, <1>4 DEF Owned, FreshOwned
  <1> QED BY <1>3, <1>5 DEF AtMostOnce

(* No node is reachable from two places of a channel, nor from one while   *)
(* it is fresh, although cifo_write and cifo_read splice the lists in      *)
(* shared memory and processes die anywhere in them: nothing is delivered  *)
(* or freed twice.                                                         *)
THEOREM NoNodeTwice ==
    ASSUME Configured
    PROVE  Spec => []AtMostOnce
  <1>1. Spec => [](TypeOK /\ RingInv)
    BY ChannelInvariant
  <1>2. Init => OwnInv
    BY OwnStart
  <1>3. TypeOK /\ RingInv /\ OwnInv /\ [Next]_vars => OwnInv'
    BY OwnStep
  <1>4. TypeOK /\ RingInv /\ OwnInv => AtMostOnce
    BY OwnersSeparate
  <1> QED BY <1>1, <1>2, <1>3, <1>4, PTL DEF Spec

-----------------------------------------------------------------------------
(* Joined lists                                                            *)

USE DEF Node

(* Joined is what its definition says: the recursion has a solution.       *)
LEMMA JoinedIs ==
    ASSUME NEW lists \in [1 .. CellCnt -> Seq(Node)], NEW k \in Nat
    PROVE  /\ Joined(lists, k) \in [0 .. CellCnt -> Seq(Node)]
           /\ \A i \in 0 .. CellCnt :
                 Joined(lists, k)[i] = IF i <= k THEN <<>> ELSE Joined(lists, k)[i - 1] \o lists[i]
  <1> USE CellCntAssumption
  <1> DEFINE n == CellCnt
             g == [i \in 1 .. n |-> [s \in Seq(Node) |-> IF i <= k THEN <<>> ELSE s \o lists[i]]]
             Q(f) == f = [i \in 0 .. n |-> IF i <= k THEN <<>> ELSE f[i - 1] \o lists[i]]
  <1>1. <<>> \in Seq(Node) /\ g \in [1 .. n -> [Seq(Node) -> Seq(Node)]]
    <2>1. \A i \in 1 .. n : \A s \in Seq(Node) : (IF i <= k THEN <<>> ELSE s \o lists[i]) \in Seq(Node)
      OBVIOUS
    <2> QED BY <2>1
  <1>2. PICK f \in [0 .. n -> Seq(Node)] : IsWalk(f, <<>>, g, n)
    <2> HIDE DEF g
    <2> QED BY <1>1, WalkExists
  <1>3. ASSUME NEW i \in 0 .. n PROVE f[i] = IF i <= k THEN <<>> ELSE f[i - 1] \o lists[i]
    <2>1. CASE i = 0
      BY <1>2, <2>1 DEF IsWalk
    <2>2. CASE i # 0
      <3>1. i \in 1 .. n /\ i - 1 \in 0 .. n /\ f[i - 1] \in Seq(Node)
        BY <2>2
      <3>2. f[i] = g[i][f[i - 1]]
        <4> HIDE DEF g
        <4> QED BY <1>2, <3>1 DEF IsWalk
      <3> QED BY <3>1, <3>2
    <2> QED BY <2>1, <2>2
  <1>4. Q(f)
    <2> HIDE DEF g
    <2>1. f = [i \in 0 .. n |-> f[i]]
      OBVIOUS
    <2> QED BY <1>3, <2>1
  <1>5. Q(CHOOSE f1 : Q(f1))
    <2> HIDE DEF Q
    <2> QED BY <1>4
  <1>6. Joined(lists, k) = CHOOSE f1 : Q(f1)
    BY DEF Joined
  <1> DEFINE J == Joined(lists, k)
  <1>7. Q(J)
    <2> HIDE DEF Q
    <2> QED BY <1>5, <1>6
  <1> HIDE DEF J
  <1>8. \A i \in 0 .. n : J[i] = IF i <= k THEN <<>> ELSE J[i - 1] \o lists[i]
    BY <1>7
  <1>9. DOMAIN J = 0 .. n /\ J = [i \in 0 .. n |-> J[i]]
    BY <1>7
  <1> HIDE DEF Q
  <1> DEFINE T == {i \in Nat : i <= n => J[i] \in Seq(Node)}
  <1>10. 0 \in T
    <2>1. 0 \in 0 .. n /\ 0 <= k
      OBVIOUS
    <2> QED BY <1>1, <1>8, <2>1
  <1>11. ASSUME NEW i \in Nat, i \in T PROVE i + 1 \in T
    <2> SUFFICES ASSUME i + 1 <= n PROVE J[i + 1] \in Seq(Node)
      OBVIOUS
    <2>1. i + 1 \in 0 .. n /\ i + 1 \in 1 .. n /\ (i + 1) - 1 = i /\ J[i] \in Seq(Node)
      BY <1>11
    <2>2. lists[i + 1] \in Seq(Node)
      BY <2>1
    <2>3. J[i] \o lists[i + 1] \in Seq(Node)
      BY <2>1, <2>2
    <2> QED BY <1>1, <1>8, <2>1, <2>3
  <1>12. \A i \in Nat : i \in T
    <2> HIDE DEF T
    <2> QED BY <1>10, <1>11, InductionOnSet
  <1>13. J \in [0 .. n -> Seq(Node)]
    BY <1>9, <1>12
  <1> QED BY <1>8, <1>13 DEF J

(* Lists that agree where they are joined are joined to the same.          *)
LEMMA JoinedSame ==
    ASSUME NEW a \in [1 .. CellCnt -> Seq(Node)], NEW b \in [1 .. CellCnt -> Seq(Node)],
           NEW k \in Nat, NEW n \in 0 .. CellCnt, \A i \in k + 1 .. n : a[i] = b[i]
    PROVE  Joined(a, k)[n] = Joined(b, k)[n]
  <1> USE CellCntAssumption
  <1> DEFINE A == Joined(a, k)
             B == Joined(b, k)
             T == {i \in Nat : i <= n => A[i] = B[i]}
  <1>1. \A i \in 0 .. CellCnt : /\ A[i] = IF i <= k THEN <<>> ELSE A[i - 1] \o a[i]
                                /\ B[i] = IF i <= k THEN <<>> ELSE B[i - 1] \o b[i]
    BY JoinedIs
  <1> HIDE DEF A, B
  <1>2. 0 \in T
    <2>1. 0 \in 0 .. CellCnt /\ 0 <= k
      OBVIOUS
    <2> QED BY <1>1, <2>1
  <1>3. ASSUME NEW i \in Nat, i \in T PROVE i + 1 \in T
    <2> SUFFICES ASSUME i + 1 <= n PROVE A[i + 1] = B[i + 1]
      OBVIOUS
    <2>1. i + 1 \in 0 .. CellCnt /\ (i + 1) - 1 = i /\ A[i] = B[i]
      BY <1>3
    <2>2. i + 1 <= k \/ i + 1 \in k + 1 .. n
      OBVIOUS
    <2>3. CASE i + 1 <= k
      BY <1>1, <2>1, <2>3
    <2>4. CASE ~(i + 1 <= k)
      <3>1. a[i + 1] = b[i + 1]
        BY <2>2, <2>4
      <3>2. A[i + 1] = A[i] \o a[i + 1] /\ B[i + 1] = B[i] \o b[i + 1]
        BY <1>1, <2>1, <2>4
      <3> QED BY <2>1, <3>1, <3>2
    <2> QED BY <2>3, <2>4
  <1>4. n \in T
    <2>1. n \in Nat
      OBVIOUS
    <2> HIDE DEF T
    <2> QED BY <1>2, <1>3, <2>1, InductionOnSet
  <1> QED BY <1>4 DEF A, B

(* Taking the first list away from the front is leaving it out.            *)
LEMMA JoinedShift ==
    ASSUME NEW a \in [1 .. CellCnt -> Seq(Node)], NEW b \in [1 .. CellCnt -> Seq(Node)],
           NEW n \in Nat, n + 1 <= CellCnt, \A i \in 1 .. n : b[i] = a[i + 1]
    PROVE  Joined(b, 0)[n] = Joined(a, 1)[n + 1]
  <1> USE CellCntAssumption
  <1> DEFINE A == Joined(a, 1)
             B == Joined(b, 0)
             T == {i \in Nat : i <= n => B[i] = A[i + 1]}
  <1>1. \A i \in 0 .. CellCnt : /\ A[i] = IF i <= 1 THEN <<>> ELSE A[i - 1] \o a[i]
                                /\ B[i] = IF i <= 0 THEN <<>> ELSE B[i - 1] \o b[i]
    <2>1. \A i \in 0 .. CellCnt : A[i] = IF i <= 1 THEN <<>> ELSE A[i - 1] \o a[i]
      BY JoinedIs, ZenonT(30)
    <2>2. \A i \in 0 .. CellCnt : B[i] = IF i <= 0 THEN <<>> ELSE B[i - 1] \o b[i]
      BY JoinedIs, ZenonT(30)
    <2> HIDE DEF A, B
    <2> QED BY <2>1, <2>2
  <1> HIDE DEF A, B
  <1>2. 0 \in T
    <2>1. 0 \in 0 .. CellCnt /\ 1 \in 0 .. CellCnt /\ 0 + 1 = 1
      OBVIOUS
    <2> QED BY <1>1, <2>1
  <1>3. ASSUME NEW i \in Nat, i \in T PROVE i + 1 \in T
    <2> SUFFICES ASSUME i + 1 <= n PROVE B[i + 1] = A[(i + 1) + 1]
      OBVIOUS
    <2>1. /\ i + 1 \in 0 .. CellCnt /\ (i + 1) - 1 = i /\ ~(i + 1 <= 0) /\ i + 1 \in 1 .. n
          /\ (i + 1) + 1 \in 0 .. CellCnt /\ ((i + 1) + 1) - 1 = i + 1 /\ ~((i + 1) + 1 <= 1)
          /\ B[i] = A[i + 1]
      BY <1>3
    <2>2. B[i + 1] = B[i] \o b[i + 1] /\ A[(i + 1) + 1] = A[i + 1] \o a[(i + 1) + 1]
      BY <1>1, <2>1
    <2> QED BY <2>1, <2>2
  <1>4. n \in T
    <2> HIDE DEF T
    <2> QED BY <1>2, <1>3, InductionOnSet
  <1> QED BY <1>4 DEF A, B

(* The first list comes first.                                             *)
LEMMA JoinedFirst ==
    ASSUME NEW a \in [1 .. CellCnt -> Seq(Node)], NEW n \in 1 .. CellCnt
    PROVE  Joined(a, 0)[n] = a[1] \o Joined(a, 1)[n]
  <1> USE CellCntAssumption
  <1> DEFINE A == Joined(a, 0)
             B == Joined(a, 1)
             G(i) == A[i + 1] = a[1] \o B[i + 1]
             T == {i \in Nat : i + 1 <= n => G(i)}
  <1>1. /\ \A i \in 0 .. CellCnt : /\ A[i] = IF i <= 0 THEN <<>> ELSE A[i - 1] \o a[i]
                                   /\ B[i] = IF i <= 1 THEN <<>> ELSE B[i - 1] \o a[i]
        /\ A \in [0 .. CellCnt -> Seq(Node)] /\ B \in [0 .. CellCnt -> Seq(Node)]
    BY JoinedIs
  <1> HIDE DEF A, B
  <1>2. 0 \in T
    <2>1. 0 \in 0 .. CellCnt /\ 1 \in 0 .. CellCnt /\ 0 + 1 = 1 /\ 1 - 1 = 0 /\ a[1] \in Seq(Node)
      OBVIOUS
    <2>2. A[0] = <<>> /\ A[1] = A[1 - 1] \o a[1] /\ B[1] = <<>>
      <3>1. A[0] = IF 0 <= 0 THEN <<>> ELSE A[0 - 1] \o a[0]
        BY <1>1, <2>1
      <3>2. A[1] = IF 1 <= 0 THEN <<>> ELSE A[1 - 1] \o a[1]
        BY <1>1, <2>1
      <3>3. B[1] = IF 1 <= 1 THEN <<>> ELSE B[1 - 1] \o a[1]
        BY <1>1, <2>1
      <3>4. 0 <= 0 /\ ~(1 <= 0) /\ 1 <= 1
        OBVIOUS
      <3> QED BY ONLY <3>1, <3>2, <3>3, <3>4
    <2>3. <<>> \o a[1] = a[1] /\ a[1] \o <<>> = a[1]
      BY <2>1, ConcatEmptySeq
    <2>4. G(0)
      BY <2>1, <2>2, <2>3
    <2> HIDE DEF G
    <2> QED BY <2>4
  <1>3. ASSUME NEW i \in Nat, i \in T PROVE i + 1 \in T
    <2> HIDE DEF G
    <2> SUFFICES ASSUME (i + 1) + 1 <= n PROVE G(i + 1)
      OBVIOUS
    <2>1. /\ i + 1 \in 0 .. CellCnt /\ (i + 1) + 1 \in 0 .. CellCnt /\ ((i + 1) + 1) - 1 = i + 1
          /\ ~((i + 1) + 1 <= 1) /\ ~((i + 1) + 1 <= 0) /\ G(i)
      BY <1>3
    <2>2. /\ A[(i + 1) + 1] = A[i + 1] \o a[(i + 1) + 1]
          /\ B[(i + 1) + 1] = B[i + 1] \o a[(i + 1) + 1]
      BY <1>1, <2>1
    <2>3. a[1] \in Seq(Node) /\ B[i + 1] \in Seq(Node) /\ a[(i + 1) + 1] \in Seq(Node)
      BY <1>1, <2>1
    <2>4. (a[1] \o B[i + 1]) \o a[(i + 1) + 1] = a[1] \o (B[i + 1] \o a[(i + 1) + 1])
      <3>1. PICK p \in Seq(Node), q \in Seq(Node), r \in Seq(Node) :
                 p = a[1] /\ q = B[i + 1] /\ r = a[(i + 1) + 1]
        BY <2>3
      <3>2. (p \o q) \o r = p \o (q \o r)
        BY ConcatAssociative, SMTT(30)
      <3> QED BY <3>1, <3>2
    <2> QED BY <2>1, <2>2, <2>4 DEF G
  <1>4. n - 1 \in T /\ (n - 1) + 1 = n
    <2>1. n - 1 \in Nat /\ (n - 1) + 1 = n
      OBVIOUS
    <2> HIDE DEF T
    <2> QED BY <1>2, <1>3, <2>1, InductionOnSet
  <1>5. G(n - 1)
    <2> HIDE DEF G
    <2> QED BY <1>4
  <1> QED BY <1>4, <1>5 DEF A, B

-----------------------------------------------------------------------------
(* The nodes in flight                                                     *)

\* Who holds a list in a local is at a point where it is in flight.
HolderInv ==
    /\ \A w \in Writers : input[w] # Null => pc[w] \in {"store", "publish"}
    /\ \A r \in Readers : pc[r] \in {"idle", "snap"} => pHead[r] = Null

(* Every step keeps the locals empty where they are not in use.            *)
LEMMA HolderStep ==
    ASSUME TypeOK, RingInv, HolderInv, [Next]_vars
    PROVE  HolderInv'
  <1> USE DEF Goto, chanVars, readVars, writeVars, envVars, HolderInv
  <1>0. /\ pc \in [Procs -> WriterPC \cup ReaderPC]
        /\ input \in [Writers -> NodeOrNull] /\ pHead \in [Readers -> NodeOrNull]
        /\ Writers \subseteq Procs /\ Readers \subseteq Procs /\ \A w \in Writers : w \notin Readers
    BY ProcsAssumption DEF TypeOK, Procs
  <1>1. ASSUME NEW w \in Writers, NEW n \in Node, WriteCall(w, n) PROVE HolderInv'
    BY <1>0, <1>1 DEF WriteCall
  <1>2. ASSUME NEW w \in Writers, WriteP(w) PROVE HolderInv'
    BY <1>0, <1>2 DEF WriteP
  <1>3. ASSUME NEW w \in Writers, WriteReadPos(w) PROVE HolderInv'
    BY <1>0, <1>3 DEF WriteReadPos
  <1>4. ASSUME NEW w \in Writers, WriteFull(w) PROVE HolderInv'
    BY <1>0, <1>4 DEF WriteFull
  <1>5. ASSUME NEW w \in Writers, WriteBuffer(w) PROVE HolderInv'
    BY <1>0, <1>5 DEF WriteBuffer
  <1>6. ASSUME NEW w \in Writers, WriteCount(w) PROVE HolderInv'
    BY <1>0, <1>6 DEF WriteCount
  <1>7. ASSUME NEW w \in Writers, WriteFlush(w) PROVE HolderInv'
    BY <1>0, <1>7 DEF WriteFlush
  <1>8. ASSUME NEW w \in Writers, WriteKeep(w) PROVE HolderInv'
    BY <1>0, <1>8 DEF WriteKeep
  <1>9. ASSUME NEW w \in Writers, WriteStore(w) PROVE HolderInv'
    BY <1>0, <1>9 DEF WriteStore
  <1>10. ASSUME NEW w \in Writers, WritePublish(w) PROVE HolderInv'
    BY <1>0, <1>10 DEF WritePublish
  <1>11. ASSUME NEW w \in Writers, WriteV(w) PROVE HolderInv'
    BY <1>0, <1>11 DEF WriteV
  <1>12. ASSUME NEW r \in Readers, ReadP(r) PROVE HolderInv'
    BY <1>0, <1>12 DEF ReadP
  <1>13. ASSUME NEW r \in Readers, ReadSnap(r) PROVE HolderInv'
    BY <1>0, <1>13 DEF ReadSnap
  <1>14. ASSUME NEW r \in Readers, ReadCell(r) PROVE HolderInv'
    BY <1>0, <1>14 DEF ReadCell
  <1>15. ASSUME NEW r \in Readers, ReadAdvance(r) PROVE HolderInv'
    BY <1>0, <1>15 DEF ReadAdvance
  <1>16. ASSUME NEW r \in Readers, ReadReturn(r) PROVE HolderInv'
    BY <1>0, <1>16 DEF ReadReturn
  <1>17. ASSUME NEW r \in Readers, Consume(r) PROVE HolderInv'
    BY <1>0, <1>17 DEF Consume
  <1>18. ASSUME NEW n \in WTune, SetWBuffCnt(n) PROVE HolderInv'
    BY <1>18 DEF SetWBuffCnt
  <1>19. ASSUME NEW n \in RTune, SetRBuffCnt(n) PROVE HolderInv'
    BY <1>19 DEF SetRBuffCnt
  <1>20. ASSUME NEW p \in Procs, Crash(p) PROVE HolderInv'
    BY <1>0, <1>20 DEF Crash
  <1>21. ASSUME UNCHANGED vars PROVE HolderInv'
    BY <1>21 DEF vars
  <1> QED BY <1>1, <1>2, <1>3, <1>4, <1>5, <1>6, <1>7, <1>8, <1>9, <1>10,
             <1>11, <1>12, <1>13, <1>14, <1>15, <1>16, <1>17, <1>18, <1>19, <1>20,
             <1>21, NextCases

\* The list the one reader has joined, and how many cells are in it already.
ReadList == IF pc[TheReader] \in {"loop", "advance"} THEN ListAt(nont, pHead[TheReader]) ELSE <<>>
Skip     == IF pc[TheReader] = "advance" THEN 1 ELSE 0

(* What InFlight is with one reader.                                       *)
LEMMA FlowShape ==
    ASSUME Configured
    PROVE  /\ InFlight = ((ReadList \o UnreadAfter(Skip)) \o ListOf(Writers, input)) \o ListAt(nont, wOffset)
           /\ Readers = {TheReader}
  <1>1. Readers = {TheReader}
    BY DEF Configured, OneReader, TheReader
  <1>2. ListOf({r \in Readers : pc[r] \in {"loop", "advance"}}, pHead) = ReadList
    <2> DEFINE S == {r \in Readers : pc[r] \in {"loop", "advance"}}
               H == {p \in S : pHead[p] # Null}
    <2>1. CASE pc[TheReader] \in {"loop", "advance"} /\ pHead[TheReader] # Null
      <3>1. H = {TheReader} /\ H # {}
        BY <1>1, <2>1
      <3> HIDE DEF H
      <3>2. (CHOOSE p \in H : TRUE) = TheReader
        BY <3>1
      <3> QED BY <2>1, <3>1, <3>2 DEF ListOf, ReadList, H
    <2>2. CASE ~(pc[TheReader] \in {"loop", "advance"} /\ pHead[TheReader] # Null)
      <3>1. H = {}
        BY <1>1, <2>2
      <3>2. ReadList = <<>>
        BY <2>2 DEF ReadList, ListAt
      <3> QED BY <3>1, <3>2 DEF ListOf
    <2> QED BY <2>1, <2>2
  <1>3. (IF \E r \in Readers : pc[r] = "advance" THEN 1 ELSE 0) = Skip
    BY <1>1 DEF Skip
  <1> QED BY <1>1, <1>2, <1>3 DEF InFlight

(* The same in the next state.                                             *)
LEMMA FlowShapeNext ==
    ASSUME Configured
    PROVE  InFlight' = ((ReadList' \o UnreadAfter(Skip)') \o ListOf(Writers, input)') \o ListAt(nont', wOffset')
  <1>1. InFlight = ((ReadList \o UnreadAfter(Skip)) \o ListOf(Writers, input)) \o ListAt(nont, wOffset)
    BY FlowShape
  <1>2. (InFlight = ((ReadList \o UnreadAfter(Skip)) \o ListOf(Writers, input)) \o ListAt(nont, wOffset))'
    BY <1>1, PTL
  <1> QED BY <1>2

(* What Returned is with one reader.                                       *)
LEMMA ReturnedShape ==
    ASSUME Configured
    PROVE  Returned = IF pc[TheReader] = "consume" THEN ListAt(nont, pHead[TheReader]) ELSE <<>>
  <1>1. Readers = {TheReader}
    BY DEF Configured, OneReader, TheReader
  <1> DEFINE S == {r \in Readers : pc[r] = "consume"}
             H == {p \in S : pHead[p] # Null}
  <1>2. CASE pc[TheReader] = "consume" /\ pHead[TheReader] # Null
    <2>1. H = {TheReader} /\ H # {}
      BY <1>1, <1>2
    <2> HIDE DEF H
    <2>2. (CHOOSE p \in H : TRUE) = TheReader
      BY <2>1
    <2> QED BY <1>2, <2>1, <2>2 DEF ListOf, Returned, H
  <1>3. CASE ~(pc[TheReader] = "consume" /\ pHead[TheReader] # Null)
    <2>1. H = {}
      BY <1>1, <1>3
    <2> QED BY <1>3, <2>1 DEF ListOf, Returned, ListAt
  <1> QED BY <1>2, <1>3

(* The same in the next state.                                             *)
LEMMA ReturnedShapeNext ==
    ASSUME Configured
    PROVE  Returned' = IF pc'[TheReader] = "consume" THEN ListAt(nont', pHead'[TheReader]) ELSE <<>>
  <1>1. Returned = IF pc[TheReader] = "consume" THEN ListAt(nont, pHead[TheReader]) ELSE <<>>
    BY ReturnedShape
  <1>2. (Returned = IF pc[TheReader] = "consume" THEN ListAt(nont, pHead[TheReader]) ELSE <<>>)'
    BY <1>1, PTL
  <1> QED BY <1>2

(* A step that neither links nodes nor touches a reader outside its loop   *)
(* leaves the list the last read returned.                                 *)
LEMMA SameReturned ==
    ASSUME Configured,
           \/ /\ pc[TheReader] # "consume" /\ pc'[TheReader] # "consume"
           \/ UNCHANGED <<nont, pHead>> /\ (pc'[TheReader] = "consume" <=> pc[TheReader] = "consume")
    PROVE  Returned' = Returned
  BY ReturnedShape, ReturnedShapeNext

(* The lists of the cells are sequences of nodes.                          *)
LEMMA CellListsType ==
    ASSUME TypeOK, Inverse2(nont)
    PROVE  CellLists \in [1 .. CellCnt -> Seq(Node)]
  <1>1. ASSUME NEW i \in 1 .. CellCnt PROVE ListAt(nont, cell[CellAt(i - 1)]) \in Seq(Node)
    <2>1. CellAt(i - 1) \in Pos
      BY CellCntAssumption DEF CellAt, TypeOK, Pos
    <2>2. cell[CellAt(i - 1)] \in NodeOrNull
      BY <2>1 DEF TypeOK
    <2> QED BY <2>2, ListIsSeq DEF NodeOrNull
  <1> QED BY <1>1 DEF CellLists

(* The same in the next state.                                             *)
LEMMA CellListsTypeNext ==
    TypeOK' /\ Inverse2(nont') => CellLists' \in [1 .. CellCnt -> Seq(Node)]
  <1>1. TypeOK /\ Inverse2(nont) => CellLists \in [1 .. CellCnt -> Seq(Node)]
    BY CellListsType
  <1>2. (TypeOK /\ Inverse2(nont) => CellLists \in [1 .. CellCnt -> Seq(Node)])'
    BY <1>1, PTL
  <1> QED BY <1>2

(* All parts of the nodes in flight are sequences of nodes.                *)
LEMMA FlowTypes ==
    ASSUME Configured, TypeOK, Inverse2(nont)
    PROVE  /\ ReadList \in Seq(Node) /\ ListOf(Writers, input) \in Seq(Node)
           /\ ListAt(nont, wOffset) \in Seq(Node)
           /\ \A k \in Nat : UnreadAfter(k) \in Seq(Node)
           /\ cifo_used_count \in 0 .. CellCnt /\ Skip \in {0, 1}
  <1>1. \A h \in NodeOrNull : ListAt(nont, h) \in Seq(Node)
    BY ListIsSeq DEF NodeOrNull
  <1>2. ReadList \in Seq(Node) /\ ListAt(nont, wOffset) \in Seq(Node)
    BY <1>1, FlowShape DEF ReadList, TypeOK
  <1>3. ListOf(Writers, input) \in Seq(Node)
    <2> DEFINE H == {p \in Writers : input[p] # Null}
    <2>1. CASE H = {}
      BY <2>1 DEF ListOf
    <2>2. CASE H # {}
      <3>1. (CHOOSE p \in H : TRUE) \in Writers
        BY <2>2
      <3> QED BY <1>1, <2>2, <3>1 DEF ListOf, TypeOK
    <2> QED BY <2>1, <2>2
  <1>4. cifo_used_count \in 0 .. CellCnt
    BY CellAtRange, CellCntAssumption
  <1>5. \A k \in Nat : UnreadAfter(k) \in Seq(Node)
    BY <1>4, CellListsType, JoinedIs DEF UnreadAfter
  <1> QED BY <1>2, <1>3, <1>4, <1>5 DEF Skip

(* A step that moves nothing in flight.                                    *)
LEMMA QuietFlow ==
    ASSUME UNCHANGED <<nont, wOffset, cell, wCellPos, rCellPos, input, pHead>>,
           \A r \in Readers : /\ pc'[r] = "advance" <=> pc[r] = "advance"
                              /\ pc'[r] = "loop" <=> pc[r] = "loop"
    PROVE  InFlight' = InFlight
  <1>1. CellLists' = CellLists /\ cifo_used_count' = cifo_used_count
    BY DEF CellLists, CellAt, cifo_used_count
  <1>2. \A k : UnreadAfter(k)' = UnreadAfter(k)
    BY <1>1 DEF UnreadAfter
  <1>3. {r \in Readers : pc'[r] \in {"loop", "advance"}} = {r \in Readers : pc[r] \in {"loop", "advance"}}
    OBVIOUS
  <1>4. \A S : ListOf(S, pHead)' = ListOf(S, pHead) /\ ListOf(S, input)' = ListOf(S, input)
    BY DEF ListOf
  <1>5. (\E r \in Readers : pc[r] = "advance")' <=> (\E r \in Readers : pc[r] = "advance")
    OBVIOUS
  <1> QED BY <1>2, <1>3, <1>4, <1>5 DEF InFlight

(* Lists whose owners are not in X are as they were when a step only       *)
(* changes links of nodes whose owners are.                                *)
LEMMA OtherLists ==
    ASSUME Inverse2(nont), Inverse2(nont'), NEW own, OneList(own), NEW X,
           \A e \in Node : own[e] \notin X => nont'.next[e] = nont.next[e],
           NEW h \in NodeOrNull, h # Null => own[h] \notin X
    PROVE  ListAt(nont', h) = ListAt(nont, h)
  <1>1. h # Null => \A e \in RingSet(nont, h) : nont'.next[e] = nont.next[e]
    <2> SUFFICES ASSUME h # Null, NEW e \in RingSet(nont, h) PROVE nont'.next[e] = nont.next[e]
      OBVIOUS
    <2>1. e \in NodesAt(h)
      BY DEF NodesAt, ListAt, RingSet
    <2>2. e \in Node /\ own[e] = own[h]
      BY <2>1, ListOwner
    <2> QED BY <2>2
  <1> QED BY <1>1, SameList DEF NodeOrNull

(* The same for the lists of the unread cells.                             *)
LEMMA OtherCells ==
    ASSUME TypeOK, RingInv, TypeOK', Inverse2(nont), Inverse2(nont'),
           NEW own, Owned(own), NEW X,
           \A e \in Node : own[e] \notin X => nont'.next[e] = nont.next[e],
           UNCHANGED <<cell, wCellPos, rCellPos>>, NEW k \in Nat,
           \A i \in k .. cifo_used_count - 1 : Owner("cell", CellAt(i)) \notin X
    PROVE  UnreadAfter(k)' = UnreadAfter(k)
  <1>1. cifo_used_count' = cifo_used_count /\ cifo_used_count \in 0 .. CellCnt
    BY CellAtRange, CellCntAssumption DEF cifo_used_count
  <1>2. ASSUME NEW i \in k + 1 .. cifo_used_count PROVE CellLists'[i] = CellLists[i]
    <2>1. i \in 1 .. CellCnt /\ i - 1 \in k .. cifo_used_count - 1 /\ i - 1 \in 0 .. cifo_used_count - 1
      BY <1>1, CellCntAssumption
    <2>2. CellAt(i - 1) \in Unread
      BY <2>1 DEF Unread
    <2> DEFINE h == cell[CellAt(i - 1)]
    <2>3. h \in Node /\ own[h] = Owner("cell", CellAt(i - 1)) /\ OneList(own)
      BY <2>2, UnreadFacts DEF Owned, CellsOwned
    <2>4. h \in NodeOrNull /\ own[h] \notin X
      BY <2>1, <2>3 DEF NodeOrNull, Node
    <2> HIDE DEF h
    <2>5. ListAt(nont', h) = ListAt(nont, h)
      BY <2>3, <2>4, OtherLists
    <2>6. CellLists'[i] = ListAt(nont', cell'[CellAt(i - 1)']) /\ CellLists[i] = ListAt(nont, cell[CellAt(i - 1)])
      BY <2>1 DEF CellLists
    <2>7. CellAt(i - 1)' = CellAt(i - 1)
      BY DEF CellAt
    <2> QED BY <2>5, <2>6, <2>7 DEF h
  <1>3. CellLists \in [1 .. CellCnt -> Seq(Node)] /\ CellLists' \in [1 .. CellCnt -> Seq(Node)]
    BY CellListsType, CellListsTypeNext
  <1>4. Joined(CellLists, k)[cifo_used_count] = Joined(CellLists', k)[cifo_used_count]
    BY <1>1, <1>2, <1>3, JoinedSame
  <1> QED BY <1>1, <1>4 DEF UnreadAfter

(* A step that splices, or unlinks, lists whose owners are in X leaves all *)
(* parts of the nodes in flight that others own.                           *)
LEMMA OtherFlow ==
    ASSUME Configured, TypeOK, RingInv, TypeOK', Inverse2(nont), Inverse2(nont'),
           NEW own, Owned(own), NEW X,
           \A e \in Node : own[e] \notin X => nont'.next[e] = nont.next[e]
    PROVE  /\ input' = input /\ (\A v \in Writers : Owner("input", v) \notin X) =>
                 ListOf(Writers, input)' = ListOf(Writers, input)
           /\ wOffset' = wOffset /\ Owner("wOffset", 0) \notin X =>
                 ListAt(nont', wOffset') = ListAt(nont, wOffset)
           /\ pHead' = pHead /\ pc'[TheReader] = pc[TheReader]
                 /\ Owner("pHead", TheReader) \notin X /\ (\A c : Owner("cell", c) \notin X) =>
                 ReadList' = ReadList /\ Returned' = Returned
  <1>1. OneList(own)
    BY DEF Owned
  <1>2. \A h \in NodeOrNull : (h # Null => own[h] \notin X) => ListAt(nont', h) = ListAt(nont, h)
    BY <1>1, OtherLists
  <1>3. ASSUME input' = input, \A v \in Writers : Owner("input", v) \notin X
        PROVE  ListOf(Writers, input)' = ListOf(Writers, input)
    <2>1. \A v \in Writers : ListAt(nont', input[v]) = ListAt(nont, input[v])
      BY <1>2, <1>3 DEF Owned, WritersOwned, TypeOK
    <2> DEFINE H == {p \in Writers : input[p] # Null}
    <2>2. CASE H = {}
      BY <1>3, <2>2 DEF ListOf
    <2>3. CASE H # {}
      <3>1. (CHOOSE p \in H : TRUE) \in Writers
        BY <2>3
      <3> QED BY <1>3, <2>1, <2>3, <3>1 DEF ListOf
    <2> QED BY <2>2, <2>3
  <1>4. ASSUME wOffset' = wOffset, Owner("wOffset", 0) \notin X
        PROVE  ListAt(nont', wOffset') = ListAt(nont, wOffset)
    BY <1>2, <1>4 DEF Owned, GatheredOwned, TypeOK
  <1>5. ASSUME pHead' = pHead, pc'[TheReader] = pc[TheReader],
               Owner("pHead", TheReader) \notin X, \A c : Owner("cell", c) \notin X
        PROVE  ReadList' = ReadList /\ Returned' = Returned
    <2>1. TheReader \in Readers
      BY FlowShape
    <2>2. pHead[TheReader] \in NodeOrNull
      BY <2>1 DEF TypeOK
    <2>3. pHead[TheReader] # Null => own[pHead[TheReader]] \notin X
      BY <1>5, <2>1 DEF Owned, ReadersOwned
    <2>4. ListAt(nont', pHead[TheReader]) = ListAt(nont, pHead[TheReader])
      BY <1>2, <2>2, <2>3
    <2>5. ReadList' = ReadList
      BY <1>5, <2>4 DEF ReadList
    <2> QED BY <1>5, <2>4, <2>5, ReturnedShape, ReturnedShapeNext
  <1> QED BY <1>3, <1>4, <1>5

(* Gathering a write puts its node at the end.                             *)
LEMMA BufferFlow ==
    ASSUME Configured, TypeOK, RingInv, OwnInv, TypeOK', NEW w \in Writers, WriteBuffer(w)
    PROVE  /\ InFlight' = Append(InFlight, offset[w]) /\ offset[w] \in Node
           /\ Returned' = Returned
  <1>1. PICK own : Owned(own)
    BY DEF OwnInv
  <1> DEFINE x == Owner("offset", w)
             y == Owner("wOffset", 0)
  <1>2. /\ UNCHANGED <<cell, wCellPos, rCellPos, input, pHead>>
        /\ offset[w] \in Node
        /\ TheReader \in Readers /\ pc'[TheReader] = pc[TheReader]
    BY FlowShape, ProcsAssumption
       DEF WriteBuffer, Goto, TypeOK, readVars, envVars, Procs, RingInv, WriterView
  <1>3. own[offset[w]] = x /\ nont.next[offset[w]] = offset[w] /\ Inverse2(nont)
    BY <1>1, <1>2, NullAssumption DEF Owned, WritersOwned, Node, OwnInv
  <1>4. ListAt(nont, offset[w]) = <<offset[w]>>
    BY <1>2, <1>3, SingleList
  <1>5. /\ x # y /\ \A a : Owner("cell", a) \notin {x, y} /\ Owner("pHead", a) \notin {x, y}
        /\ \A a : Owner("input", a) \notin {x, y}
    BY OwnersDiffer
  <1>6. /\ Inverse2(nont')
        /\ \A e \in Node : own[e] \notin {x, y} => nont'.next[e] = nont.next[e]
        /\ ListAt(nont', wOffset') = ListAt(nont, wOffset) \o <<offset[w]>>
    <2>1. CASE wOffset = Null
      <3>1. nont' = nont /\ wOffset' = offset[w]
        BY <2>1 DEF WriteBuffer
      <3>2. ListAt(nont, wOffset) = <<>> /\ <<>> \o <<offset[w]>> = <<offset[w]>>
        BY <1>2, <2>1 DEF ListAt
      <3> QED BY <1>3, <1>4, <3>1, <3>2
    <2>2. CASE wOffset # Null
      <3>1. /\ nont' = clist_splice(nont, offset[w], wOffset) /\ wOffset' = wOffset
            /\ wOffset \in Node /\ own[wOffset] = y /\ nont \in Links
        BY <1>1, <2>2 DEF WriteBuffer, Owned, GatheredOwned, TypeOK, NodeOrNull, Node
      <3> HIDE DEF x, y
      <3>2. OneList(own) /\ (\A e \in Node : own[nont.next[e]] = own[e]) /\ own[offset[w]] # own[wOffset]
        BY <1>1, <1>3, <1>5, <3>1 DEF Owned, OneList
      <3>3. /\ Inverse2(nont')
            /\ \A e \in Node : own[e] # own[offset[w]] /\ own[e] # own[wOffset] =>
                  nont'.next[e] = nont.next[e] /\ nont'.prev[e] = nont.prev[e]
        BY <1>2, <1>3, <3>1, <3>2, SpliceOwners
      <3>4. offset[w] \notin RingSet(nont, wOffset) /\ wOffset \notin RingSet(nont, offset[w])
        <4>1. /\ NodesAt(wOffset) = RingSet(nont, wOffset)
              /\ NodesAt(offset[w]) = RingSet(nont, offset[w])
          BY <1>2, <3>1, NullAssumption DEF NodesAt, ListAt, RingSet, Node
        <4>2. offset[w] \in NodeOrNull /\ wOffset \in NodeOrNull
          BY <1>2, <3>1 DEF Node, NodeOrNull
        <4> QED BY <1>3, <3>2, <4>1, <4>2, ListOwner
      <3>5. ListAt(nont', wOffset) = ListAt(nont, wOffset) \o ListAt(nont, offset[w])
        BY <1>2, <1>3, <3>1, <3>4, SpliceJoins
      <3> QED BY <1>3, <1>4, <3>1, <3>3, <3>5
    <2> QED BY <2>1, <2>2
  <1> DEFINE X == {x, y}
  <1> HIDE DEF x, y
  <1>7. /\ ListOf(Writers, input)' = ListOf(Writers, input)
        /\ ReadList' = ReadList /\ Returned' = Returned
    <2>1. \A e \in Node : own[e] \notin X => nont'.next[e] = nont.next[e]
      BY <1>6
    <2>2. /\ \A v \in Writers : Owner("input", v) \notin X
          /\ Owner("pHead", TheReader) \notin X /\ \A c : Owner("cell", c) \notin X
      BY <1>5
    <2> HIDE DEF X
    <2> QED BY <1>1, <1>2, <1>3, <1>6, <2>1, <2>2, OtherFlow
  <1>8. UnreadAfter(Skip)' = UnreadAfter(Skip)
    <2>1. Skip' = Skip /\ Skip \in {0, 1}
      BY <1>2 DEF Skip
    <2>2. \A k \in {0, 1} : UnreadAfter(k)' = UnreadAfter(k)
      <3> SUFFICES ASSUME NEW k \in {0, 1} PROVE UnreadAfter(k)' = UnreadAfter(k)
        OBVIOUS
      <3>1. k \in Nat /\ \A i \in k .. cifo_used_count - 1 : Owner("cell", CellAt(i)) \notin X
        BY <1>5
      <3>2. \A e \in Node : own[e] \notin X => nont'.next[e] = nont.next[e]
        BY <1>6
      <3> HIDE DEF X
      <3> QED BY <1>1, <1>2, <1>3, <1>6, <3>1, <3>2, OtherCells
    <2> QED BY <2>1, <2>2 DEF UnreadAfter
  <1>9. InFlight' = InFlight \o <<offset[w]>> /\ InFlight \in Seq(Node)
    <2> DEFINE a == ReadList
               b == UnreadAfter(Skip)
               c == ListOf(Writers, input)
               d == ListAt(nont, wOffset)
               n == <<offset[w]>>
    <2>1. a \in Seq(Node) /\ b \in Seq(Node) /\ c \in Seq(Node) /\ d \in Seq(Node) /\ n \in Seq(Node)
      <3>1. Skip \in Nat
        BY DEF Skip
      <3>2. a \in Seq(Node) /\ b \in Seq(Node) /\ c \in Seq(Node) /\ d \in Seq(Node)
        BY <1>3, <3>1, FlowTypes
      <3> QED BY <1>2, <3>2
    <2>2. InFlight = ((a \o b) \o c) \o d
      BY FlowShape
    <2>3. InFlight' = ((a \o b) \o c) \o (d \o n)
      BY <1>6, <1>7, <1>8, FlowShapeNext
    <2> HIDE DEF a, b, c, d, n
    <2>4. (a \o b) \o c \in Seq(Node) /\ ((a \o b) \o c) \o d \in Seq(Node)
      BY <2>1
    <2>5. (((a \o b) \o c) \o d) \o n = ((a \o b) \o c) \o (d \o n)
      <3>1. PICK p \in Seq(Node) : p = (a \o b) \o c
        BY <2>4
      <3>2. (p \o d) \o n = p \o (d \o n)
        BY ONLY <2>1, NodesAssociate, ZenonT(30)
      <3> QED BY <3>1, <3>2
    <2> QED BY <2>2, <2>3, <2>4, <2>5 DEF n
  <1> QED BY <1>2, <1>7, <1>9, AppendIsConcat

(* Taking the gathered list out moves nothing in the order.                *)
LEMMA FlushFlow ==
    ASSUME Configured, TypeOK, RingInv, OwnInv, HolderInv, NEW w \in Writers, WriteFlush(w)
    PROVE  InFlight' = InFlight
  <1>1. /\ UNCHANGED <<nont, cell, wCellPos, rCellPos, pHead>>
        /\ TheReader \in Readers /\ pc'[TheReader] = pc[TheReader]
        /\ input' = [input EXCEPT ![w] = wOffset] /\ input \in [Writers -> NodeOrNull]
        /\ wOffset' = Null /\ pc[w] = "flush"
    BY FlowShape, ProcsAssumption DEF WriteFlush, Goto, TypeOK, readVars, envVars, Procs
  <1>2. \A v \in Writers : input[v] = Null
    BY <1>1, Exclusive DEF HolderInv, RingInv, InSection
  <1>3. ListOf(Writers, input) = <<>>
    BY <1>2 DEF ListOf
  <1>4. ListOf(Writers, input)' = ListAt(nont, wOffset)
    <2> DEFINE H == {p \in Writers : input'[p] # Null}
    <2>1. CASE wOffset = Null
      <3>1. H = {}
        BY <1>1, <1>2, <2>1
      <3> QED BY <2>1, <3>1 DEF ListOf, ListAt
    <2>2. CASE wOffset # Null
      <3>1. H = {w} /\ input'[w] = wOffset
        BY <1>1, <1>2, <2>2
      <3>2. ListOf(Writers, input)' = IF H = {} THEN <<>> ELSE ListAt(nont', input'[CHOOSE p \in H : TRUE])
        BY DEF ListOf
      <3> HIDE DEF H
      <3>3. (CHOOSE p \in H : TRUE) = w /\ H # {}
        BY <3>1
      <3> QED BY <1>1, <3>1, <3>2, <3>3
    <2> QED BY <2>1, <2>2
  <1>5. ListAt(nont', wOffset') = <<>>
    BY <1>1 DEF ListAt
  <1>6. ReadList' = ReadList /\ UnreadAfter(Skip)' = UnreadAfter(Skip)
    BY <1>1 DEF ReadList, Skip, UnreadAfter, CellLists, CellAt, cifo_used_count
  <1> DEFINE a == ReadList
             b == UnreadAfter(Skip)
             d == ListAt(nont, wOffset)
  <1>7. a \in Seq(Node) /\ b \in Seq(Node) /\ d \in Seq(Node)
    BY FlowTypes DEF OwnInv
  <1>8. InFlight = ((a \o b) \o <<>>) \o d
    BY <1>3, FlowShape
  <1>9. InFlight' = ((a \o b) \o d) \o <<>>
    BY <1>4, <1>5, <1>6, FlowShapeNext
  <1> HIDE DEF a, b, d
  <1>10. a \o b \in Seq(Node) /\ (a \o b) \o d \in Seq(Node)
    BY <1>7
  <1>11. (a \o b) \o <<>> = a \o b /\ ((a \o b) \o d) \o <<>> = (a \o b) \o d
    BY <1>10, ConcatEmptySeq
  <1> QED BY <1>8, <1>9, <1>11

(* A store goes to a cell that is not in flight.                           *)
LEMMA StoreFlow ==
    ASSUME Configured, TypeOK, RingInv, OwnInv, TypeOK', NEW w \in Writers, WriteStore(w)
    PROVE  InFlight' = InFlight
  <1>1. /\ UNCHANGED <<nont, wOffset, wCellPos, rCellPos, input, pHead>>
        /\ TheReader \in Readers /\ pc'[TheReader] = pc[TheReader]
        /\ cell' = [cell EXCEPT ![wCellPos] = input[w]] /\ cell \in [Pos -> NodeOrNull]
    BY FlowShape, ProcsAssumption DEF WriteStore, Goto, TypeOK, readVars, writeVars, envVars,
       Procs, RingInv, WriterView
  <1>2. cifo_used_count' = cifo_used_count /\ cifo_used_count \in 0 .. CellCnt - 1
    BY <1>1, CellAtRange DEF cifo_used_count
  <1>3. ASSUME NEW i \in 1 .. cifo_used_count PROVE CellLists'[i] = CellLists[i]
    <2>1. i \in 1 .. CellCnt /\ i - 1 \in 0 .. cifo_used_count - 1
      BY <1>2, CellCntAssumption
    <2>2. CellAt(i - 1) \in Unread /\ CellAt(i - 1)' = CellAt(i - 1)
      BY <1>1, <2>1 DEF Unread, CellAt
    <2>3. cell'[CellAt(i - 1)'] = cell[CellAt(i - 1)]
      BY <1>1, <2>2, UnreadFacts
    <2>4. CellLists'[i] = ListAt(nont', cell'[CellAt(i - 1)']) /\ CellLists[i] = ListAt(nont, cell[CellAt(i - 1)])
      BY <2>1 DEF CellLists
    <2> QED BY <1>1, <2>3, <2>4
  <1>4. CellLists \in [1 .. CellCnt -> Seq(Node)] /\ CellLists' \in [1 .. CellCnt -> Seq(Node)]
    BY <1>1, CellListsType, CellListsTypeNext DEF OwnInv
  <1>5. Skip' = Skip /\ Skip \in Nat
    BY <1>1 DEF Skip
  <1>6. Joined(CellLists, Skip)[cifo_used_count] = Joined(CellLists', Skip)[cifo_used_count]
    <2>1. cifo_used_count \in 0 .. CellCnt /\ \A i \in Skip + 1 .. cifo_used_count : i \in 1 .. cifo_used_count
      BY <1>2, <1>5, CellCntAssumption
    <2> QED BY <1>3, <1>4, <1>5, <2>1, JoinedSame
  <1>7. UnreadAfter(Skip)' = UnreadAfter(Skip)
    BY <1>2, <1>5, <1>6 DEF UnreadAfter
  <1>8. ReadList' = ReadList /\ ListOf(Writers, input)' = ListOf(Writers, input)
    BY <1>1 DEF ReadList, ListOf
  <1> QED BY <1>1, <1>7, <1>8, FlowShape, FlowShapeNext

(* A publish moves the writer's list into the cells, at the end of them.   *)
LEMMA PublishFlow ==
    ASSUME Configured, TypeOK, RingInv, OwnInv, HolderInv, NEW w \in Writers, WritePublish(w)
    PROVE  InFlight' = InFlight
  <1> DEFINE u == cifo_used_count
  <1>1. /\ UNCHANGED <<nont, wOffset, cell, rCellPos, pHead>>
        /\ TheReader \in Readers /\ pc'[TheReader] = pc[TheReader]
        /\ wCellPos' = cifo_next_pos(wCellPos) /\ u < CellCnt - 1
        /\ input' = [input EXCEPT ![w] = Null] /\ input \in [Writers -> NodeOrNull]
        /\ cell[wCellPos] = input[w] /\ input[w] \in Node /\ pc[w] = "publish"
    BY FlowShape, ProcsAssumption DEF WritePublish, Goto, TypeOK, readVars, envVars, Procs,
       RingInv, WriterView, RoomToFlush
  <1>2. u \in Nat /\ u' = u + 1 /\ u \in 0 .. CellCnt - 1 /\ CellAt(u) = wCellPos
    BY <1>1, PublishCount, CellAtRange, CellCntAssumption DEF TypeOK, cifo_used_count
  <1>3. \A v \in Writers : v # w => input[v] = Null
    BY <1>1, Exclusive DEF HolderInv, RingInv, InSection
  <1>4. ListOf(Writers, input) = ListAt(nont, input[w])
    <2> DEFINE H == {p \in Writers : input[p] # Null}
    <2>1. H = {w}
      BY <1>1, <1>3, NullAssumption DEF Node
    <2>2. ListOf(Writers, input) = IF H = {} THEN <<>> ELSE ListAt(nont, input[CHOOSE p \in H : TRUE])
      BY DEF ListOf
    <2> HIDE DEF H
    <2>3. (CHOOSE p \in H : TRUE) = w /\ H # {}
      BY <2>1
    <2> QED BY <2>2, <2>3
  <1>5. ListOf(Writers, input)' = <<>>
    BY <1>1, <1>3 DEF ListOf
  <1>6. Skip' = Skip /\ Skip \in Nat /\ Skip <= u
    <2>1. pc[TheReader] = "advance" => wCellPos # rCellPos
      BY <1>1, UnreadHead DEF RingInv, ReaderView
    <2>2. wCellPos # rCellPos => u > 0
      BY <1>2, CountRange DEF TypeOK, cifo_used_count
    <2> QED BY <1>1, <1>2, <2>1, <2>2 DEF Skip
  <1>7. CellLists' = CellLists /\ CellLists \in [1 .. CellCnt -> Seq(Node)]
    BY <1>1, CellListsType DEF CellLists, CellAt, OwnInv
  <1>8. CellLists[u + 1] = ListAt(nont, input[w])
    <2>1. u + 1 \in 1 .. CellCnt /\ (u + 1) - 1 = u
      BY <1>2, CellCntAssumption
    <2>2. CellLists[u + 1] = ListAt(nont, cell[CellAt((u + 1) - 1)])
      BY <2>1 DEF CellLists
    <2> HIDE DEF u
    <2> QED BY <1>1, <1>2, <2>1, <2>2
  <1>9. UnreadAfter(Skip)' = UnreadAfter(Skip) \o ListAt(nont, input[w])
    <2>1. u + 1 \in 0 .. CellCnt /\ ~(u + 1 <= Skip) /\ (u + 1) - 1 = u
      BY <1>2, <1>6, CellCntAssumption
    <2> DEFINE J == Joined(CellLists, Skip)
    <2> HIDE DEF u
    <2>2. J[u + 1] = IF u + 1 <= Skip THEN <<>> ELSE J[(u + 1) - 1] \o CellLists[u + 1]
      BY <1>6, <1>7, <2>1, JoinedIs
    <2>3. UnreadAfter(Skip)' = J[u + 1] /\ UnreadAfter(Skip) = J[u]
      BY <1>2, <1>6, <1>7 DEF UnreadAfter, u
    <2> HIDE DEF J
    <2> QED BY <1>8, <2>1, <2>2, <2>3
  <1>10. ReadList' = ReadList
    BY <1>1 DEF ReadList
  <1> DEFINE a == ReadList
             b == UnreadAfter(Skip)
             c == ListAt(nont, input[w])
             d == ListAt(nont, wOffset)
  <1>11. a \in Seq(Node) /\ b \in Seq(Node) /\ c \in Seq(Node) /\ d \in Seq(Node)
    BY <1>4, <1>6, FlowTypes DEF OwnInv
  <1>12. InFlight = ((a \o b) \o c) \o d
    BY <1>4, FlowShape
  <1>13. InFlight' = ((a \o (b \o c)) \o <<>>) \o d
    BY <1>1, <1>5, <1>9, <1>10, FlowShapeNext
  <1> HIDE DEF a, b, c, d
  <1>14. a \o (b \o c) = (a \o b) \o c /\ (a \o b) \o c \in Seq(Node)
    <2>1. (a \o b) \o c = a \o (b \o c)
      BY <1>11, ConcatAssociative
    <2>2. (a \o b) \o c \in Seq(Node)
      BY <1>11
    <2> QED BY <2>1, <2>2
  <1>15. ((a \o b) \o c) \o <<>> = (a \o b) \o c
    BY <1>14, ConcatEmptySeq
  <1> QED BY <1>12, <1>13, <1>14, <1>15

(* Joining the oldest cell to the reader's list moves nothing.             *)
LEMMA CellFlow ==
    ASSUME Configured, TypeOK, RingInv, OwnInv, TypeOK', NEW r \in Readers, ReadCell(r)
    PROVE  InFlight' = InFlight
  <1>1. PICK own : Owned(own)
    BY DEF OwnInv
  <1>2. PICK c0 : c0 = rCellPos
    OBVIOUS
  <1> DEFINE x == Owner("pHead", r)
             y == Owner("cell", c0)
             u == cifo_used_count
  <1>3. /\ UNCHANGED <<wOffset, cell, wCellPos, rCellPos, input>>
        /\ r = TheReader /\ pc[r] = "loop" /\ pc'[r] = "advance" /\ wCellPos # rCellPos
        /\ cell[c0] \in Node /\ c0 \in Unread
        /\ pHead \in [Readers -> NodeOrNull]
    BY <1>2, FlowShape, UnreadHead, OldestUnread
       DEF ReadCell, More, Goto, TypeOK, chanVars, writeVars, Procs
  <1>4. own[cell[c0]] = y /\ Inverse2(nont) /\ OneList(own)
    BY <1>1, <1>3 DEF Owned, CellsOwned, OwnInv
  <1>5. /\ x # y /\ \A a : Owner("wOffset", a) \notin {x, y} /\ Owner("input", a) \notin {x, y}
        /\ \A c : c # c0 => Owner("cell", c) \notin {x, y}
    BY OwnersDiffer
  <1>6. /\ Inverse2(nont')
        /\ \A e \in Node : own[e] \notin {x, y} => nont'.next[e] = nont.next[e]
        /\ ListAt(nont', pHead'[r]) = ListAt(nont, pHead[r]) \o ListAt(nont, cell[c0])
    <2> HIDE DEF x, y
    <2>1. CASE pHead[r] = Null
      <3>1. nont' = nont /\ pHead' = [pHead EXCEPT ![r] = cell[c0]]
        BY <1>2, <2>1 DEF ReadCell
      <3>2. pHead'[r] = cell[c0] /\ ListAt(nont, pHead[r]) = <<>>
        BY <1>3, <2>1, <3>1 DEF ListAt
      <3>3. ListAt(nont, cell[c0]) \in Seq(Node)
        <4>1. cell[c0] \in NodeOrNull
          BY <1>3 DEF Node, NodeOrNull
        <4> QED BY <1>4, <4>1, ListIsSeq DEF NodeOrNull
      <3>4. <<>> \o ListAt(nont, cell[c0]) = ListAt(nont, cell[c0])
        BY <3>3, ConcatEmptySeq
      <3> QED BY <1>4, <3>1, <3>2, <3>4
    <2>2. CASE pHead[r] # Null
      <3>1. /\ nont' = clist_splice(nont, cell[c0], pHead[r]) /\ pHead' = pHead
            /\ pHead[r] \in Node /\ own[pHead[r]] = x /\ nont \in Links
        BY <1>1, <1>2, <1>3, <2>2
           DEF ReadCell, Owned, ReadersOwned, TypeOK, NodeOrNull, Node, x
      <3>2. (\A e \in Node : own[nont.next[e]] = own[e]) /\ own[cell[c0]] # own[pHead[r]]
        BY <1>4, <1>5, <3>1 DEF OneList
      <3>3. /\ Inverse2(nont')
            /\ \A e \in Node : own[e] # own[cell[c0]] /\ own[e] # own[pHead[r]] =>
                  nont'.next[e] = nont.next[e] /\ nont'.prev[e] = nont.prev[e]
        BY <1>3, <1>4, <3>1, <3>2, SpliceOwners
      <3>4. cell[c0] \notin RingSet(nont, pHead[r]) /\ pHead[r] \notin RingSet(nont, cell[c0])
        <4>1. /\ NodesAt(pHead[r]) = RingSet(nont, pHead[r])
              /\ NodesAt(cell[c0]) = RingSet(nont, cell[c0])
          BY <1>3, <3>1, NullAssumption DEF NodesAt, ListAt, RingSet, Node
        <4>2. cell[c0] \in NodeOrNull /\ pHead[r] \in NodeOrNull
          BY <1>3, <3>1 DEF Node, NodeOrNull
        <4> QED BY <1>4, <3>2, <4>1, <4>2, ListOwner
      <3>5. ListAt(nont', pHead[r]) = ListAt(nont, pHead[r]) \o ListAt(nont, cell[c0])
        BY <1>3, <1>4, <3>1, <3>4, SpliceJoins, ZenonT(30)
      <3> QED BY <1>4, <3>1, <3>3, <3>5
    <2> QED BY <2>1, <2>2
  <1> DEFINE X == {x, y}
  <1> HIDE DEF x, y
  <1>7. ListOf(Writers, input)' = ListOf(Writers, input) /\ ListAt(nont', wOffset') = ListAt(nont, wOffset)
    <2>1. \A e \in Node : own[e] \notin X => nont'.next[e] = nont.next[e]
      BY <1>6
    <2>2. (\A v \in Writers : Owner("input", v) \notin X) /\ Owner("wOffset", 0) \notin X
      BY <1>5
    <2> HIDE DEF X
    <2> QED BY <1>1, <1>3, <1>4, <1>6, <2>1, <2>2, OtherFlow
  <1>8. u \in 0 .. CellCnt - 1 /\ u > 0 /\ rCellPos \in 0 .. CellCnt - 1 /\ CellAt(0) = rCellPos
    <2>1. wCellPos \in Pos /\ rCellPos \in Pos
      BY DEF TypeOK
    <2>2. u \in 0 .. CellCnt - 1 /\ u > 0
      BY <1>3, <2>1, CountRange, CellCntAssumption DEF cifo_used_count
    <2> QED BY <2>1, <2>2, CellCntAssumption DEF CellAt, Pos
  <1>9. UnreadAfter(1)' = UnreadAfter(1)
    <2>1. \A i \in 1 .. u - 1 : CellAt(i) # c0
      BY <1>2, <1>8, CellCntAssumption DEF CellAt
    <2>2. 1 \in Nat /\ \A i \in 1 .. u - 1 : Owner("cell", CellAt(i)) \notin X
      BY <1>5, <2>1
    <2>3. \A e \in Node : own[e] \notin X => nont'.next[e] = nont.next[e]
      BY <1>6
    <2> HIDE DEF X
    <2> QED BY <1>1, <1>3, <1>4, <1>6, <2>2, <2>3, OtherCells
  <1>10. UnreadAfter(0) = ListAt(nont, cell[c0]) \o UnreadAfter(1)
    <2>1. CellLists \in [1 .. CellCnt -> Seq(Node)]
      BY <1>4, CellListsType
    <2>2. 1 \in 1 .. CellCnt /\ u \in 1 .. CellCnt /\ 1 - 1 = 0
      BY <1>8, CellCntAssumption
    <2>3. CellLists[1] = ListAt(nont, cell[CellAt(1 - 1)])
      BY <2>2 DEF CellLists
    <2>4. CellLists[1] = ListAt(nont, cell[c0])
      BY <1>2, <1>8, <2>2, <2>3
    <2>5. Joined(CellLists, 0)[u] = CellLists[1] \o Joined(CellLists, 1)[u]
      <3> HIDE DEF u
      <3> QED BY <2>1, <2>2, JoinedFirst
    <2> QED BY <2>4, <2>5 DEF UnreadAfter
  <1>11. Skip = 0 /\ Skip' = 1
    BY <1>3 DEF Skip
  <1>12. UnreadAfter(Skip) = UnreadAfter(0) /\ UnreadAfter(Skip)' = UnreadAfter(1)'
    BY <1>11 DEF UnreadAfter
  <1>13. ReadList = ListAt(nont, pHead[r]) /\ ReadList' = ListAt(nont', pHead'[r])
    BY <1>3 DEF ReadList
  <1> DEFINE a == ListAt(nont, pHead[r])
             n == ListAt(nont, cell[c0])
             b == UnreadAfter(1)
             c == ListOf(Writers, input)
             d == ListAt(nont, wOffset)
  <1>14. a \in Seq(Node) /\ b \in Seq(Node) /\ c \in Seq(Node) /\ d \in Seq(Node) /\ n \in Seq(Node)
    <2>1. cell[c0] \in NodeOrNull
      BY <1>3 DEF Node, NodeOrNull
    <2>2. n \in Seq(Node)
      BY <1>4, <2>1, ListIsSeq DEF NodeOrNull
    <2>3. b \in Seq(Node) /\ c \in Seq(Node) /\ d \in Seq(Node) /\ ReadList \in Seq(Node)
      BY <1>4, FlowTypes
    <2> QED BY <1>13, <2>2, <2>3
  <1>15. InFlight = ((a \o (n \o b)) \o c) \o d
    BY <1>10, <1>12, <1>13, FlowShape
  <1>16. InFlight' = (((a \o n) \o b) \o c) \o d
    BY <1>6, <1>7, <1>9, <1>12, <1>13, FlowShapeNext
  <1> HIDE DEF a, b, c, d, n
  <1>17. (a \o n) \o b = a \o (n \o b)
    BY <1>14, ConcatAssociative, SMTT(30)
  <1> QED BY <1>15, <1>16, <1>17

(* An advance gives up the cell whose list was joined.                     *)
LEMMA AdvanceFlow ==
    ASSUME Configured, TypeOK, RingInv, OwnInv, TypeOK', NEW r \in Readers, ReadAdvance(r)
    PROVE  InFlight' = InFlight
  <1> DEFINE u == cifo_used_count
  <1>1. /\ UNCHANGED <<nont, wOffset, cell, wCellPos, input, pHead>>
        /\ r = TheReader /\ pc[r] = "advance" /\ pc'[r] = "loop"
        /\ rCellPos' = cifo_next_pos(rCellPos) /\ wCellPos # rCellPos
    BY FlowShape, UnreadHead DEF ReadAdvance, Goto, TypeOK, writeVars, Procs, RingInv, ReaderView
  <1>2. u \in Nat /\ u > 0 /\ u' = u - 1 /\ u \in 0 .. CellCnt - 1
    BY <1>1, AdvanceCount, CellAtRange, CountNat, CellCntAssumption DEF TypeOK, cifo_used_count
  <1>3. ASSUME NEW i \in 1 .. u - 1 PROVE CellLists'[i] = CellLists[i + 1]
    <2>1. /\ i \in 1 .. CellCnt /\ i + 1 \in 1 .. CellCnt /\ (i + 1) - 1 = i /\ (i - 1) + 1 = i
          /\ i - 1 \in 0 .. u - 1
      BY <1>2, CellCntAssumption
    <2>2. CellAt(i - 1)' = CellAt((i - 1) + 1)
      BY <1>1, <2>1, CellAtAdvance
    <2>3. /\ CellLists'[i] = ListAt(nont', cell'[CellAt(i - 1)'])
          /\ CellLists[i + 1] = ListAt(nont, cell[CellAt((i + 1) - 1)])
      BY <2>1 DEF CellLists
    <2> QED BY <1>1, <2>1, <2>2, <2>3
  <1>4. CellLists \in [1 .. CellCnt -> Seq(Node)] /\ CellLists' \in [1 .. CellCnt -> Seq(Node)]
    BY <1>1, CellListsType, CellListsTypeNext DEF OwnInv
  <1>5. Joined(CellLists', 0)[u - 1] = Joined(CellLists, 1)[u]
    <2>1. u - 1 \in Nat /\ (u - 1) + 1 = u /\ (u - 1) + 1 <= CellCnt
      BY <1>2, CellCntAssumption
    <2> HIDE DEF u
    <2>2. Joined(CellLists', 0)[u - 1] = Joined(CellLists, 1)[(u - 1) + 1]
      BY <1>3, <1>4, <2>1, JoinedShift
    <2> QED BY <2>1, <2>2
  <1>6. Skip = 1 /\ Skip' = 0
    BY <1>1 DEF Skip
  <1>7. UnreadAfter(Skip)' = UnreadAfter(Skip)
    BY <1>2, <1>5, <1>6 DEF UnreadAfter
  <1>8. ReadList' = ReadList /\ ListOf(Writers, input)' = ListOf(Writers, input)
    BY <1>1 DEF ReadList, ListOf
  <1> QED BY <1>1, <1>7, <1>8, FlowShape, FlowShapeNext

(* A reader that enters its loop has no list yet.                          *)
LEMMA SnapFlow ==
    ASSUME Configured, TypeOK, HolderInv, NEW r \in Readers, ReadSnap(r)
    PROVE  InFlight' = InFlight
  <1>1. /\ UNCHANGED <<nont, wOffset, cell, wCellPos, rCellPos, input, pHead>>
        /\ r = TheReader /\ pc[r] = "snap" /\ pc'[r] = "loop" /\ pHead[r] = Null
    BY FlowShape DEF ReadSnap, Goto, TypeOK, chanVars, writeVars, readVars, Procs, HolderInv
  <1>2. ReadList' = ReadList
    BY <1>1 DEF ReadList, ListAt
  <1>3. UnreadAfter(Skip)' = UnreadAfter(Skip) /\ ListOf(Writers, input)' = ListOf(Writers, input)
    BY <1>1 DEF Skip, UnreadAfter, CellLists, CellAt, cifo_used_count, ListOf
  <1> QED BY <1>1, <1>2, <1>3, FlowShape, FlowShapeNext

(* A read returns the oldest nodes, all of its joined list, and nothing    *)
(* leaves the channel when it returns 0.                                   *)
LEMMA ReturnFlow ==
    ASSUME Configured, TypeOK, OwnInv, NEW r \in Readers, ReadReturn(r)
    PROVE  UNCHANGED F!vars \/ F!Get
  <1>1. /\ UNCHANGED <<nont, wOffset, cell, wCellPos, rCellPos, input, pHead>>
        /\ r = TheReader /\ pc[r] = "loop"
        /\ pc'[r] = IF pHead[r] = Null THEN "idle" ELSE "consume"
    BY FlowShape DEF ReadReturn, Goto, TypeOK, chanVars, writeVars, Procs
  <1> DEFINE a == ListAt(nont, pHead[r])
             b == UnreadAfter(Skip)
             c == ListOf(Writers, input)
             d == ListAt(nont, wOffset)
             rest == (b \o c) \o d
  <1>2. a = ReadList /\ ReadList' = <<>>
    BY <1>1 DEF ReadList
  <1>r. Returned = <<>> /\ Returned' = a
    BY <1>1, ReturnedShape, ReturnedShapeNext DEF ListAt
  <1>3. UnreadAfter(Skip)' = b /\ ListOf(Writers, input)' = c
    BY <1>1 DEF Skip, UnreadAfter, CellLists, CellAt, cifo_used_count, ListOf
  <1>4. a \in Seq(Node) /\ b \in Seq(Node) /\ c \in Seq(Node) /\ d \in Seq(Node)
    <2>1. Skip \in Nat
      BY DEF Skip
    <2> QED BY <1>2, <2>1, FlowTypes DEF OwnInv
  <1>5. InFlight = ((a \o b) \o c) \o d /\ InFlight' = ((<<>> \o b) \o c) \o d
    BY <1>1, <1>2, <1>3, FlowShape, FlowShapeNext
  <1> HIDE DEF a, b, c, d
  <1>6. <<>> \o b = b /\ ((a \o b) \o c) \o d = a \o rest
    <2>1. a \o b \in Seq(Node) /\ b \o c \in Seq(Node)
      BY <1>4
    <2>2. <<>> \o b = b
      BY <1>4, ConcatEmptySeq
    <2>3. (a \o b) \o c = a \o (b \o c)
      BY <1>4, ConcatAssociative
    <2>4. (a \o (b \o c)) \o d = a \o ((b \o c) \o d)
      <3>1. PICK p \in Seq(Node) : p = b \o c
        BY <2>1
      <3>2. (a \o p) \o d = a \o (p \o d)
        BY ONLY <1>4, ConcatAssociative, SMTT(30)
      <3> QED BY <3>1, <3>2
    <2> QED BY <2>2, <2>3, <2>4
  <1>7. InFlight = a \o rest /\ InFlight' = rest /\ rest \in Seq(Node)
    <2>1. rest \in Seq(Node)
      BY <1>4
    <2> QED BY <1>5, <1>6, <2>1
  <1> HIDE DEF rest
  <1>8. CASE Len(a) = 0
    <2>1. a = <<>>
      BY <1>4, <1>8
    <2>2. <<>> \o rest = rest
      BY <1>7, ConcatEmptySeq
    <2> QED BY <1>7, <1>r, <2>1, <2>2 DEF F!vars
  <1>9. CASE Len(a) # 0
    <2> DEFINE s == a \o rest
               k == Len(a)
               m == Len(rest)
    <2>1. /\ s \in Seq(Node) /\ k \in Nat /\ m \in Nat /\ k > 0 /\ Len(s) = k + m
          /\ \A i \in 1 .. k + m : s[i] = IF i <= k THEN a[i] ELSE rest[i - k]
      BY <1>4, <1>7, <1>9, ConcatProperties, LenProperties
    <2> HIDE DEF s, k, m
    <2>2. SubSeq(s, k + 1, Len(s)) = rest
      <3> DEFINE t == SubSeq(s, k + 1, k + m)
      <3>1. k + 1 \in Int /\ k + m \in Int /\ \A i \in k + 1 .. k + m : s[i] \in Node
        <4>1. s \in [1 .. k + m -> Node]
          BY <2>1, LenProperties
        <4> QED BY <2>1, <4>1
      <3>2. /\ t \in Seq(Node)
            /\ Len(t) = IF k + 1 <= k + m THEN (k + m) - (k + 1) + 1 ELSE 0
            /\ \A i \in 1 .. (k + m) - (k + 1) + 1 : t[i] = s[(k + 1) + i - 1]
        BY <3>1, SubSeqProperties
      <3> HIDE DEF t
      <3>3. Len(t) = m /\ (k + m) - (k + 1) + 1 = m
        BY <2>1, <3>2
      <3>4. ASSUME NEW i \in 1 .. Len(t) PROVE t[i] = rest[i]
        <4>1. /\ i \in 1 .. (k + m) - (k + 1) + 1 /\ (k + 1) + i - 1 = k + i /\ k + i \in 1 .. k + m
              /\ ~(k + i <= k) /\ (k + i) - k = i
          BY <2>1, <3>3
        <4> QED BY <2>1, <3>2, <4>1
      <3>5. t = rest
        BY <1>7, <3>2, <3>3, <3>4, SeqEqual DEF m
      <3> QED BY <2>1, <3>5 DEF t
    <2>3. k \in 1 .. Len(s)
      BY <2>1
    <2>4. SubSeq(s, 1, k) = a
      <3> DEFINE t == SubSeq(s, 1, k)
      <3>1. 1 \in Int /\ k \in Int /\ \A i \in 1 .. k : s[i] \in Node
        <4>1. s \in [1 .. k + m -> Node]
          BY <2>1, LenProperties
        <4> QED BY <2>1, <4>1
      <3>2. /\ t \in Seq(Node) /\ Len(t) = (IF 1 <= k THEN k - 1 + 1 ELSE 0)
            /\ \A i \in 1 .. k - 1 + 1 : t[i] = s[1 + i - 1]
        BY <3>1, SubSeqProperties
      <3> HIDE DEF t
      <3>3. Len(t) = k /\ k - 1 + 1 = k
        BY <2>1, <3>2
      <3>4. ASSUME NEW i \in 1 .. Len(t) PROVE t[i] = a[i]
        <4>1. i \in 1 .. k - 1 + 1 /\ 1 + i - 1 = i /\ i \in 1 .. k + m /\ i <= k
          BY <2>1, <3>3
        <4> QED BY <2>1, <3>2, <4>1
      <3>5. t = a
        BY <1>4, <3>2, <3>3, <3>4, SeqEqual DEF k
      <3> QED BY <3>5 DEF t
    <2>5. \E j \in 1 .. Len(InFlight) : /\ Returned' = SubSeq(InFlight, 1, j)
                                        /\ InFlight' = SubSeq(InFlight, j + 1, Len(InFlight))
      BY <1>7, <1>r, <2>2, <2>3, <2>4 DEF s
    <2> QED BY <1>r, <2>5 DEF F!Get
  <1> QED BY <1>8, <1>9

(* The nodes a caller gives back are no longer in flight.                  *)
LEMMA ConsumeFlow ==
    ASSUME Configured, TypeOK, RingInv, OwnInv, TypeOK', OwnInv', NEW r \in Readers, Consume(r)
    PROVE  UNCHANGED F!vars \/ F!Done
  <1>1. PICK own : Owned(own)
    BY DEF OwnInv
  <1> DEFINE X == {Owner("pHead", r)}
  <1>2. /\ UNCHANGED <<wOffset, cell, wCellPos, rCellPos, input>>
        /\ r = TheReader /\ pc[r] = "consume" /\ pc'[r] = "idle"
        /\ Inverse2(nont) /\ Inverse2(nont') /\ OneList(own) /\ pHead[r] \in NodeOrNull
    BY <1>1, FlowShape DEF Consume, Goto, TypeOK, chanVars, writeVars, Procs, OwnInv, Owned
  <1>3. \A e \in Node : own[e] \notin X => nont'.next[e] = nont.next[e]
    <2> SUFFICES ASSUME NEW e \in Node, own[e] \notin X PROVE nont'.next[e] = nont.next[e]
      OBVIOUS
    <2>1. \A n \in NodesAt(pHead[r]) : pHead[r] # Null /\ own[n] = own[pHead[r]]
      BY <1>2, ListOwner
    <2>2. e \notin NodesAt(pHead[r])
      BY <1>1, <1>2, <2>1 DEF Owned, ReadersOwned
    <2>3. ~ \E i \in DOMAIN ListAt(nont, pHead[r]) : ListAt(nont, pHead[r])[i] = e
      BY <2>2 DEF NodesAt
    <2> QED BY <2>3 DEF Consume, Node
  <1>4. /\ \A a : Owner("cell", a) \notin X /\ Owner("input", a) \notin X
        /\ Owner("wOffset", 0) \notin X
    BY OwnersDiffer
  <1> HIDE DEF X
  <1>5. ListOf(Writers, input)' = ListOf(Writers, input) /\ ListAt(nont', wOffset') = ListAt(nont, wOffset)
    BY <1>1, <1>2, <1>3, <1>4, OtherFlow
  <1>6. UnreadAfter(0)' = UnreadAfter(0)
    <2>1. 0 \in Nat /\ \A i \in 0 .. cifo_used_count - 1 : Owner("cell", CellAt(i)) \notin X
      BY <1>4
    <2> QED BY <1>1, <1>2, <1>3, <2>1, OtherCells
  <1>7. Skip = 0 /\ Skip' = 0 /\ ReadList = <<>> /\ ReadList' = <<>>
    BY <1>2 DEF Skip, ReadList
  <1>8. UnreadAfter(Skip)' = UnreadAfter(Skip)
    BY <1>6, <1>7 DEF UnreadAfter
  <1>9. InFlight' = InFlight
    BY <1>5, <1>7, <1>8, FlowShape, FlowShapeNext
  <1>10. Returned' = <<>>
    BY <1>2, ReturnedShapeNext
  <1> QED BY <1>9, <1>10 DEF F!vars, F!Done

(* Every step but a process's death is a step of the FIFO, or leaves it.   *)
LEMMA FlowStep ==
    ASSUME Configured, TypeOK, RingInv, OwnInv, HolderInv, TypeOK', OwnInv', [Next]_vars,
           crashes' = crashes
    PROVE  ChannelStep
  <1> USE DEF Goto, chanVars, readVars, writeVars, envVars, Accepts
  <1> DEFINE Same  == Returned' = Returned /\ \A v \in Writers : ~Accepts(v)
             Quiet == InFlight' = InFlight /\ Same
  <1>q. Quiet => ChannelStep
    BY DEF ChannelStep, F!vars
  <1>0. /\ pc \in [Procs -> WriterPC \cup ReaderPC] /\ crashes \in Nat
        /\ Writers \subseteq Procs /\ Readers \subseteq Procs /\ \A w \in Writers : w \notin Readers
        /\ TheReader \in Readers /\ Readers = {TheReader}
    BY FlowShape, ProcsAssumption, CrashAssumption DEF TypeOK, Procs
  <1>1. ASSUME NEW w \in Writers, NEW n \in Node, WriteCall(w, n) PROVE ChannelStep
    <2>1. InFlight' = InFlight
      BY <1>0, <1>1, QuietFlow DEF WriteCall
    <2>2. Same
      BY <1>0, <1>1, SameReturned DEF WriteCall
    <2> QED BY <1>q, <2>1, <2>2
  <1>2. ASSUME NEW w \in Writers, WriteP(w) PROVE ChannelStep
    <2>1. InFlight' = InFlight
      BY <1>0, <1>2, QuietFlow DEF WriteP
    <2>2. Same
      BY <1>0, <1>2, SameReturned DEF WriteP
    <2> QED BY <1>q, <2>1, <2>2
  <1>3. ASSUME NEW w \in Writers, WriteReadPos(w) PROVE ChannelStep
    <2>1. InFlight' = InFlight
      BY <1>0, <1>3, QuietFlow DEF WriteReadPos
    <2>2. Same
      BY <1>0, <1>3, SameReturned DEF WriteReadPos
    <2> QED BY <1>q, <2>1, <2>2
  <1>4. ASSUME NEW w \in Writers, WriteFull(w) PROVE ChannelStep
    <2>1. InFlight' = InFlight
      BY <1>0, <1>4, QuietFlow DEF WriteFull
    <2>2. Same
      BY <1>0, <1>4, SameReturned DEF WriteFull
    <2> QED BY <1>q, <2>1, <2>2
  <1>5. ASSUME NEW w \in Writers, WriteBuffer(w) PROVE ChannelStep
    <2>1. Accepts(w)
      BY <1>0, <1>5 DEF WriteBuffer
    <2>2. F!Put(offset[w])
      BY <1>5, BufferFlow DEF F!Put
    <2> QED BY <2>1, <2>2 DEF ChannelStep
  <1>6. ASSUME NEW w \in Writers, WriteCount(w) PROVE ChannelStep
    <2>1. InFlight' = InFlight
      BY <1>0, <1>6, QuietFlow DEF WriteCount
    <2>2. Same
      BY <1>0, <1>6, SameReturned DEF WriteCount
    <2> QED BY <1>q, <2>1, <2>2
  <1>7. ASSUME NEW w \in Writers, WriteFlush(w) PROVE ChannelStep
    <2>1. Same
      BY <1>0, <1>7, SameReturned DEF WriteFlush
    <2> QED BY <1>7, <1>q, <2>1, FlushFlow
  <1>8. ASSUME NEW w \in Writers, WriteKeep(w) PROVE ChannelStep
    <2>1. InFlight' = InFlight
      BY <1>0, <1>8, QuietFlow DEF WriteKeep
    <2>2. Same
      BY <1>0, <1>8, SameReturned DEF WriteKeep
    <2> QED BY <1>q, <2>1, <2>2
  <1>9. ASSUME NEW w \in Writers, WriteStore(w) PROVE ChannelStep
    <2>1. Same
      BY <1>0, <1>9, SameReturned DEF WriteStore
    <2> QED BY <1>9, <1>q, <2>1, StoreFlow
  <1>10. ASSUME NEW w \in Writers, WritePublish(w) PROVE ChannelStep
    <2>1. Same
      BY <1>0, <1>10, SameReturned DEF WritePublish
    <2> QED BY <1>10, <1>q, <2>1, PublishFlow
  <1>11. ASSUME NEW w \in Writers, WriteV(w) PROVE ChannelStep
    <2>1. InFlight' = InFlight
      BY <1>0, <1>11, QuietFlow DEF WriteV
    <2>2. Same
      BY <1>0, <1>11, SameReturned DEF WriteV
    <2> QED BY <1>q, <2>1, <2>2
  <1>12. ASSUME NEW r \in Readers, ReadP(r) PROVE ChannelStep
    <2>1. InFlight' = InFlight
      BY <1>0, <1>12, QuietFlow DEF ReadP
    <2>2. Same
      BY <1>0, <1>12, SameReturned DEF ReadP
    <2> QED BY <1>q, <2>1, <2>2
  <1>13. ASSUME NEW r \in Readers, ReadSnap(r) PROVE ChannelStep
    <2>1. Same
      BY <1>0, <1>13, SameReturned DEF ReadSnap
    <2> QED BY <1>13, <1>q, <2>1, SnapFlow
  <1>14. ASSUME NEW r \in Readers, ReadCell(r) PROVE ChannelStep
    <2>1. Same
      BY <1>0, <1>14, SameReturned DEF ReadCell
    <2> QED BY <1>14, <1>q, <2>1, CellFlow
  <1>15. ASSUME NEW r \in Readers, ReadAdvance(r) PROVE ChannelStep
    <2>1. Same
      BY <1>0, <1>15, SameReturned DEF ReadAdvance
    <2> QED BY <1>15, <1>q, <2>1, AdvanceFlow
  <1>16. ASSUME NEW r \in Readers, ReadReturn(r) PROVE ChannelStep
    <2>1. \A v \in Writers : ~Accepts(v)
      BY <1>0, <1>16 DEF ReadReturn
    <2> QED BY <1>16, <2>1, ReturnFlow DEF ChannelStep
  <1>17. ASSUME NEW r \in Readers, Consume(r) PROVE ChannelStep
    <2>1. \A v \in Writers : ~Accepts(v)
      BY <1>0, <1>17 DEF Consume
    <2> QED BY <1>17, <2>1, ConsumeFlow DEF ChannelStep
  <1>18. ASSUME NEW n \in WTune, SetWBuffCnt(n) PROVE ChannelStep
    <2>1. InFlight' = InFlight
      BY <1>0, <1>18, QuietFlow DEF SetWBuffCnt
    <2>2. Same
      BY <1>0, <1>18, SameReturned DEF SetWBuffCnt
    <2> QED BY <1>q, <2>1, <2>2
  <1>19. ASSUME NEW n \in RTune, SetRBuffCnt(n) PROVE ChannelStep
    <2>1. InFlight' = InFlight
      BY <1>0, <1>19, QuietFlow DEF SetRBuffCnt
    <2>2. Same
      BY <1>0, <1>19, SameReturned DEF SetRBuffCnt
    <2> QED BY <1>q, <2>1, <2>2
  <1>20. ASSUME NEW p \in Procs, Crash(p) PROVE FALSE
    BY <1>0, <1>20 DEF Crash
  <1>21. ASSUME UNCHANGED vars PROVE ChannelStep
    <2>1. InFlight' = InFlight
      BY <1>21, QuietFlow DEF vars
    <2>2. Same
      BY <1>0, <1>21, SameReturned DEF vars
    <2> QED BY <1>q, <2>1, <2>2
  <1> HIDE DEF Same, Quiet
  <1> QED BY <1>1, <1>2, <1>3, <1>4, <1>5, <1>6, <1>7, <1>8, <1>9, <1>10,
             <1>11, <1>12, <1>13, <1>14, <1>15, <1>16, <1>17, <1>18, <1>19, <1>20,
             <1>21, NextCases

(* Nothing is in flight in a new channel.                                  *)
LEMMA FlowStart ==
    ASSUME Configured, Init
    PROVE  HolderInv /\ F!Init
  <1>1. HolderInv
    BY DEF Init, HolderInv
  <1>2. TypeOK /\ Inverse2(nont)
    BY InitInv, OwnStart DEF OwnInv
  <1>3. cifo_used_count = 0 /\ pc[TheReader] = "idle" /\ wOffset = Null /\ \A w \in Writers : input[w] = Null
    BY FlowShape DEF Init, cifo_used_count, cifo_get_count, Procs
  <1>4. ReadList = <<>> /\ ListOf(Writers, input) = <<>> /\ ListAt(nont, wOffset) = <<>> /\ Skip = 0
    BY <1>3 DEF ReadList, ListOf, ListAt, Skip
  <1>5. UnreadAfter(0) = <<>>
    <2>1. 0 \in 0 .. CellCnt /\ 0 \in Nat /\ 0 <= 0
      BY CellCntAssumption
    <2>2. Joined(CellLists, 0)[0] = <<>>
      BY <1>2, <2>1, CellListsType, JoinedIs
    <2> QED BY <1>3, <2>2 DEF UnreadAfter
  <1>6. InFlight = ((<<>> \o <<>>) \o <<>>) \o <<>>
    BY <1>4, <1>5, FlowShape
  <1>7. <<>> \o <<>> = <<>>
    OBVIOUS
  <1>8. InFlight = <<>>
    BY <1>6, <1>7
  <1>9. Returned = <<>>
    BY <1>3, ReturnedShape
  <1> QED BY <1>1, <1>8, <1>9 DEF F!Init

(* A channel is a FIFO of nodes for every ring size, number of writers and *)
(* buffer counts: a node enters it when its cifo_write passes the full     *)
(* check, leaves it only in the list a cifo_read returns, and that list is *)
(* the oldest nodes in the order of the writes.  Only the death of a       *)
(* process is excepted, not what the others do after it.                   *)
THEOREM ChannelIsFifo ==
    ASSUME Configured
    PROVE  Spec => FifoRefinement
  <1> DEFINE Inv == TypeOK /\ RingInv /\ OwnInv /\ HolderInv
  <1>1. Init => Inv /\ F!Init
    BY InitInv, OwnStart, FlowStart
  <1>2. Inv /\ [Next]_vars => Inv'
    BY TypeStep, RingStep, OwnStep, HolderStep
  <1>3. Inv /\ Inv' /\ [Next]_vars => [crashes' = crashes => ChannelStep]_vars
    BY FlowStep
  <1> QED BY <1>1, <1>2, <1>3, PTL DEF Spec, FifoRefinement
=============================================================================
