----------------------------- MODULE MemsProofs -----------------------------
(***************************************************************************)
(* Proofs about one MEMS zone, for every number of nodes, processes and    *)
(* crashes.  Types hold with any number of collectors.  Ownership is       *)
(* proved without a collector: with one it does not hold (run              *)
(* mems_gc_race).  The argument: the scan is exclusive, so nobody else     *)
(* marks the node a process has found free; mems_free, which anybody may   *)
(* run at any time, only frees a node its caller owns, and a node that is  *)
(* being allocated is nobody's.  The cursor leaves the zone only when a    *)
(* process dies at "wrap", and the proofs say what holds after that death  *)
(* and what does not.  Then that mems_alloc returns NULL only from a full  *)
(* zone, wherever in the zone the cursor stands, and that the counters     *)
(* fall short of the allocated nodes by no more than the deaths between    *)
(* mark and count explain.                                                 *)
(***************************************************************************)
EXTENDS Mems, FiniteSetTheorems, TLAPS

(* The next-state relation, action by action.                              *)
LEMMA NextCases ==
    ASSUME Next
    PROVE  \/ \E p \in Procs : AllocCall(p)
           \/ \E p \in Procs : AllocP(p)
           \/ \E p \in Procs : AllocScan(p)
           \/ \E p \in Procs : AllocWrap(p)
           \/ \E p \in Procs : AllocFound(p)
           \/ \E p \in Procs : AllocSkip(p)
           \/ \E p \in Procs : AllocStamp(p)
           \/ \E p \in Procs : AllocMark(p)
           \/ \E p \in Procs : AllocCount(p)
           \/ \E p \in Procs : AllocV(p)
           \/ \E p \in Procs : FreeBroken(p)
           \/ \E p \in Procs : Crash(p)
           \/ \E p \in Procs, n \in Place : FreeCall(p, n)
           \/ \E u \in Users : FreeCheck(u)
           \/ \E u \in Users : FreeStore(u)
           \/ \E u \in Users : FreeLoad(u)
           \/ \E u \in Users : FreeCount(u)
           \/ \E g \in Collectors : GcStart(g)
           \/ \E g \in Collectors : GcLook(g)
           \/ \E g \in Collectors : GcOld(g)
           \/ \E g \in Collectors : GcNext(g)
           \/ Tick
  BY DEF Next, mems_alloc, mems_free, mems_garbage_collector, Users

(* What the end of one round of the collector's loop, or the return of     *)
(* mems_free, does to the locals: the index stays in the zone.             *)
LEMMA AfterNodeType ==
    ASSUME TypeOK, NEW u \in Users, NEW from, AfterNode(u, from), pFree[u] \in Place
    PROVE  /\ pFree' \in [Users -> Place \cup {Null}]
           /\ pc' \in [Users -> {"idle", "P", "broken", "look", "age"} \cup InSection \cup InFree]
           /\ \/ pc'[u] = "look" /\ u \in Collectors /\ pFree'[u] \in Node
              \/ pc'[u] = "idle"
           /\ \A w \in Users : w # u => pc'[w] = pc[w] /\ pFree'[w] = pFree[w]
  <1> DEFINE more == u \in Collectors /\ pFree[u] + 1 < TotCnt
  <1>1. more => pFree[u] + 1 \in Node
    BY ZoneAssumption DEF Node, Place, Outside
  <1>2. /\ pc' = [pc EXCEPT ![u] = IF more THEN "look" ELSE "idle"]
        /\ pFree' = [pFree EXCEPT ![u] = IF more THEN pFree[u] + 1 ELSE Null]
    BY DEF AfterNode, Goto
  <1>3. more => u \in Collectors
    OBVIOUS
  <1> HIDE DEF more
  <1> QED BY <1>1, <1>2, <1>3 DEF TypeOK, Place


(* Every step of the zone keeps its variables in their types: the scan     *)
(* ends after TotCnt + 1 tests and a collector's index stays in the zone.  *)
LEMMA TypeStep ==
    ASSUME TypeOK, [Next]_vars
    PROVE  TypeOK'
  <1> USE ProcsAssumption, ZoneAssumption, FlagAssumption, BoundAssumption
      DEF TypeOK, Users, Node, Place, Outside, Store, InSection, InFree,
          MEMS_FREE, MEMS_ALLOCED, zoneVars, hdrVars, envVars
  <1>1. ASSUME NEW p \in Procs, AllocCall(p) PROVE TypeOK'
    BY <1>1 DEF AllocCall, Goto
  <1>2. ASSUME NEW p \in Procs, AllocP(p) PROVE TypeOK'
    <2>1. freeAtP' \in [Procs -> SUBSET Node]
      BY <1>2 DEF AllocP, FreeNodes
    <2>2. iDebug' \in [Procs -> 0 .. TotCnt + 1] /\ iDebug'[p] = 0
      BY <1>2 DEF AllocP
    <2>3. sem' \in Procs \cup {Null}
      BY <1>2 DEF AllocP, P
    <2>4. \A q \in Procs : pc'[q] \in {"scan", "wrap", "test"} => iDebug'[q] <= TotCnt
      BY <1>2, <2>2 DEF AllocP, Goto
    <2> QED BY <1>2, <2>1, <2>2, <2>3, <2>4 DEF AllocP, Goto
  <1>3. ASSUME NEW p \in Procs, AllocScan(p) PROVE TypeOK'
    <2>1. offsetFreeList' \in Place
      BY <1>3 DEF AllocScan
    <2>2. pc'[p] \in {"wrap", "test"} /\ pc[p] = "scan"
      BY <1>3 DEF AllocScan, Goto
    <2> QED BY <1>3, <2>1, <2>2 DEF AllocScan, Goto
  <1>3w. ASSUME NEW p \in Procs, AllocWrap(p) PROVE TypeOK'
    <2>1. offsetFreeList' \in Place
      BY <1>3w DEF AllocWrap
    <2> QED BY <1>3w, <2>1 DEF AllocWrap, Goto
  <1>4. ASSUME NEW p \in Procs, AllocFound(p) PROVE TypeOK'
    BY <1>4 DEF AllocFound, Goto
  <1>5. ASSUME NEW p \in Procs, AllocSkip(p) PROVE TypeOK'
    <2>0. pc[p] = "test" /\ iDebug[p] \in 0 .. TotCnt + 1 /\ iDebug[p] <= TotCnt
      BY <1>5 DEF AllocSkip, Goto
    <2>1. iDebug[p] \in 0 .. TotCnt /\ iDebug[p] + 1 \in 0 .. TotCnt + 1
      BY ONLY <2>0, ZoneAssumption
    <2>2. iDebug' \in [Procs -> 0 .. TotCnt + 1] /\ iDebug'[p] = iDebug[p] + 1
      BY <1>5, <2>1 DEF AllocSkip
    <2>3. pc'[p] = "scan" => iDebug'[p] <= TotCnt
      BY <1>5, <2>1, <2>2, SMTT(30) DEF AllocSkip, Goto
    <2>4. pc'[p] \in {"scan", "V"}
      BY <1>5 DEF AllocSkip, Goto
    <2>5. \A q \in Procs : pc'[q] \in {"scan", "wrap", "test"} => iDebug'[q] <= TotCnt
      BY <1>5, <2>3, <2>4 DEF AllocSkip, Goto
    <2> QED BY <1>5, <2>2, <2>4, <2>5 DEF AllocSkip, Goto
  <1>6. ASSUME NEW p \in Procs, AllocStamp(p) PROVE TypeOK'
    BY <1>6 DEF AllocStamp, Goto
  <1>7. ASSUME NEW p \in Procs, AllocMark(p) PROVE TypeOK'
    BY <1>7 DEF AllocMark, Goto
  <1>8. ASSUME NEW p \in Procs, AllocCount(p) PROVE TypeOK'
    <2>1. createCnt' \in Nat
      BY <1>8 DEF AllocCount
    <2> QED BY <1>8, <2>1 DEF AllocCount, Goto
  <1>9. ASSUME NEW p \in Procs, AllocV(p) PROVE TypeOK'
    <2>1. held' \in [Procs -> SUBSET Place]
      BY <1>9, SMTT(30) DEF AllocV
    <2>2. freeAtP' \in [Procs -> SUBSET Node] /\ iDebug' \in [Procs -> 0 .. TotCnt + 1]
      BY <1>9, SMTT(30) DEF AllocV
    <2> QED BY <1>9, <2>1, <2>2 DEF AllocV, Goto, V
  <1>10. ASSUME NEW p \in Procs, FreeBroken(p) PROVE TypeOK'
    BY <1>10 DEF FreeBroken, Goto
  <1>11. ASSUME NEW p \in Procs, Crash(p) PROVE TypeOK'
    <2>1. held' \in [Procs -> SUBSET Place] /\ freeAtP' \in [Procs -> SUBSET Node]
      BY <1>11 DEF Crash
    <2>2. crashes' \in 0 .. MaxCrashes
      BY <1>11 DEF Crash
    <2>3. iDebug' \in [Procs -> 0 .. TotCnt + 1] /\ oldDel' \in [Users -> Nat]
      BY <1>11 DEF Crash
    <2>4. stray' \in BOOLEAN /\ missed' \in Nat
      BY <1>11 DEF Crash
    <2> QED BY <1>11, <2>1, <2>2, <2>3, <2>4 DEF Crash, Release
  <1>12. ASSUME NEW p \in Procs, NEW n \in Place, FreeCall(p, n) PROVE TypeOK'
    BY <1>12 DEF FreeCall, Goto
  <1>13. ASSUME NEW u \in Users, FreeCheck(u) PROVE TypeOK'
    BY <1>13 DEF FreeCheck, Goto
  <1>14. ASSUME NEW u \in Users, FreeStore(u) PROVE TypeOK'
    BY <1>14 DEF FreeStore, Goto
  <1>15. ASSUME NEW u \in Users, FreeLoad(u) PROVE TypeOK'
    BY <1>15 DEF FreeLoad, Goto
  <1>16. ASSUME NEW u \in Users, FreeCount(u) PROVE TypeOK'
    <2>0. /\ oldDel[u] \in Nat /\ delCnt' \in {delCnt, oldDel[u] + 1}
          /\ oldDel' = [oldDel EXCEPT ![u] = 0]
      BY <1>16 DEF FreeCount
    <2>1. delCnt' \in Nat /\ oldDel' \in [Users -> Nat]
      <3>1. delCnt' \in Nat
        BY <2>0, SMTT(30)
      <3>2. oldDel' \in [Users -> Nat]
        BY <2>0
      <3> QED BY <3>1, <3>2
    <2>2. AfterNode(u, "fcount") /\ pc[u] = "fcount"
      BY <1>16 DEF FreeCount, AfterNode, Goto
    <2>3. pFree[u] \in Place
      BY <2>2
    <2>4. UNCHANGED <<hdrVars, offsetFreeList, createCnt, sem, iDebug, cur_time,
                      held, freeAtP, envVars>>
      BY <1>16 DEF FreeCount
    <2> QED BY <2>1, <2>2, <2>3, <2>4, AfterNodeType
  <1>17. ASSUME NEW g \in Collectors, GcStart(g) PROVE TypeOK'
    <2>1. pFree' \in [Users -> Place \cup {Null}] /\ pFree'[g] \in Node
      BY <1>17, SMTT(30) DEF GcStart
    <2>2. cur_time' \in [Collectors -> 0 .. MaxTime]
      BY <1>17 DEF GcStart
    <2>3. \A w \in Users : w # g => pc'[w] = pc[w] /\ pFree'[w] = pFree[w]
      BY <1>17 DEF GcStart, Goto
    <2>4. /\ pc' \in [Users -> {"idle", "P", "broken", "look", "age"} \cup InSection \cup InFree]
          /\ pc'[g] = "look"
      BY <1>17 DEF GcStart, Goto
    <2>5. UNCHANGED <<hdrVars, zoneVars, sem, iDebug, oldDel, held, freeAtP, envVars>>
      BY <1>17 DEF GcStart
    <2> QED BY <2>1, <2>2, <2>3, <2>4, <2>5
  <1>18. ASSUME NEW g \in Collectors, GcLook(g) PROVE TypeOK'
    BY <1>18 DEF GcLook, Goto
  <1>19. ASSUME NEW g \in Collectors, GcOld(g) PROVE TypeOK'
    BY <1>19 DEF GcOld, Goto
  <1>20. ASSUME NEW g \in Collectors, GcNext(g) PROVE TypeOK'
    <2>1. PICK from \in {"look", "age", "fcheck"} : AfterNode(g, from)
      BY <1>20 DEF GcNext
    <2>2. pFree[g] \in Place
      BY <2>1 DEF AfterNode, Goto
    <2>3. UNCHANGED <<hdrVars, zoneVars, sem, iDebug, oldDel, cur_time, held,
                      freeAtP, envVars>>
      BY <1>20 DEF GcNext
    <2> QED BY <2>1, <2>2, <2>3, AfterNodeType
  <1>21. ASSUME Tick PROVE TypeOK'
    <2>1. now' \in 0 .. MaxTime
      BY <1>21 DEF Tick
    <2> QED BY <1>21, <2>1 DEF Tick
  <1>22. ASSUME UNCHANGED vars PROVE TypeOK'
    BY <1>22 DEF vars
  <1> QED BY <1>1, <1>2, <1>3, <1>3w, <1>4, <1>5, <1>6, <1>7, <1>8, <1>9,
             <1>10, <1>11, <1>12, <1>13, <1>14, <1>15, <1>16, <1>17,
             <1>18, <1>19, <1>20, <1>21, <1>22, NextCases

-----------------------------------------------------------------------------
(* Two processes are never inside the scan of mems_alloc together.         *)
LEMMA Exclusive ==
    ASSUME SemConfigured, SectionHeld, NEW p \in Procs, NEW q \in Procs,
           pc[p] \in InSection, pc[q] \in InSection
    PROVE  p = q
  BY DEF SemConfigured, SectionHeld

(* Every step keeps the scan exclusive, with collectors or without.        *)
LEMMA SectionStep ==
    ASSUME TypeOK, SectionHeld, [Next]_vars
    PROVE  SectionHeld'
  <1> SUFFICES ASSUME SemFlag = MEMS_SEMA_ON, NEW v \in Procs, pc'[v] \in InSection
               PROVE  sem' = v
    BY DEF SectionHeld
  <1> USE ProcsAssumption
      DEF TypeOK, SectionHeld, Users, InSection, zoneVars, hdrVars, envVars
  <1>1. ASSUME NEW p \in Procs, AllocCall(p) PROVE sem' = v
    BY <1>1 DEF AllocCall, Goto
  <1>2. ASSUME NEW p \in Procs, AllocP(p) PROVE sem' = v
    BY <1>2 DEF AllocP, Goto, P
  <1>3. ASSUME NEW p \in Procs, AllocScan(p) PROVE sem' = v
    BY <1>3 DEF AllocScan, Goto
  <1>3w. ASSUME NEW p \in Procs, AllocWrap(p) PROVE sem' = v
    BY <1>3w DEF AllocWrap, Goto
  <1>4. ASSUME NEW p \in Procs, AllocFound(p) PROVE sem' = v
    BY <1>4 DEF AllocFound, Goto
  <1>5. ASSUME NEW p \in Procs, AllocSkip(p) PROVE sem' = v
    BY <1>5 DEF AllocSkip, Goto
  <1>6. ASSUME NEW p \in Procs, AllocStamp(p) PROVE sem' = v
    BY <1>6 DEF AllocStamp, Goto
  <1>7. ASSUME NEW p \in Procs, AllocMark(p) PROVE sem' = v
    BY <1>7 DEF AllocMark, Goto
  <1>8. ASSUME NEW p \in Procs, AllocCount(p) PROVE sem' = v
    BY <1>8 DEF AllocCount, Goto
  <1>9. ASSUME NEW p \in Procs, AllocV(p) PROVE sem' = v
    BY <1>9 DEF AllocV, Goto, V
  <1>10. ASSUME NEW p \in Procs, FreeBroken(p) PROVE sem' = v
    BY <1>10 DEF FreeBroken, Goto
  <1>11. ASSUME NEW p \in Procs, Crash(p) PROVE sem' = v
    BY <1>11 DEF Crash, Release
  <1>12. ASSUME NEW p \in Procs, NEW n \in Place, FreeCall(p, n) PROVE sem' = v
    BY <1>12 DEF FreeCall, Goto
  <1>13. ASSUME NEW u \in Users, FreeCheck(u) PROVE sem' = v
    BY <1>13 DEF FreeCheck, Goto
  <1>14. ASSUME NEW u \in Users, FreeStore(u) PROVE sem' = v
    BY <1>14 DEF FreeStore, Goto
  <1>15. ASSUME NEW u \in Users, FreeLoad(u) PROVE sem' = v
    BY <1>15 DEF FreeLoad, Goto
  <1>16. ASSUME NEW u \in Users, FreeCount(u) PROVE sem' = v
    BY <1>16 DEF FreeCount, AfterNode, Goto
  <1>17. ASSUME NEW g \in Collectors, GcStart(g) PROVE sem' = v
    BY <1>17 DEF GcStart, Goto
  <1>18. ASSUME NEW g \in Collectors, GcLook(g) PROVE sem' = v
    BY <1>18 DEF GcLook, Goto
  <1>19. ASSUME NEW g \in Collectors, GcOld(g) PROVE sem' = v
    BY <1>19 DEF GcOld, Goto
  <1>20. ASSUME NEW g \in Collectors, GcNext(g) PROVE sem' = v
    BY <1>20 DEF GcNext, AfterNode, Goto
  <1>21. ASSUME Tick PROVE sem' = v
    BY <1>21 DEF Tick
  <1>22. ASSUME UNCHANGED vars PROVE sem' = v
    BY <1>22 DEF vars
  <1> QED BY <1>1, <1>2, <1>3, <1>3w, <1>4, <1>5, <1>6, <1>7, <1>8, <1>9,
             <1>10, <1>11, <1>12, <1>13, <1>14, <1>15, <1>16, <1>17,
             <1>18, <1>19, <1>20, <1>21, <1>22, NextCases

-----------------------------------------------------------------------------
(* Without a collector every step keeps a node that is being taken         *)
(* private to its taker.  Marking it is safe because the scan is exclusive *)
(* and because a free node is nobody's; freeing one is safe because a node *)
(* being taken is in nobody's hands.                                       *)
LEMMA TakenStep ==
    ASSUME SemConfigured, Collectors = {}, TypeOK, PoolInv, [Next]_vars
    PROVE  TakenIsMine'
  <1> DEFINE Mine(v) ==
        /\ pc[v] \in {"stamp", "mark"} /\ pFree[v] \in Node => ucIsFree[pFree[v]] = MEMS_FREE
        /\ pc[v] \in {"count", "V"} /\ pFree[v] \in Node =>
              /\ ucIsFree[pFree[v]] = MEMS_ALLOCED
              /\ \A q \in Procs : pFree[v] \notin held[q]
        /\ pc[v] \in {"fcheck", "fstore"} => pFree[v] \in held[v]
  <1> SUFFICES ASSUME NEW v \in Procs PROVE Mine(v)'
    BY DEF TakenIsMine
  <1>0. Mine(v)
    BY DEF PoolInv, TakenIsMine
  <1> USE <1>0, ProcsAssumption, ZoneAssumption
      DEF TypeOK, Users, InSection, InFree, MEMS_FREE, MEMS_ALLOCED, Store,
          zoneVars, hdrVars, envVars
  <1>1. ASSUME NEW p \in Procs, AllocCall(p) PROVE Mine(v)'
    BY <1>1 DEF AllocCall, Goto
  <1>2. ASSUME NEW p \in Procs, AllocP(p) PROVE Mine(v)'
    BY <1>2 DEF AllocP, Goto, P
  <1>3. ASSUME NEW p \in Procs, AllocScan(p) PROVE Mine(v)'
    BY <1>3 DEF AllocScan, Goto
  <1>3w. ASSUME NEW p \in Procs, AllocWrap(p) PROVE Mine(v)'
    BY <1>3w DEF AllocWrap, Goto
  <1>4. ASSUME NEW p \in Procs, AllocFound(p) PROVE Mine(v)'
    BY <1>4 DEF AllocFound, Goto, Reads
  <1>5. ASSUME NEW p \in Procs, AllocSkip(p) PROVE Mine(v)'
    <2>1. Null \notin Node
      BY DEF Node
    <2> QED BY <1>5, <2>1 DEF AllocSkip, Goto
  <1>6. ASSUME NEW p \in Procs, AllocStamp(p) PROVE Mine(v)'
    BY <1>6 DEF AllocStamp, Goto
  <1>7. ASSUME NEW p \in Procs, AllocMark(p) PROVE Mine(v)'
    <2>1. pFree[p] \in Node => ucIsFree[pFree[p]] = MEMS_FREE
      BY <1>7 DEF AllocMark, Goto, PoolInv, TakenIsMine
    <2>2. pFree[p] \in Node => \A q \in Procs : pFree[p] \notin held[q]
      BY <2>1 DEF PoolInv, OwnedOnce
    <2>3. pc[v] \in InSection => v = p
      BY <1>7, Exclusive DEF AllocMark, Goto, PoolInv
    <2> QED BY <1>7, <2>1, <2>2, <2>3 DEF AllocMark, Goto
  <1>8. ASSUME NEW p \in Procs, AllocCount(p) PROVE Mine(v)'
    BY <1>8 DEF AllocCount, Goto
  <1>9. ASSUME NEW p \in Procs, AllocV(p) PROVE Mine(v)'
    <2>1. pc[v] \in InSection => v = p
      BY <1>9, Exclusive DEF AllocV, Goto, PoolInv
    <2> QED BY <1>9, <2>1 DEF AllocV, Goto
  <1>10. ASSUME NEW p \in Procs, FreeBroken(p) PROVE Mine(v)'
    BY <1>10 DEF FreeBroken, Goto
  <1>11. ASSUME NEW p \in Procs, Crash(p) PROVE Mine(v)'
    BY <1>11 DEF Crash, Release
  <1>12. ASSUME NEW p \in Procs, NEW n \in Place, FreeCall(p, n) PROVE Mine(v)'
    BY <1>12 DEF FreeCall, Goto
  <1>13. ASSUME NEW u \in Users, FreeCheck(u) PROVE Mine(v)'
    BY <1>13 DEF FreeCheck, Goto
  <1>14. ASSUME NEW u \in Users, FreeStore(u) PROVE Mine(v)'
    <2>1. u \in Procs /\ pFree[u] \in held[u]
      BY <1>14 DEF FreeStore, Goto, PoolInv, TakenIsMine
    <2>2. pFree[u] \in Node => \A q \in Procs : q # u => pFree[u] \notin held[q]
      BY <2>1 DEF PoolInv, OwnedOnce
    <2> QED BY <1>14, <2>1, <2>2 DEF FreeStore, Goto
  <1>15. ASSUME NEW u \in Users, FreeLoad(u) PROVE Mine(v)'
    BY <1>15 DEF FreeLoad, Goto
  <1>16. ASSUME NEW u \in Users, FreeCount(u) PROVE Mine(v)'
    BY <1>16 DEF FreeCount, AfterNode, Goto
  <1>17. ASSUME Tick PROVE Mine(v)'
    BY <1>17 DEF Tick
  <1>18. ASSUME UNCHANGED vars PROVE Mine(v)'
    BY <1>18 DEF vars
  <1> QED BY <1>1, <1>2, <1>3, <1>3w, <1>4, <1>5, <1>6, <1>7, <1>8, <1>9,
             <1>10, <1>11, <1>12, <1>13, <1>14, <1>15, <1>16, <1>17,
             <1>18, NextCases

(* Without a collector every step keeps ownership exclusive, and an owned  *)
(* node marked.                                                            *)
LEMMA OwnedStep ==
    ASSUME SemConfigured, Collectors = {}, TypeOK, PoolInv, [Next]_vars
    PROVE  OwnedOnce'
  <1> DEFINE Owned(v, m) ==
        m \in held[v] => /\ ucIsFree[m] = MEMS_ALLOCED
                         /\ \A q \in Procs : q # v => m \notin held[q]
  <1> SUFFICES ASSUME NEW v \in Procs, NEW m \in Node PROVE Owned(v, m)'
    BY DEF OwnedOnce
  <1>0. Owned(v, m)
    BY DEF PoolInv, OwnedOnce
  <1> USE <1>0, ProcsAssumption, ZoneAssumption
      DEF TypeOK, Users, InSection, InFree, MEMS_FREE, MEMS_ALLOCED, Store,
          zoneVars, hdrVars, envVars
  <1>1. ASSUME NEW p \in Procs, AllocCall(p) PROVE Owned(v, m)'
    BY <1>1 DEF AllocCall, Goto
  <1>2. ASSUME NEW p \in Procs, AllocP(p) PROVE Owned(v, m)'
    BY <1>2 DEF AllocP, Goto, P
  <1>3. ASSUME NEW p \in Procs, AllocScan(p) PROVE Owned(v, m)'
    BY <1>3 DEF AllocScan, Goto
  <1>3w. ASSUME NEW p \in Procs, AllocWrap(p) PROVE Owned(v, m)'
    BY <1>3w DEF AllocWrap, Goto
  <1>4. ASSUME NEW p \in Procs, AllocFound(p) PROVE Owned(v, m)'
    BY <1>4 DEF AllocFound, Goto
  <1>5. ASSUME NEW p \in Procs, AllocSkip(p) PROVE Owned(v, m)'
    BY <1>5 DEF AllocSkip, Goto
  <1>6. ASSUME NEW p \in Procs, AllocStamp(p) PROVE Owned(v, m)'
    BY <1>6 DEF AllocStamp, Goto
  <1>7. ASSUME NEW p \in Procs, AllocMark(p) PROVE Owned(v, m)'
    BY <1>7 DEF AllocMark, Goto
  <1>8. ASSUME NEW p \in Procs, AllocCount(p) PROVE Owned(v, m)'
    BY <1>8 DEF AllocCount, Goto
  <1>9. ASSUME NEW p \in Procs, AllocV(p) PROVE Owned(v, m)'
    <2>1. pFree[p] \in Node => /\ ucIsFree[pFree[p]] = MEMS_ALLOCED
                               /\ \A q \in Procs : pFree[p] \notin held[q]
      BY <1>9 DEF AllocV, Goto, PoolInv, TakenIsMine
    <2> QED BY <1>9, <2>1 DEF AllocV
  <1>10. ASSUME NEW p \in Procs, FreeBroken(p) PROVE Owned(v, m)'
    BY <1>10 DEF FreeBroken, Goto
  <1>11. ASSUME NEW p \in Procs, Crash(p) PROVE Owned(v, m)'
    BY <1>11 DEF Crash, Release
  <1>12. ASSUME NEW p \in Procs, NEW n \in Place, FreeCall(p, n) PROVE Owned(v, m)'
    BY <1>12 DEF FreeCall, Goto
  <1>13. ASSUME NEW u \in Users, FreeCheck(u) PROVE Owned(v, m)'
    BY <1>13 DEF FreeCheck, Goto
  <1>14. ASSUME NEW u \in Users, FreeStore(u) PROVE Owned(v, m)'
    <2>1. u \in Procs /\ pFree[u] \in held[u]
      BY <1>14 DEF FreeStore, Goto, PoolInv, TakenIsMine
    <2>2. pFree[u] \in Node => \A q \in Procs : q # u => pFree[u] \notin held[q]
      BY <2>1 DEF PoolInv, OwnedOnce
    <2> QED BY <1>14, <2>1, <2>2 DEF FreeStore
  <1>15. ASSUME NEW u \in Users, FreeLoad(u) PROVE Owned(v, m)'
    BY <1>15 DEF FreeLoad, Goto
  <1>16. ASSUME NEW u \in Users, FreeCount(u) PROVE Owned(v, m)'
    BY <1>16 DEF FreeCount, AfterNode, Goto
  <1>17. ASSUME Tick PROVE Owned(v, m)'
    BY <1>17 DEF Tick
  <1>18. ASSUME UNCHANGED vars PROVE Owned(v, m)'
    BY <1>18 DEF vars
  <1> QED BY <1>1, <1>2, <1>3, <1>3w, <1>4, <1>5, <1>6, <1>7, <1>8, <1>9,
             <1>10, <1>11, <1>12, <1>13, <1>14, <1>15, <1>16, <1>17,
             <1>18, NextCases

-----------------------------------------------------------------------------
(* With collectors or without, nobody gets hold of memory past the zone    *)
(* and the cursor does not stay there, unless a process has died between   *)
(* the two stores that take the cursor round.                              *)
LEMMA InsideStep ==
    ASSUME SemConfigured, TypeOK, SectionHeld, InsideUnlessStray, [Next]_vars
    PROVE  InsideUnlessStray'
  <1> SUFFICES ASSUME ~stray'
               PROVE  /\ offsetFreeList' = Outside => \E p \in Procs : pc'[p] = "wrap"
                      /\ \A q \in Procs : pFree'[q] # Outside /\ Outside \notin held'[q]
    BY DEF InsideUnlessStray
  <1> DEFINE Cursor == offsetFreeList = Outside => \E p \in Procs : pc[p] = "wrap"
             Hands(q) == pFree[q] # Outside /\ Outside \notin held[q]
             Kept == Cursor' /\ \A q \in Procs : Hands(q)'
  <1>u. Outside \notin Node /\ Null # Outside
    BY ZoneAssumption DEF Outside, Node
  <1>0. ~stray => Cursor /\ \A q \in Procs : Hands(q)
    BY DEF InsideUnlessStray
  <1> USE ProcsAssumption
      DEF TypeOK, Users, InSection, InFree, zoneVars, hdrVars, envVars
  <1>1. ASSUME NEW p \in Procs, AllocCall(p) PROVE Kept
    BY <1>0, <1>u, <1>1 DEF AllocCall, Goto
  <1>2. ASSUME NEW p \in Procs, AllocP(p) PROVE Kept
    BY <1>0, <1>u, <1>2 DEF AllocP, Goto
  <1>3. ASSUME NEW p \in Procs, AllocScan(p) PROVE Kept
    <2>1. offsetFreeList # Outside
      <3>1. ASSUME NEW q \in Procs, pc[q] = "wrap" PROVE FALSE
        BY <1>3, <3>1, Exclusive DEF AllocScan, Goto
      <3> QED BY <1>0, <1>3, <3>1 DEF AllocScan
    <2>2. offsetFreeList' = Outside => pc'[p] = "wrap"
      BY <1>3, <2>1 DEF AllocScan, Goto, Outside
    <2>3. \A q \in Procs : Hands(q)'
      BY <1>0, <1>3, <2>1 DEF AllocScan
    <2> QED BY <2>2, <2>3
  <1>3w. ASSUME NEW p \in Procs, AllocWrap(p) PROVE Kept
    <2>1. offsetFreeList' # Outside
      BY <1>3w, ZoneAssumption DEF AllocWrap, Outside
    <2> QED BY <1>0, <1>3w, <2>1 DEF AllocWrap
  <1>4. ASSUME NEW p \in Procs, AllocFound(p) PROVE Kept
    BY <1>0, <1>4 DEF AllocFound, Goto
  <1>5. ASSUME NEW p \in Procs, AllocSkip(p) PROVE Kept
    BY <1>0, <1>u, <1>5 DEF AllocSkip, Goto
  <1>6. ASSUME NEW p \in Procs, AllocStamp(p) PROVE Kept
    BY <1>0, <1>6 DEF AllocStamp, Goto
  <1>7. ASSUME NEW p \in Procs, AllocMark(p) PROVE Kept
    BY <1>0, <1>7 DEF AllocMark, Goto
  <1>8. ASSUME NEW p \in Procs, AllocCount(p) PROVE Kept
    BY <1>0, <1>8 DEF AllocCount, Goto
  <1>9. ASSUME NEW p \in Procs, AllocV(p) PROVE Kept
    BY <1>0, <1>u, <1>9 DEF AllocV, Goto
  <1>10. ASSUME NEW p \in Procs, FreeBroken(p) PROVE Kept
    BY <1>0, <1>u, <1>10 DEF FreeBroken, Goto
  <1>11. ASSUME NEW p \in Procs, Crash(p) PROVE Kept
    <2>1. ~stray /\ pc[p] # "wrap"
      BY <1>11 DEF Crash
    <2> QED BY <1>0, <1>u, <1>11, <2>1 DEF Crash
  <1>12. ASSUME NEW p \in Procs, NEW n \in Place, FreeCall(p, n) PROVE Kept
    BY <1>0, <1>12 DEF FreeCall, Goto
  <1>13. ASSUME NEW u \in Users, FreeCheck(u) PROVE Kept
    BY <1>0, <1>13 DEF FreeCheck, Goto
  <1>14. ASSUME NEW u \in Users, FreeStore(u) PROVE Kept
    BY <1>0, <1>14 DEF FreeStore, Goto
  <1>15. ASSUME NEW u \in Users, FreeLoad(u) PROVE Kept
    BY <1>0, <1>15 DEF FreeLoad, Goto
  <1>16. ASSUME NEW u \in Users, FreeCount(u) PROVE Kept
    BY <1>0, <1>u, <1>16 DEF FreeCount, AfterNode, Goto
  <1>17. ASSUME NEW g \in Collectors, GcStart(g) PROVE Kept
    BY <1>0, <1>17 DEF GcStart, Goto
  <1>18. ASSUME NEW g \in Collectors, GcLook(g) PROVE Kept
    BY <1>0, <1>18 DEF GcLook, Goto
  <1>19. ASSUME NEW g \in Collectors, GcOld(g) PROVE Kept
    BY <1>0, <1>19 DEF GcOld, Goto
  <1>20. ASSUME NEW g \in Collectors, GcNext(g) PROVE Kept
    BY <1>0, <1>20 DEF GcNext, AfterNode, Goto
  <1>21. ASSUME Tick PROVE Kept
    BY <1>0, <1>21 DEF Tick
  <1>22. ASSUME UNCHANGED vars PROVE Kept
    BY <1>0, <1>22 DEF vars
  <1> QED BY <1>1, <1>2, <1>3, <1>3w, <1>4, <1>5, <1>6, <1>7, <1>8, <1>9,
             <1>10, <1>11, <1>12, <1>13, <1>14, <1>15, <1>16, <1>17,
             <1>18, <1>19, <1>20, <1>21, <1>22, NextCases

-----------------------------------------------------------------------------
(* Every variable of a zone keeps its type, in particular a scan of        *)
(* mems_alloc never makes more than TotCnt + 1 tests and the index of the  *)
(* collector never leaves the zone: for any number of nodes, processes,    *)
(* collectors and crashes, with or without the semaphore.                  *)
THEOREM ZoneTypes == Spec => []TypeOK
  <1>1. Init => TypeOK
    <2> SUFFICES ASSUME Init PROVE TypeOK
      OBVIOUS
    <2>1. /\ 0 \in Place /\ 0 \in 0 .. MaxTime /\ 0 \in 0 .. MaxCrashes
          /\ 0 \in 0 .. TotCnt + 1 /\ 0 <= TotCnt
      BY ZoneAssumption, BoundAssumption DEF Place, Node, Outside
    <2>2. stray \in BOOLEAN
      BY DEF Init
    <2>3. offsetFreeList = 0 /\ createCnt = 0 /\ delCnt = 0 /\ now = 0 /\ crashes = 0 /\ missed = 0
      BY DEF Init
    <2>4. held \in [Procs -> SUBSET Place] /\ freeAtP \in [Procs -> SUBSET Node]
      BY DEF Init
    <2> QED BY <2>1, <2>2, <2>3, <2>4, ProcsAssumption
        DEF Init, TypeOK, Users, InSection, InFree, MEMS_FREE, MEMS_ALLOCED
  <1>2. TypeOK /\ [Next]_vars => TypeOK'
    BY TypeStep
  <1> QED BY <1>1, <1>2, PTL DEF Spec

(* mems_alloc gives a node of the zone to one process only, and gives      *)
(* nothing else unless a process has died between the two stores that move *)
(* the cursor round: for any number of nodes, processes and crashes, if    *)
(* nifo_conf_check accepts the zone and no collector runs; mems_free never *)
(* takes the semaphore.                                                    *)
THEOREM PoolSafe ==
    ASSUME SemConfigured, Collectors = {}
    PROVE  Spec => []PoolInv
  <1>1. Init => PoolInv
    BY ZoneAssumption
    DEF Init, PoolInv, SectionHeld, TakenIsMine, OwnedOnce, InsideUnlessStray, Users,
        InSection, Outside
  <1>2. TypeOK /\ PoolInv /\ [Next]_vars => PoolInv'
    BY SectionStep, TakenStep, OwnedStep, InsideStep DEF PoolInv
  <1> QED BY <1>1, <1>2, ZoneTypes, PTL DEF Spec

-----------------------------------------------------------------------------
(* The scan.  While a process scans, nobody else marks a node or moves the *)
(* cursor, so that the k-th last node the cursor has passed is one the     *)
(* process has found in use, and a node found in use was not free when the *)
(* process got the semaphore.                                              *)

\* The k-th last node the cursor has passed, when it stands at c.
Behind(c, k) == IF k <= c THEN c - k ELSE c + TotCnt - k

\* What the process v knows of the nodes it has passed.  At "wrap" the
\* cursor stands at Outside, the node behind it is the last of the zone.
Passed(v) ==
    ~stray =>
      /\ pc[v] \in {"scan", "wrap", "test"} => \A n \in freeAtP[v] : ucIsFree[n] = MEMS_FREE
      /\ pc[v] = "scan" => \A k \in 1 .. iDebug[v] : Behind(offsetFreeList, k) \notin freeAtP[v]
      /\ pc[v] \in {"wrap", "test"} =>
            /\ pFree[v] = Behind(offsetFreeList, 1)
            /\ \A k \in 2 .. iDebug[v] + 1 :
                  k <= TotCnt => Behind(offsetFreeList, k) \notin freeAtP[v]
      /\ pc[v] = "wrap" => offsetFreeList = Outside
      /\ pc[v] = "V" /\ pFree[v] = Null => freeAtP[v] = {}

ScanInv == SectionHeld /\ InsideUnlessStray /\ \A v \in Procs : Passed(v)

(* Going back TotCnt nodes from the cursor one meets every node.           *)
LEMMA AllTheWayRound ==
    ASSUME NEW c \in Node, NEW n \in Node
    PROVE  \E k \in 1 .. TotCnt : Behind(c, k) = n
  <1>1. CASE n < c
    <2>1. c - n \in 1 .. TotCnt /\ Behind(c, c - n) = n
      BY <1>1, ZoneAssumption DEF Behind, Node
    <2> QED BY <2>1
  <1>2. CASE ~(n < c)
    <2>1. c + TotCnt - n \in 1 .. TotCnt /\ Behind(c, c + TotCnt - n) = n
      BY <1>2, ZoneAssumption DEF Behind, Node
    <2> QED BY <2>1
  <1> QED BY <1>1, <1>2

(* When the cursor moves on, what was the k-th last node is the next; when *)
(* it is taken back from the end, the nodes behind it stay the same.       *)
LEMMA CursorMoves ==
    /\ \A c \in Node : /\ Behind(c + 1, 1) = c
                       /\ \A k \in 2 .. TotCnt : Behind(c + 1, k) = Behind(c, k - 1)
    /\ \A k \in 1 .. TotCnt : Behind(Outside, k) = Behind(0, k)
  BY ZoneAssumption DEF Behind, Node, Outside

(* Every step keeps what a scanning process knows, with collectors or      *)
(* without.                                                                *)
LEMMA PassedStep ==
    ASSUME SemConfigured, TypeOK, ScanInv, [Next]_vars, NEW v \in Procs
    PROVE  Passed(v)'
  <1>0. Passed(v)
    BY DEF ScanInv
  <1>a. \A p \in Procs : pc[p] \in InSection /\ pc[v] \in InSection => p = v
    BY Exclusive DEF ScanInv
  <1>b. ~stray /\ pc[v] \in {"scan", "test"} => offsetFreeList \in Node /\ pFree[v] # Outside
    BY <1>a DEF ScanInv, InsideUnlessStray, TypeOK, Place, InSection
  <1> USE <1>0, <1>a, ProcsAssumption, ZoneAssumption
      DEF TypeOK, Users, InSection, InFree, MEMS_FREE, MEMS_ALLOCED, Store,
          zoneVars, hdrVars, envVars, Passed
  <1>1. ASSUME NEW p \in Procs, AllocCall(p) PROVE Passed(v)'
    BY <1>1 DEF AllocCall, Goto
  <1>2. ASSUME NEW p \in Procs, AllocP(p) PROVE Passed(v)'
    BY <1>2 DEF AllocP, Goto, FreeNodes
  <1>3. ASSUME NEW p \in Procs, AllocScan(p) PROVE Passed(v)'
    <2>1. CASE p = v
      <3> SUFFICES ASSUME ~stray PROVE Passed(v)'
        BY <1>3 DEF AllocScan
      <3>1. /\ pFree'[v] = offsetFreeList
            /\ offsetFreeList \in Node /\ offsetFreeList' = offsetFreeList + 1
            /\ pc[v] = "scan" /\ pc'[v] \in {"wrap", "test"}
            /\ pc'[v] = "wrap" => offsetFreeList' = Outside
            /\ UNCHANGED <<iDebug, freeAtP, ucIsFree, stray>>
        BY <1>3, <1>b, <2>1 DEF AllocScan, Goto, Node, Outside
      <3>2. /\ Behind(offsetFreeList', 1) = offsetFreeList
            /\ \A k \in 2 .. TotCnt : Behind(offsetFreeList', k) = Behind(offsetFreeList, k - 1)
        BY <3>1, CursorMoves
      <3>3. ASSUME NEW k \in 2 .. iDebug[v] + 1, k <= TotCnt
            PROVE  Behind(offsetFreeList', k) \notin freeAtP[v]
        <4>1. k \in 2 .. TotCnt /\ k - 1 \in 1 .. iDebug[v]
          BY <3>3
        <4> QED BY <4>1, <3>1, <3>2
      <3> QED BY <3>1, <3>2, <3>3
    <2>2. CASE p # v
      BY <1>3, <2>2 DEF AllocScan, Goto
    <2> QED BY <2>1, <2>2
  <1>3w. ASSUME NEW p \in Procs, AllocWrap(p) PROVE Passed(v)'
    <2>1. CASE p = v
      <3> SUFFICES ASSUME ~stray PROVE Passed(v)'
        BY <1>3w DEF AllocWrap
      <3>1. /\ offsetFreeList = Outside /\ offsetFreeList' = 0
            /\ pc[v] = "wrap" /\ pc'[v] = "test"
            /\ UNCHANGED <<pFree, iDebug, freeAtP, ucIsFree, stray>>
        BY <1>3w, <2>1 DEF AllocWrap, Goto
      <3>2. \A k \in 1 .. TotCnt : Behind(offsetFreeList', k) = Behind(offsetFreeList, k)
        BY <3>1, CursorMoves
      <3>3. \A k \in 2 .. iDebug[v] + 1 : k <= TotCnt => k \in 1 .. TotCnt
        OBVIOUS
      <3>4. 1 \in 1 .. TotCnt
        OBVIOUS
      <3> QED BY <3>1, <3>2, <3>3, <3>4
    <2>2. CASE p # v
      BY <1>3w, <2>2 DEF AllocWrap, Goto
    <2> QED BY <2>1, <2>2
  <1>4. ASSUME NEW p \in Procs, AllocFound(p) PROVE Passed(v)'
    BY <1>4 DEF AllocFound, Goto
  <1>5. ASSUME NEW p \in Procs, AllocSkip(p) PROVE Passed(v)'
    <2>1. CASE p = v
      <3> SUFFICES ASSUME ~stray PROVE Passed(v)'
        BY <1>5 DEF AllocSkip
      <3>1. /\ pc[v] = "test" /\ pc'[v] = IF iDebug[v] + 1 > TotCnt THEN "V" ELSE "scan"
            /\ iDebug'[v] = iDebug[v] + 1
            /\ offsetFreeList \in Node
            /\ ucIsFree[pFree[v]] # MEMS_FREE
            /\ UNCHANGED <<offsetFreeList, freeAtP, ucIsFree, stray>>
        BY <1>5, <1>b, <2>1 DEF AllocSkip, Goto, Reads, Place
      <3>2. ASSUME NEW k \in 1 .. iDebug[v] + 1, k <= TotCnt
            PROVE  Behind(offsetFreeList, k) \notin freeAtP[v]
        <4>1. CASE k = 1
          BY <3>1, <4>1
        <4>2. CASE k # 1
          <5>1. k \in 2 .. iDebug[v] + 1
            BY <4>2
          <5> QED BY <3>1, <3>2, <5>1
        <4> QED BY <4>1, <4>2
      <3>3. CASE pc'[v] = "V"
        <4>1. iDebug[v] + 1 > TotCnt
          BY <3>1, <3>3
        <4>2. \A k \in 1 .. TotCnt : k \in 1 .. iDebug[v] + 1
          BY <4>1
        <4>3. \A n \in Node : n \notin freeAtP[v]
          BY <3>1, <3>2, <4>2, AllTheWayRound
        <4>4. freeAtP[v] = {}
          BY <4>3
        <4> QED BY <3>1, <3>3, <4>4
      <3>4. CASE pc'[v] = "scan"
        <4>1. \A k \in 1 .. iDebug'[v] : k \in 1 .. iDebug[v] + 1 /\ k <= TotCnt
          BY <3>1, <3>4
        <4> QED BY <3>1, <3>2, <3>4, <4>1
      <3> QED BY <3>1, <3>3, <3>4
    <2>2. CASE p # v
      BY <1>5, <2>2 DEF AllocSkip, Goto
    <2> QED BY <2>1, <2>2
  <1>6. ASSUME NEW p \in Procs, AllocStamp(p) PROVE Passed(v)'
    BY <1>6 DEF AllocStamp, Goto
  <1>7. ASSUME NEW p \in Procs, AllocMark(p) PROVE Passed(v)'
    <2>1. CASE p = v
      BY <1>7, <2>1 DEF AllocMark, Goto
    <2>2. CASE p # v
      BY <1>7, <2>2 DEF AllocMark, Goto
    <2> QED BY <2>1, <2>2
  <1>8. ASSUME NEW p \in Procs, AllocCount(p) PROVE Passed(v)'
    <2>0. Null \notin Place
      BY DEF Node, Place, Outside
    <2>1. pFree'[p] # Null
      BY <1>8, <2>0 DEF AllocCount, Goto
    <2> QED BY <1>8, <2>1 DEF AllocCount, Goto
  <1>9. ASSUME NEW p \in Procs, AllocV(p) PROVE Passed(v)'
    BY <1>9 DEF AllocV, Goto
  <1>10. ASSUME NEW p \in Procs, FreeBroken(p) PROVE Passed(v)'
    BY <1>10 DEF FreeBroken, Goto
  <1>11. ASSUME NEW p \in Procs, Crash(p) PROVE Passed(v)'
    BY <1>11 DEF Crash
  <1>12. ASSUME NEW p \in Procs, NEW n \in Place, FreeCall(p, n) PROVE Passed(v)'
    BY <1>12 DEF FreeCall, Goto
  <1>13. ASSUME NEW u \in Users, FreeCheck(u) PROVE Passed(v)'
    BY <1>13 DEF FreeCheck, Goto
  <1>14. ASSUME NEW u \in Users, FreeStore(u) PROVE Passed(v)'
    BY <1>14 DEF FreeStore, Goto
  <1>15. ASSUME NEW u \in Users, FreeLoad(u) PROVE Passed(v)'
    BY <1>15 DEF FreeLoad, Goto
  <1>16. ASSUME NEW u \in Users, FreeCount(u) PROVE Passed(v)'
    BY <1>16 DEF FreeCount, AfterNode, Goto
  <1>17. ASSUME NEW g \in Collectors, GcStart(g) PROVE Passed(v)'
    BY <1>17 DEF GcStart, Goto
  <1>18. ASSUME NEW g \in Collectors, GcLook(g) PROVE Passed(v)'
    BY <1>18 DEF GcLook, Goto
  <1>19. ASSUME NEW g \in Collectors, GcOld(g) PROVE Passed(v)'
    BY <1>19 DEF GcOld, Goto
  <1>20. ASSUME NEW g \in Collectors, GcNext(g) PROVE Passed(v)'
    BY <1>20 DEF GcNext, AfterNode, Goto
  <1>21. ASSUME Tick PROVE Passed(v)'
    BY <1>21 DEF Tick
  <1>22. ASSUME UNCHANGED vars PROVE Passed(v)'
    BY <1>22 DEF vars
  <1> QED BY <1>1, <1>2, <1>3, <1>3w, <1>4, <1>5, <1>6, <1>7, <1>8, <1>9,
             <1>10, <1>11, <1>12, <1>13, <1>14, <1>15, <1>16, <1>17,
             <1>18, <1>19, <1>20, <1>21, <1>22, NextCases

(* mems_alloc returns NULL only if every node of the zone was in use when  *)
(* it got the semaphore, for any number of nodes, processes, collectors    *)
(* and crashes, if nifo_conf_check accepts the zone and no process has     *)
(* died between the two stores that move the cursor round.                 *)
THEOREM NullMeansFull ==
    ASSUME SemConfigured
    PROVE  Spec => []ExhaustionIsReal
  <1>1. Init => ScanInv
    BY ZoneAssumption
    DEF Init, ScanInv, SectionHeld, InsideUnlessStray, Passed, Users, InSection, Outside
  <1>2. TypeOK /\ ScanInv /\ [Next]_vars => ScanInv'
    BY SectionStep, InsideStep, PassedStep DEF ScanInv
  <1>3. ScanInv => ExhaustionIsReal
    BY DEF ScanInv, Passed, ExhaustionIsReal
  <1> QED BY <1>1, <1>2, <1>3, ZoneTypes, PTL DEF Spec

-----------------------------------------------------------------------------
(* The counters.  delCnt++ is not atomic, and a process may even store a   *)
(* count that is older than the one it replaces.  So the invariant speaks  *)
(* of both the stored count and every loaded one: each is at most the      *)
(* number of nodes marked and counted, or never to be counted, less those  *)
(* still allocated, less the frees that have yet to be counted.            *)

\* The processes that have freed a node of the zone and not counted it yet.
Uncounted == {p \in Procs : pc[p] \in {"fload", "fcount"} /\ pFree[p] \in Node}

InUse == Cardinality(Counted) + Cardinality(Uncounted)

Marked == createCnt + missed

CountInv ==
    /\ IsFiniteSet(Uncounted)
    /\ delCnt + InUse <= Marked
    /\ \A p \in Uncounted : pc[p] = "fcount" => oldDel[p] + InUse <= Marked

(* A set of nodes is finite.                                               *)
LEMMA NodesFinite == \A S \in SUBSET Node : IsFiniteSet(S) /\ Cardinality(S) \in Nat
  <1>1. IsFiniteSet(Node)
    BY ZoneAssumption, FS_Interval DEF Node
  <1> QED BY <1>1, FS_Subset, FS_CardinalityType

(* A step that marks nothing, counts nothing and frees nothing keeps the   *)
(* counters right, whatever it drops.                                      *)
LEMMA QuietCount ==
    ASSUME TypeOK, TypeOK', CountInv, Counted' \subseteq Counted, Uncounted' \subseteq Uncounted,
           Marked' \in Nat, Marked <= Marked', delCnt' = delCnt,
           \A p \in Uncounted' : pc'[p] = "fcount" => pc[p] = "fcount" /\ oldDel'[p] = oldDel[p]
    PROVE  CountInv'
  <1>1. /\ Cardinality(Counted) \in Nat /\ Cardinality(Counted') \in Nat
        /\ Cardinality(Counted') <= Cardinality(Counted)
    <2>1. Counted \in SUBSET Node
      BY DEF Counted
    <2> QED BY <2>1, NodesFinite, FS_Subset
  <1>2. /\ IsFiniteSet(Uncounted')
        /\ Cardinality(Uncounted) \in Nat /\ Cardinality(Uncounted') \in Nat
        /\ Cardinality(Uncounted') <= Cardinality(Uncounted)
    BY FS_Subset, FS_CardinalityType DEF CountInv
  <1>3. InUse \in Nat /\ InUse' \in Nat /\ InUse' <= InUse
    BY <1>1, <1>2 DEF InUse
  <1>4. Marked \in Nat /\ delCnt \in Nat
    BY DEF TypeOK, Marked
  <1>a. ASSUME NEW a \in Nat, NEW b \in Nat, NEW c \in Nat, NEW e \in Nat, NEW d \in Nat,
               d + a <= c, b <= a, c <= e
        PROVE  d + b <= e
    BY <1>a
  <1>5. delCnt' + InUse' <= Marked'
    <2>1. delCnt + InUse <= Marked
      BY DEF CountInv
    <2>2. delCnt + InUse' <= Marked'
      BY <1>3, <1>4, <2>1, <1>a, Zenon
    <2> QED BY <2>2
  <1>6. ASSUME NEW p \in Uncounted', pc'[p] = "fcount" PROVE oldDel'[p] + InUse' <= Marked'
    <2>1. /\ oldDel'[p] = oldDel[p] /\ p \in Uncounted /\ pc[p] = "fcount"
          /\ oldDel[p] + InUse <= Marked
      BY <1>6 DEF CountInv
    <2>2. oldDel[p] \in Nat
      BY <2>1 DEF Uncounted, TypeOK, Users
    <2>3. oldDel[p] + InUse' <= Marked'
      BY <1>3, <1>4, <2>1, <2>2, <1>a, Zenon
    <2> QED BY <2>1, <2>3
  <1> QED BY <1>2, <1>5, <1>6 DEF CountInv

(* A step after which one more node counts as allocated, and for which one *)
(* more was counted or will never be, keeps the counters right.            *)
LEMMA OneMoreCounted ==
    ASSUME TypeOK, CountInv, NEW n \in Node, Counted' \subseteq Counted \cup {n},
           Marked' = Marked + 1, delCnt' = delCnt, Uncounted' = Uncounted,
           \A p \in Uncounted : pc'[p] = "fcount" => pc[p] = "fcount" /\ oldDel'[p] = oldDel[p]
    PROVE  CountInv'
  <1>1. /\ Counted \in SUBSET Node /\ IsFiniteSet(Counted)
        /\ Cardinality(Counted) \in Nat /\ Cardinality(Uncounted) \in Nat
    <2>1. Counted \in SUBSET Node
      BY DEF Counted
    <2> QED BY <2>1, NodesFinite, FS_CardinalityType DEF CountInv
  <1>2. Cardinality(Counted') \in Nat /\ Cardinality(Counted') <= Cardinality(Counted) + 1
    <2>1. /\ IsFiniteSet(Counted \cup {n})
          /\ Cardinality(Counted \cup {n}) <= Cardinality(Counted) + 1
      <3>1. /\ IsFiniteSet(Counted \cup {n})
            /\ n \notin Counted => Cardinality(Counted \cup {n}) = Cardinality(Counted) + 1
        BY <1>1, FS_AddElement
      <3>2. n \in Counted => Counted \cup {n} = Counted
        OBVIOUS
      <3>3. Cardinality(Counted) + 1 <= Cardinality(Counted) + 1 /\ Cardinality(Counted) <= Cardinality(Counted) + 1
        BY <1>1
      <3> QED BY <3>1, <3>2, <3>3, Zenon
    <2>2. /\ IsFiniteSet(Counted') /\ Cardinality(Counted') \in Nat
          /\ Cardinality(Counted \cup {n}) \in Nat
          /\ Cardinality(Counted') <= Cardinality(Counted \cup {n})
      BY <2>1, FS_Subset, FS_CardinalityType
    <2> QED BY <1>1, <2>1, <2>2
  <1>3. InUse \in Nat /\ InUse' \in Nat /\ InUse' <= InUse + 1
    BY <1>1, <1>2 DEF InUse
  <1>4. Marked \in Nat /\ delCnt \in Nat /\ \A p \in Uncounted : oldDel[p] \in Nat
    BY DEF TypeOK, Marked, Uncounted, Users
  <1>a. ASSUME NEW a \in Nat, NEW b \in Nat, NEW c \in Nat, NEW d \in Nat,
               d + a <= c, b <= a + 1
        PROVE  d + b <= c + 1
    BY <1>a
  <1>5. delCnt + InUse' <= Marked + 1
    BY <1>3, <1>4, <1>a, Zenon DEF CountInv
  <1>6. ASSUME NEW p \in Uncounted, pc'[p] = "fcount" PROVE oldDel'[p] + InUse' <= Marked + 1
    <2>1. oldDel'[p] = oldDel[p] /\ oldDel[p] + InUse <= Marked
      BY <1>6 DEF CountInv
    <2>2. oldDel[p] + InUse' <= Marked + 1
      BY <1>3, <1>4, <2>1, <1>a, Zenon
    <2> QED BY <2>1, <2>2
  <1>7. IsFiniteSet(Uncounted')
    BY DEF CountInv
  <1> QED BY <1>5, <1>6, <1>7 DEF CountInv

(* Without a collector every step keeps the counters right.                *)
LEMMA CountStep ==
    ASSUME SemConfigured, Collectors = {}, TypeOK, PoolInv, CountInv, [Next]_vars
    PROVE  CountInv'
  <1>t. TypeOK'
    BY TypeStep
  <1>n. /\ Marked \in Nat /\ Marked' \in Nat /\ delCnt \in Nat
        /\ \A p \in Procs : oldDel[p] \in Nat
        /\ Counted \in SUBSET Node /\ IsFiniteSet(Counted)
        /\ Cardinality(Counted) \in Nat /\ Cardinality(Uncounted) \in Nat
    <2>1. Counted \in SUBSET Node
      BY DEF Counted
    <2>2. IsFiniteSet(Uncounted)
      BY DEF CountInv
    <2>3. Marked \in Nat /\ delCnt \in Nat /\ \A p \in Procs : oldDel[p] \in Nat
      BY DEF TypeOK, Users, Marked
    <2>4. Marked' \in Nat
      <3>1. createCnt' \in Nat /\ missed' \in Nat
        BY <1>t DEF TypeOK
      <3>2. \A a, b \in Nat : a + b \in Nat
        OBVIOUS
      <3> QED BY <3>1, <3>2, Zenon DEF Marked
    <2> QED BY <2>1, <2>2, <2>3, <2>4, NodesFinite, FS_CardinalityType
  <1>a. ASSUME NEW a \in Nat, NEW b \in Nat, NEW c \in Nat, NEW d \in Nat, d + a <= c
        PROVE  (b <= a => d + b <= c) /\ (b + 1 <= a => d + 1 + b <= c /\ d + b <= c)
    BY <1>a
  <1> DEFINE Quiet ==
        /\ Counted' \subseteq Counted /\ Uncounted' \subseteq Uncounted
        /\ Marked <= Marked' /\ delCnt' = delCnt
        /\ \A p \in Uncounted' : pc'[p] = "fcount" => pc[p] = "fcount" /\ oldDel'[p] = oldDel[p]
  <1>q. Quiet => CountInv'
    BY <1>t, <1>n, QuietCount
  <1> USE ProcsAssumption, ZoneAssumption
      DEF TypeOK, Users, InSection, InFree, zoneVars, hdrVars, envVars, Counted, Uncounted,
          Marked, MEMS_FREE, MEMS_ALLOCED, Store
  <1>1. ASSUME NEW p \in Procs, AllocCall(p) PROVE Quiet
    BY <1>1 DEF AllocCall, Goto
  <1>2. ASSUME NEW p \in Procs, AllocP(p) PROVE Quiet
    BY <1>2 DEF AllocP, Goto
  <1>3. ASSUME NEW p \in Procs, AllocScan(p) PROVE Quiet
    BY <1>3 DEF AllocScan, Goto
  <1>3w. ASSUME NEW p \in Procs, AllocWrap(p) PROVE Quiet
    BY <1>3w DEF AllocWrap, Goto
  <1>4. ASSUME NEW p \in Procs, AllocFound(p) PROVE Quiet
    BY <1>4 DEF AllocFound, Goto
  <1>5. ASSUME NEW p \in Procs, AllocSkip(p) PROVE Quiet
    BY <1>5 DEF AllocSkip, Goto
  <1>6. ASSUME NEW p \in Procs, AllocStamp(p) PROVE Quiet
    BY <1>6 DEF AllocStamp, Goto
  <1>7. ASSUME NEW p \in Procs, AllocMark(p) PROVE Quiet
    BY <1>7 DEF AllocMark, Goto
  <1>8. ASSUME NEW p \in Procs, AllocCount(p) PROVE CountInv'
    <2>1. pFree' = pFree /\ ucIsFree' = ucIsFree /\ pc' = [pc EXCEPT ![p] = "V"] /\ pc[p] = "count"
      BY <1>8 DEF AllocCount, Goto
    <2>2. Uncounted' = Uncounted /\ \A q \in Procs : pc'[q] = "fcount" => pc[q] = "fcount"
      BY <2>1
    <2>3. Marked' = Marked + 1 /\ UNCHANGED <<delCnt, oldDel>>
      BY <1>8 DEF AllocCount
    <2>4. CASE pFree[p] \in Node
      <3>1. Counted' \subseteq Counted \cup {pFree[p]}
        BY <2>1
      <3>2. \A q \in Uncounted : pc'[q] = "fcount" => pc[q] = "fcount" /\ oldDel'[q] = oldDel[q]
        BY <2>2, <2>3
      <3> HIDE DEF Counted, Uncounted, Marked, TypeOK
      <3> QED BY <2>2, <2>3, <2>4, <3>1, <3>2, OneMoreCounted
    <2>5. CASE pFree[p] \notin Node
      <3>1. Counted' \subseteq Counted
        BY <2>1, <2>5
      <3> QED BY <1>n, <1>q, <2>2, <2>3, <3>1
    <2> QED BY <2>4, <2>5
  <1>9. ASSUME NEW p \in Procs, AllocV(p) PROVE Quiet
    BY <1>9 DEF AllocV, Goto
  <1>10. ASSUME NEW p \in Procs, FreeBroken(p) PROVE Quiet
    BY <1>10 DEF FreeBroken, Goto
  <1>11. ASSUME NEW p \in Procs, Crash(p) PROVE CountInv'
    <2>1. /\ pc' = [pc EXCEPT ![p] = "idle"] /\ ucIsFree' = ucIsFree
          /\ pFree' = [pFree EXCEPT ![p] = Null] /\ oldDel' = [oldDel EXCEPT ![p] = 0]
          /\ createCnt' = createCnt /\ delCnt' = delCnt
          /\ missed' = missed + IF pc[p] = "count" /\ pFree[p] \in Node THEN 1 ELSE 0
      BY <1>11 DEF Crash
    <2>2. /\ Uncounted' \subseteq Uncounted
          /\ \A q \in Uncounted' : pc'[q] = "fcount" => pc[q] = "fcount" /\ oldDel'[q] = oldDel[q]
      BY <2>1
    <2>3. CASE pc[p] = "count" /\ pFree[p] \in Node
      <3>1. Counted' \subseteq Counted \cup {pFree[p]}
        BY <2>1, <2>3
      <3>2. Uncounted' = Uncounted
        BY <2>1, <2>3
      <3>3. Marked' = Marked + 1
        BY <2>1, <2>3
      <3> HIDE DEF Counted, Uncounted, Marked, TypeOK
      <3> QED BY <2>1, <2>2, <2>3, <3>1, <3>2, <3>3, OneMoreCounted
    <2>4. CASE ~(pc[p] = "count" /\ pFree[p] \in Node)
      <3>1. Counted' \subseteq Counted
        BY <2>1, <2>4
      <3>2. Marked <= Marked'
        BY <2>1, <2>4
      <3> QED BY <1>q, <2>1, <2>2, <3>1, <3>2
    <2> QED BY <2>3, <2>4
  <1>12. ASSUME NEW p \in Procs, NEW n \in Place, FreeCall(p, n) PROVE Quiet
    BY <1>12 DEF FreeCall, Goto
  <1>13. ASSUME NEW u \in Procs, FreeCheck(u) PROVE Quiet
    BY <1>13 DEF FreeCheck, Goto
  <1>14. ASSUME NEW u \in Procs, FreeStore(u) PROVE CountInv'
    <2>1. /\ pc[u] = "fstore" /\ pc' = [pc EXCEPT ![u] = "fload"] /\ pFree' = pFree
          /\ ucIsFree' = Store(ucIsFree, pFree[u], MEMS_FREE)
          /\ UNCHANGED <<createCnt, missed, delCnt, oldDel>>
      BY <1>14 DEF FreeStore, Goto
    <2>2. \A q \in Procs : pc'[q] = "fcount" => pc[q] = "fcount"
      BY <2>1
    <2>3. CASE pFree[u] \in Node
      <3>1. /\ ucIsFree[pFree[u]] = MEMS_ALLOCED
            /\ \A q \in Procs : ~(pc[q] = "count" /\ pFree[q] = pFree[u])
        <4>1. pFree[u] \in held[u]
          BY <2>1 DEF PoolInv, TakenIsMine
        <4> QED BY <2>3, <4>1 DEF PoolInv, OwnedOnce, TakenIsMine
      <3>2. Counted' \subseteq Counted \ {pFree[u]} /\ pFree[u] \in Counted
        BY <2>1, <2>3, <3>1
      <3>3. Uncounted' = Uncounted \cup {u} /\ u \notin Uncounted
        BY <2>1, <2>3
      <3>4. Marked' = Marked
        BY <2>1
      <3> HIDE DEF Counted, Uncounted, TypeOK, Marked
      <3>5. Cardinality(Counted') \in Nat /\ Cardinality(Counted') <= Cardinality(Counted) - 1
        <4>1. /\ IsFiniteSet(Counted \ {pFree[u]})
              /\ Cardinality(Counted \ {pFree[u]}) = Cardinality(Counted) - 1
          BY <1>n, <3>2, FS_RemoveElement
        <4> QED BY <1>n, <3>2, <4>1, FS_Subset, FS_CardinalityType
      <3>6. IsFiniteSet(Uncounted') /\ Cardinality(Uncounted') = Cardinality(Uncounted) + 1
        BY <3>3, FS_AddElement DEF CountInv
      <3>7. InUse' <= InUse /\ InUse \in Nat /\ InUse' \in Nat
        BY <1>n, <3>5, <3>6 DEF InUse
      <3>8. \A q \in Uncounted' : pc'[q] = "fcount" => q \in Uncounted
        BY <2>1, <3>3 DEF TypeOK, Uncounted
      <3>9. \A q \in Uncounted : q \in Procs
        BY DEF Uncounted
      <3>10. delCnt' + InUse' <= Marked'
        <4>1. delCnt + InUse' <= Marked
          BY <1>n, <1>a, <3>7, Zenon DEF CountInv
        <4> QED BY <2>1, <3>4, <4>1
      <3>11. ASSUME NEW q \in Uncounted', pc'[q] = "fcount" PROVE oldDel'[q] + InUse' <= Marked'
        <4>1. oldDel[q] + InUse <= Marked /\ oldDel[q] \in Nat
          BY <1>n, <2>2, <3>8, <3>9, <3>11 DEF CountInv
        <4>2. oldDel[q] + InUse' <= Marked
          BY <1>n, <1>a, <3>7, <4>1, Zenon
        <4> QED BY <2>1, <3>4, <4>2
      <3> QED BY <3>6, <3>10, <3>11 DEF CountInv
    <2>4. CASE pFree[u] \notin Node
      <3>1. ucIsFree' = ucIsFree
        BY <2>1, <2>4
      <3>2. Counted' \subseteq Counted /\ Uncounted' \subseteq Uncounted
        BY <2>1, <2>4, <3>1
      <3>3. Marked <= Marked'
        BY <2>1
      <3> QED BY <1>q, <2>1, <2>2, <3>2, <3>3
    <2> QED BY <2>3, <2>4
  <1>15. ASSUME NEW u \in Procs, FreeLoad(u) PROVE CountInv'
    <2>1. Counted' = Counted /\ Uncounted' = Uncounted /\ Marked' = Marked /\ delCnt' = delCnt
      BY <1>15 DEF FreeLoad, Goto
    <2>2. \A q \in Procs : pc'[q] = "fcount" =>
              oldDel'[q] = delCnt \/ (pc[q] = "fcount" /\ oldDel'[q] = oldDel[q])
      BY <1>15 DEF FreeLoad, Goto
    <2>3. \A q \in Uncounted : q \in Procs
      OBVIOUS
    <2> HIDE DEF Counted, Uncounted, TypeOK, Marked
    <2> QED BY <2>1, <2>2, <2>3 DEF CountInv, InUse
  <1>16. ASSUME NEW u \in Procs, FreeCount(u) PROVE CountInv'
    <2>1. /\ pc[u] = "fcount" /\ delCnt' = IF pFree[u] = Outside THEN delCnt ELSE oldDel[u] + 1
          /\ pc' = [pc EXCEPT ![u] = "idle"] /\ pFree' = [pFree EXCEPT ![u] = Null]
          /\ oldDel' = [oldDel EXCEPT ![u] = 0]
          /\ UNCHANGED <<createCnt, missed, ucIsFree>>
      BY <1>16 DEF FreeCount, AfterNode, Goto
    <2>2. Counted' \subseteq Counted /\ Marked' = Marked
      BY <2>1
    <2>3. \A q \in Uncounted' : pc'[q] = "fcount" =>
              q \in Uncounted /\ pc[q] = "fcount" /\ oldDel'[q] = oldDel[q]
      BY <2>1
    <2>4. CASE pFree[u] \in Node
      <3>1. Uncounted' = Uncounted \ {u} /\ u \in Uncounted
        BY <2>1, <2>4 DEF Node
      <3>2. delCnt' = oldDel[u] + 1
        BY <2>1, <2>4 DEF Node, Outside
      <3> HIDE DEF Counted, Uncounted, TypeOK, Marked
      <3>3. Cardinality(Counted') \in Nat /\ Cardinality(Counted') <= Cardinality(Counted)
        BY <1>n, <2>2, FS_Subset, NodesFinite
      <3>4. IsFiniteSet(Uncounted') /\ Cardinality(Uncounted') = Cardinality(Uncounted) - 1
        BY <3>1, FS_RemoveElement DEF CountInv
      <3>5. InUse \in Nat /\ InUse' \in Nat /\ InUse' + 1 <= InUse
        BY <1>n, <3>3, <3>4, FS_CardinalityType DEF InUse
      <3>6. oldDel[u] + InUse <= Marked
        BY <2>1, <3>1 DEF CountInv
      <3>7. delCnt' + InUse' <= Marked
        <4>1. oldDel[u] \in Nat
          BY <1>n
        <4>2. oldDel[u] + 1 + InUse' <= Marked
          BY <1>n, <1>a, <3>5, <3>6, <4>1, Zenon
        <4> QED BY <3>2, <4>2
      <3>8. ASSUME NEW q \in Uncounted', pc'[q] = "fcount" PROVE oldDel'[q] + InUse' <= Marked
        <4>1. oldDel'[q] = oldDel[q] /\ oldDel[q] + InUse <= Marked
          BY <2>3, <3>8 DEF CountInv
        <4>2. oldDel[q] \in Nat
          BY <1>n, <2>3, <3>8 DEF Uncounted
        <4>3. oldDel[q] + InUse' <= Marked
          BY <1>n, <1>a, <3>5, <4>1, <4>2, Zenon
        <4> QED BY <4>1, <4>3
      <3> QED BY <2>2, <3>4, <3>7, <3>8 DEF CountInv
    <2>5. CASE pFree[u] \notin Node
      <3>1. pFree[u] = Outside
        BY <2>1, <2>5 DEF Place
      <3>2. Uncounted' \subseteq Uncounted /\ delCnt' = delCnt /\ Marked <= Marked'
        BY <2>1, <2>5, <3>1
      <3> QED BY <1>q, <2>2, <2>3, <3>2
    <2> QED BY <2>4, <2>5
  <1>17. ASSUME Tick PROVE Quiet
    BY <1>17 DEF Tick
  <1>18. ASSUME UNCHANGED vars PROVE Quiet
    BY <1>18 DEF vars
  <1> HIDE DEF Quiet
  <1> QED BY <1>q, <1>1, <1>2, <1>3, <1>3w, <1>4, <1>5, <1>6, <1>7, <1>8, <1>9, <1>10, <1>11,
             <1>12, <1>13, <1>14, <1>15, <1>16, <1>17, <1>18, NextCases

(* createCnt - delCnt, which the operator reads as the nodes in use, falls *)
(* short of the allocated nodes by no more than the nodes whose process    *)
(* died between mark and count: for any number of nodes, processes and     *)
(* crashes, also with the cursor outside the zone, and although mems_free  *)
(* counts without a semaphore, if nifo_conf_check accepts the zone and no  *)
(* collector runs.                                                         *)
THEOREM CountersNeverShort ==
    ASSUME SemConfigured, Collectors = {}
    PROVE  Spec => []NeverUnderCounted
  <1>1. Init => CountInv
    <2> SUFFICES ASSUME Init PROVE CountInv
      OBVIOUS
    <2>1. Counted = {} /\ Uncounted = {}
      BY DEF Init, Counted, Uncounted, Users, MEMS_FREE, MEMS_ALLOCED
    <2> QED BY <2>1, FS_EmptySet DEF Init, CountInv, InUse, Marked
  <1>2. TypeOK /\ PoolInv /\ CountInv /\ [Next]_vars => CountInv'
    BY CountStep
  <1>3. ASSUME TypeOK, CountInv PROVE NeverUnderCounted
    <2>1. Counted \in SUBSET Node
      BY DEF Counted
    <2>2. Cardinality(Counted) \in Nat /\ Cardinality(Uncounted) \in Nat
      BY <1>3, <2>1, NodesFinite, FS_CardinalityType DEF CountInv
    <2>3. Marked \in Nat /\ delCnt \in Nat /\ delCnt + InUse <= Marked
      BY <1>3 DEF TypeOK, CountInv, Marked
    <2>4. Marked >= delCnt + Cardinality(Counted)
      BY <2>2, <2>3 DEF InUse
    <2> QED BY <2>4 DEF NeverUnderCounted, Marked
  <1> QED BY <1>1, <1>2, <1>3, ZoneTypes, PoolSafe, PTL DEF Spec
=============================================================================
