-------------------------------- MODULE Mems --------------------------------
(***************************************************************************)
(* One zone of MEMS (UPST_LIB SRC/NIFO/mems.c), the shared memory          *)
(* allocator under NIFO.  A zone is an array of equal nodes, each with a   *)
(* header that says whether it is free and when it was allocated.          *)
(* mems_alloc scans from a cursor under the zone's semaphore; mems_free    *)
(* and mems_garbage_collector take no semaphore at all.  A node is its     *)
(* index in the zone; Outside stands for every place from offsetNodeEnd    *)
(* on, which the cursor reaches when a process dies between the two stores *)
(* that move it round.  The cursors of the other zones are taken to be     *)
(* inside them, so that nobody comes in from there.  An action is the code *)
(* between two accesses to memory another process also accesses.           *)
(***************************************************************************)
EXTENDS Integers, FiniteSets

CONSTANTS
    Procs,      \* processes that allocate from the zone and free its nodes
    Collectors, \* processes that run mems_garbage_collector
    Null,
    TotCnt,     \* uiMemNodeTotCnt of the zone
    SemFlag,    \* uiSemFlag of the zone
    TimeGap,    \* timegap given to mems_garbage_collector
    MaxTime,    \* bound: the clock stops here
    MaxCreate,  \* bound: no allocation begins once createCnt is this large
    MaxCrashes  \* bound: how many processes may die

INSTANCE Sema

ASSUME ProcsAssumption == Procs \cap Collectors = {} /\ Null \notin Procs
ASSUME ZoneAssumption  == TotCnt \in Nat \ {0} /\ Null \notin 0 .. TotCnt
ASSUME FlagAssumption  == SemFlag \in {0, MEMS_SEMA_ON}
ASSUME BoundAssumption == {TimeGap, MaxTime, MaxCreate, MaxCrashes} \subseteq Nat

VARIABLES
    ucIsFree, TimeSec,                  \* stMEMSNODEHDR of each node
    offsetFreeList, createCnt, delCnt,  \* st_MEMSZONE
    sem,                                \* who holds iSemID
    pc,                                 \* where each process is
    pFree,     \* local of mems_alloc and mems_free, the collector's iIndex
    iDebug,    \* local of mems_alloc: nodes found in use
    oldDel,    \* the value delCnt++ has loaded
    cur_time,  \* local of mems_garbage_collector
    held,      \* the nodes each process was given and has not freed
    now,       \* time(NULL)
    freeAtP,   \* history: the nodes that were free when mems_alloc got in
    crashes,   \* how many processes have died
    stray,     \* history: one died between lines 451 and 453
    missed     \* history: nodes whose process died between lines 463 and 470

zoneVars == <<offsetFreeList, createCnt, delCnt>>
hdrVars  == <<ucIsFree, TimeSec>>
envVars  == <<now, crashes, stray, missed>>
vars == <<ucIsFree, TimeSec, offsetFreeList, createCnt, delCnt, sem, pc, pFree,
          iDebug, oldDel, cur_time, held, now, freeAtP, crashes, stray, missed>>

MEMS_FREE == 0
MEMS_ALLOCED == 1

Node    == 0 .. TotCnt - 1
Outside == TotCnt
Place   == Node \cup {Outside}
Users   == Procs \cup Collectors

\* The header at n may read as x: past the zone lies another zone's node,
\* the middle of one, or nothing, so that it may read as anything.
Reads(n, x) == n \in Node => ucIsFree[n] = x

\* A header field of every node after x is stored at n; a store past the
\* zone changes none.
Store(field, n, x) == [m \in Node |-> IF m = n THEN x ELSE field[m]]

FreeNodes == {n \in Node : ucIsFree[n] = MEMS_FREE}

Init ==
    /\ ucIsFree = [n \in Node |-> MEMS_FREE]
    /\ TimeSec = [n \in Node |-> 0]
    /\ offsetFreeList = 0 /\ createCnt = 0 /\ delCnt = 0
    /\ sem = Null
    /\ pc = [u \in Users |-> "idle"]
    /\ pFree = [u \in Users |-> Null]
    /\ iDebug = [p \in Procs |-> 0]
    /\ oldDel = [u \in Users |-> 0]
    /\ cur_time = [g \in Collectors |-> 0]
    /\ held = [p \in Procs |-> {}]
    /\ now = 0
    /\ freeAtP = [p \in Procs |-> {}]
    /\ crashes = 0 /\ stray = FALSE /\ missed = 0

Goto(u, from, to) == pc[u] = from /\ pc' = [pc EXCEPT ![u] = to]

-----------------------------------------------------------------------------
(* mems_alloc.  Its one caller, nifo_node_alloc, asks for the body size of *)
(* the zone, so the size check of line 434 never refuses.                  *)

AllocCall(p) ==
    /\ createCnt < MaxCreate
    /\ Goto(p, "idle", "P")
    /\ UNCHANGED <<hdrVars, zoneVars, sem, pFree, iDebug, oldDel, cur_time,
                   held, freeAtP, envVars>>

\* Broken variant: the semaphore is not taken.
AllocPUnlocked(p) ==
    /\ Goto(p, "P", "scan")
    /\ UNCHANGED sem
    /\ iDebug' = [iDebug EXCEPT ![p] = 0]
    /\ freeAtP' = [freeAtP EXCEPT ![p] = FreeNodes]
    /\ UNCHANGED <<hdrVars, zoneVars, pFree, oldDel, cur_time, held, envVars>>

AllocP(p) ==
    /\ Goto(p, "P", "scan")
    /\ P(sem, SemFlag, p)
    /\ iDebug' = [iDebug EXCEPT ![p] = 0]
    /\ freeAtP' = [freeAtP EXCEPT ![p] = FreeNodes]
    /\ UNCHANGED <<hdrVars, zoneVars, pFree, oldDel, cur_time, held, envVars>>

\* Broken variant: the cursor is wrapped before the last node.
AllocScanShort(p) ==
    /\ Goto(p, "scan", IF offsetFreeList + 2 = TotCnt THEN "wrap" ELSE "test")
    /\ pFree' = [pFree EXCEPT ![p] = offsetFreeList]
    /\ offsetFreeList' = IF offsetFreeList = Outside THEN Outside ELSE offsetFreeList + 1
    /\ UNCHANGED <<hdrVars, createCnt, delCnt, sem, iDebug, oldDel, cur_time,
                   held, freeAtP, envVars>>

\* Take the node under the cursor and move the cursor on: the store of line
\* 451.  Past offsetNodeEnd the test of line 452, an ==, never holds again.
AllocScan(p) ==
    /\ Goto(p, "scan", IF offsetFreeList + 1 = TotCnt THEN "wrap" ELSE "test")
    /\ pFree' = [pFree EXCEPT ![p] = offsetFreeList]
    /\ offsetFreeList' = IF offsetFreeList = Outside THEN Outside ELSE offsetFreeList + 1
    /\ UNCHANGED <<hdrVars, createCnt, delCnt, sem, iDebug, oldDel, cur_time,
                   held, freeAtP, envVars>>

\* The cursor stands at offsetNodeEnd: the store of line 453 takes it back.
AllocWrap(p) ==
    /\ Goto(p, "wrap", "test")
    /\ offsetFreeList' = 0
    /\ UNCHANGED <<hdrVars, createCnt, delCnt, sem, pFree, iDebug, oldDel,
                   cur_time, held, freeAtP, envVars>>

AllocFound(p) ==
    /\ Goto(p, "test", "stamp")
    /\ Reads(pFree[p], MEMS_FREE)
    /\ UNCHANGED <<hdrVars, zoneVars, sem, pFree, iDebug, oldDel, cur_time,
                   held, freeAtP, envVars>>

\* Broken variant: the scan never gives up.
AllocSkipForever(p) ==
    /\ Goto(p, "test", "scan")
    /\ Reads(pFree[p], MEMS_ALLOCED)
    /\ pFree' = [pFree EXCEPT ![p] = Null]
    /\ UNCHANGED <<hdrVars, zoneVars, sem, iDebug, oldDel, cur_time, held, freeAtP,
                   envVars>>

\* Broken variant: the tests are counted one short.
AllocSkipLate(p) ==
    /\ Goto(p, "test", IF iDebug[p] > TotCnt THEN "V" ELSE "scan")
    /\ Reads(pFree[p], MEMS_ALLOCED)
    /\ iDebug' = [iDebug EXCEPT ![p] = @ + 1]
    /\ pFree' = [pFree EXCEPT ![p] = Null]
    /\ UNCHANGED <<hdrVars, zoneVars, sem, oldDel, cur_time, held, freeAtP,
                   envVars>>

\* The node is in use.  After TotCnt + 1 of them give up and return NULL.
AllocSkip(p) ==
    /\ Goto(p, "test", IF iDebug[p] + 1 > TotCnt THEN "V" ELSE "scan")
    /\ Reads(pFree[p], MEMS_ALLOCED)
    /\ iDebug' = [iDebug EXCEPT ![p] = @ + 1]
    /\ pFree' = [pFree EXCEPT ![p] = Null]
    /\ UNCHANGED <<hdrVars, zoneVars, sem, oldDel, cur_time, held, freeAtP,
                   envVars>>

\* The time is stored before the node is marked: a collector that sees the
\* mark sees the new time.
AllocStamp(p) ==
    /\ Goto(p, "stamp", "mark")
    /\ TimeSec' = Store(TimeSec, pFree[p], now)
    /\ UNCHANGED <<ucIsFree, zoneVars, sem, pFree, iDebug, oldDel, cur_time,
                   held, freeAtP, envVars>>

AllocMark(p) ==
    /\ Goto(p, "mark", "count")
    /\ ucIsFree' = Store(ucIsFree, pFree[p], MEMS_ALLOCED)
    /\ UNCHANGED <<TimeSec, zoneVars, sem, pFree, iDebug, oldDel, cur_time,
                   held, freeAtP, envVars>>

\* Broken variant: the allocation is not counted.
AllocCountForgotten(p) ==
    /\ Goto(p, "count", "V")
    /\ UNCHANGED <<hdrVars, zoneVars, sem, pFree, iDebug, oldDel,
                   cur_time, held, freeAtP, envVars>>

AllocCount(p) ==
    /\ Goto(p, "count", "V")
    /\ createCnt' = createCnt + 1
    /\ UNCHANGED <<hdrVars, offsetFreeList, delCnt, sem, pFree, iDebug, oldDel,
                   cur_time, held, freeAtP, envVars>>

\* Return: the caller owns the node, if it got one.
AllocV(p) ==
    /\ Goto(p, "V", "idle")
    /\ V(sem, SemFlag)
    /\ held' = [held EXCEPT ![p] = @ \cup ({pFree[p]} \ {Null})]
    /\ pFree' = [pFree EXCEPT ![p] = Null]
    /\ iDebug' = [iDebug EXCEPT ![p] = 0]
    /\ freeAtP' = [freeAtP EXCEPT ![p] = {}]
    /\ UNCHANGED <<hdrVars, zoneVars, oldDel, cur_time, envVars>>

mems_alloc(p) ==
    \/ AllocCall(p) \/ AllocP(p) \/ AllocScan(p) \/ AllocWrap(p)
    \/ AllocFound(p) \/ AllocSkip(p) \/ AllocStamp(p) \/ AllocMark(p)
    \/ AllocCount(p) \/ AllocV(p)

-----------------------------------------------------------------------------
(* mems_free, called by a process for a node it owns (nifo_node_free) and  *)
(* by a collector for a node it judged old.  delCnt++ is a load and a      *)
(* store, in the zone the header names: not this one for a header outside. *)

FreeCall(p, n) ==
    /\ n \in held[p]
    /\ Goto(p, "idle", "fcheck")
    /\ pFree' = [pFree EXCEPT ![p] = n]
    /\ UNCHANGED <<hdrVars, zoneVars, sem, iDebug, oldDel, cur_time, held,
                   freeAtP, envVars>>

\* The collector's loop goes on with the next node; a process returns.
AfterNode(u, from) ==
    LET more == u \in Collectors /\ pFree[u] + 1 < TotCnt
    IN  /\ Goto(u, from, IF more THEN "look" ELSE "idle")
        /\ pFree' = [pFree EXCEPT ![u] = IF more THEN @ + 1 ELSE Null]

FreeCheck(u) ==
    /\ Goto(u, "fcheck", "fstore")
    /\ Reads(pFree[u], MEMS_ALLOCED)
    /\ UNCHANGED <<hdrVars, zoneVars, sem, pFree, iDebug, oldDel, cur_time,
                   held, freeAtP, envVars>>

\* The header is not that of an allocated node.  nifo_node_free kills its
\* process (BROKEN MEMORY); the collector ignores the result.
FreeBroken(p) ==
    /\ Goto(p, "fcheck", "broken")
    /\ Reads(pFree[p], MEMS_FREE)
    /\ held' = [held EXCEPT ![p] = {}]
    /\ pFree' = [pFree EXCEPT ![p] = Null]
    /\ UNCHANGED <<hdrVars, zoneVars, sem, iDebug, oldDel, cur_time, freeAtP,
                   envVars>>

FreeStore(u) ==
    /\ Goto(u, "fstore", "fload")
    /\ ucIsFree' = Store(ucIsFree, pFree[u], MEMS_FREE)
    /\ held' = [p \in Procs |-> IF p = u THEN held[p] \ {pFree[u]} ELSE held[p]]
    /\ UNCHANGED <<TimeSec, zoneVars, sem, pFree, iDebug, oldDel, cur_time,
                   freeAtP, envVars>>

FreeLoad(u) ==
    /\ Goto(u, "fload", "fcount")
    /\ oldDel' = [oldDel EXCEPT ![u] = delCnt]
    /\ UNCHANGED <<hdrVars, zoneVars, sem, pFree, iDebug, cur_time, held,
                   freeAtP, envVars>>

FreeCount(u) ==
    /\ AfterNode(u, "fcount")
    /\ delCnt' = IF pFree[u] = Outside THEN delCnt ELSE oldDel[u] + 1
    /\ oldDel' = [oldDel EXCEPT ![u] = 0]
    /\ UNCHANGED <<hdrVars, offsetFreeList, createCnt, sem, iDebug, cur_time,
                   held, freeAtP, envVars>>

mems_free(u) == FreeCheck(u) \/ FreeStore(u) \/ FreeLoad(u) \/ FreeCount(u)

-----------------------------------------------------------------------------
(* mems_garbage_collector on the first zone, the only one whose nodes it   *)
(* finds: lines 727-734 add the starts of the zones up.                    *)

GcStart(g) ==
    /\ Goto(g, "idle", "look")
    /\ pFree' = [pFree EXCEPT ![g] = 0]
    /\ cur_time' = [cur_time EXCEPT ![g] = now]
    /\ UNCHANGED <<hdrVars, zoneVars, sem, iDebug, oldDel, held, freeAtP, envVars>>

GcLook(g) ==
    /\ Goto(g, "look", "age")
    /\ ucIsFree[pFree[g]] = MEMS_ALLOCED
    /\ UNCHANGED <<hdrVars, zoneVars, sem, pFree, iDebug, oldDel, cur_time,
                   held, freeAtP, envVars>>

\* Broken variant: the comparison is the wrong way round.
OldReversed(g) == TimeSec[pFree[g]] + TimeGap > cur_time[g]

Old(g) == TimeSec[pFree[g]] + TimeGap < cur_time[g]

GcOld(g) ==
    /\ Goto(g, "age", "fcheck")
    /\ Old(g)
    /\ UNCHANGED <<hdrVars, zoneVars, sem, pFree, iDebug, oldDel, cur_time,
                   held, freeAtP, envVars>>

\* Nothing to free here: not allocated, not old, or freed in the meantime.
GcNext(g) ==
    /\ \/ AfterNode(g, "look") /\ ucIsFree[pFree[g]] # MEMS_ALLOCED
       \/ AfterNode(g, "age") /\ ~Old(g)
       \/ AfterNode(g, "fcheck") /\ ucIsFree[pFree[g]] # MEMS_ALLOCED
    /\ UNCHANGED <<hdrVars, zoneVars, sem, iDebug, oldDel, cur_time, held,
                   freeAtP, envVars>>

mems_garbage_collector(g) ==
    GcStart(g) \/ GcLook(g) \/ GcOld(g) \/ GcNext(g) \/ mems_free(g)

-----------------------------------------------------------------------------
Tick ==
    /\ now < MaxTime
    /\ now' = now + 1
    /\ UNCHANGED <<hdrVars, zoneVars, sem, pc, pFree, iDebug, oldDel, cur_time,
                   held, freeAtP, crashes, stray, missed>>

\* A process dies and is started again.  Its nodes stay allocated.
Crash(p) ==
    /\ crashes < MaxCrashes
    /\ crashes' = crashes + 1
    /\ pc[p] \notin {"idle", "broken"} \/ held[p] # {}
    /\ pc' = [pc EXCEPT ![p] = "idle"]
    /\ Release(sem, p)
    /\ pFree' = [pFree EXCEPT ![p] = Null]
    /\ iDebug' = [iDebug EXCEPT ![p] = 0]
    /\ oldDel' = [oldDel EXCEPT ![p] = 0]
    /\ held' = [held EXCEPT ![p] = {}]
    /\ freeAtP' = [freeAtP EXCEPT ![p] = {}]
    /\ stray' = (stray \/ pc[p] = "wrap")
    /\ missed' = missed + IF pc[p] = "count" /\ pFree[p] \in Node THEN 1 ELSE 0
    /\ UNCHANGED <<hdrVars, zoneVars, cur_time, now>>

Next ==
    \/ \E p \in Procs : mems_alloc(p) \/ mems_free(p) \/ FreeBroken(p) \/ Crash(p)
    \/ \E p \in Procs, n \in Place : FreeCall(p, n)
    \/ \E g \in Collectors : mems_garbage_collector(g)
    \/ Tick

Spec == Init /\ [][Next]_vars

-----------------------------------------------------------------------------
(***************************************************************************)
(* nifo_conf_check refuses a zone that several processes allocate from     *)
(* without the semaphore.                                                  *)
(***************************************************************************)
SemConfigured == SemFlag = MEMS_SEMA_ON \/ \A p, q \in Procs : p = q

InSection == {"scan", "wrap", "test", "stamp", "mark", "count", "V"}
InFree    == {"fcheck", "fstore", "fload", "fcount"}

(* Type invariant of the zone, the node headers and the locals; a scan     *)
(* ends after TotCnt + 1 tests, and a collector's index is in the zone.    *)
TypeOK ==
    /\ ucIsFree \in [Node -> {MEMS_FREE, MEMS_ALLOCED}]
    /\ TimeSec \in [Node -> 0 .. MaxTime]
    /\ offsetFreeList \in Place /\ createCnt \in Nat /\ delCnt \in Nat
    /\ sem \in Procs \cup {Null}
    /\ pc \in [Users -> {"idle", "P", "broken", "look", "age"} \cup InSection \cup InFree]
    /\ \A p \in Procs : pc[p] \notin {"look", "age"}
    /\ \A g \in Collectors : pc[g] \in {"idle", "look", "age"} \cup InFree
    /\ pFree \in [Users -> Place \cup {Null}]
    /\ \A p \in Procs :
          pc[p] \in {"wrap", "test", "stamp", "mark", "count"} \cup InFree => pFree[p] \in Place
    /\ \A g \in Collectors : pc[g] # "idle" => pFree[g] \in Node
    /\ iDebug \in [Procs -> 0 .. TotCnt + 1]
    /\ \A p \in Procs : pc[p] \in {"scan", "wrap", "test"} => iDebug[p] <= TotCnt
    /\ oldDel \in [Users -> Nat]
    /\ cur_time \in [Collectors -> 0 .. MaxTime]
    /\ held \in [Procs -> SUBSET Place]
    /\ now \in 0 .. MaxTime
    /\ freeAtP \in [Procs -> SUBSET Node]
    /\ crashes \in 0 .. MaxCrashes /\ stray \in BOOLEAN /\ missed \in Nat

\* Whoever is inside the scan holds the semaphore.
SectionHeld ==
    SemFlag = MEMS_SEMA_ON => \A p \in Procs : pc[p] \in InSection => sem = p

\* The node a process is about to take is free; the one it has taken is
\* allocated and nobody's yet.
TakenIsMine ==
    \A p \in Procs :
        /\ pc[p] \in {"stamp", "mark"} /\ pFree[p] \in Node => ucIsFree[pFree[p]] = MEMS_FREE
        /\ pc[p] \in {"count", "V"} /\ pFree[p] \in Node =>
              /\ ucIsFree[pFree[p]] = MEMS_ALLOCED
              /\ \A q \in Procs : pFree[p] \notin held[q]
        /\ pc[p] \in {"fcheck", "fstore"} => pFree[p] \in held[p]

\* An owned node is marked as allocated, and nobody else owns it.
OwnedOnce ==
    \A p \in Procs : \A n \in held[p] \cap Node :
        /\ ucIsFree[n] = MEMS_ALLOCED
        /\ \A q \in Procs : q # p => n \notin held[q]

\* Only a death between the two stores that move the cursor round lets
\* anybody use memory past the zone.
InsideUnlessStray ==
    ~stray =>
        /\ offsetFreeList = Outside => \E p \in Procs : pc[p] = "wrap"
        /\ \A p \in Procs : pFree[p] # Outside /\ Outside \notin held[p]

(* mems_alloc gives a node of the zone to one process only, although       *)
(* mems_free writes the headers the scan reads without taking the          *)
(* semaphore, and although processes die inside either.  It gives nothing  *)
(* but nodes of the zone unless a process has died between lines 451 and   *)
(* 453, which leaves the cursor outside for good: no other death does such *)
(* harm.                                                                   *)
PoolInv == SectionHeld /\ TakenIsMine /\ OwnedOnce /\ InsideUnlessStray

(* When mems_alloc returns NULL, every node of the zone was in use when it *)
(* got the semaphore: wherever the cursor stood, the TotCnt + 1 tests go   *)
(* all the way round, and frees during the scan can only help.  The        *)
(* exception is a cursor that a death has left outside (lines 451-453).    *)
ExhaustionIsReal ==
    \A p \in Procs : pc[p] = "V" /\ pFree[p] = Null => freeAtP[p] = {} \/ stray

\* The allocated nodes, but for one that mems_alloc is about to count.
Counted ==
    {n \in Node : ucIsFree[n] = MEMS_ALLOCED
                  /\ \A p \in Procs : ~(pc[p] = "count" /\ pFree[p] = n)}

(* createCnt - delCnt falls short of the allocated nodes, those of dead    *)
(* processes included, by no more than the nodes whose process died after  *)
(* the mark of line 463 and before the count of line 470.  The unlocked    *)
(* delCnt++ of two frees may lose an increment or store an old count, but  *)
(* never counts a free twice.                                              *)
NeverUnderCounted == createCnt + missed >= delCnt + Cardinality(Counted)

(* The collector frees nodes that a certain time has passed for, as the    *)
(* comment of mems_garbage_collector says.                                 *)
GcFreesOnlyOld ==
    [][\A g \in Collectors, n \in Node :
          pc[g] = "fstore" /\ pc'[g] = "fload" /\ ucIsFree[n] # ucIsFree'[n]
          => TimeSec[n] + TimeGap < now]_vars

-----------------------------------------------------------------------------
(* Fairness: a process inside a call keeps running, semop serves waiting   *)
(* processes in turn, a collector that was started runs to its end.        *)
(* Nothing makes an operator start it.                                     *)

InsideCall(p) == pc[p] # "idle" /\ (mems_alloc(p) \/ mems_free(p) \/ FreeBroken(p))

Fairness ==
    /\ \A p \in Procs : WF_vars(InsideCall(p)) /\ SF_vars(AllocP(p))
    /\ \A g \in Collectors : WF_vars(pc[g] # "idle" /\ mems_garbage_collector(g))

FairSpec == Spec /\ Fairness

(* Every mems_alloc returns, with or without a node, also when a process   *)
(* dies holding the semaphore (SEM_UNDO) or with the cursor outside the    *)
(* zone, and whatever is freed meanwhile.                                  *)
AllocReturns == \A p \in Procs : pc[p] = "P" ~> pc[p] = "idle"

\* Allocated, but neither owned nor being allocated.
Lost(n) ==
    /\ ucIsFree[n] = MEMS_ALLOCED
    /\ \A p \in Procs : n \notin held[p] /\ ~(pc[p] \in {"count", "V"} /\ pFree[p] = n)

(* One run of the collector gives back every node that dead processes had  *)
(* left behind when it began and that is old by the time it read then,     *)
(* whatever is allocated and freed while it runs.                          *)
OneRunReclaims ==
    \A g \in Collectors, n \in Node :
        /\ pc[g] = "look" /\ pFree[g] = 0
        /\ Lost(n) /\ TimeSec[n] + TimeGap < cur_time[g]
        ~> ucIsFree[n] = MEMS_FREE
=============================================================================
