# Verification of the DIFO library (UPST_LIB)

The repository is a personal collection of C code. Its own core is
`src/proj/UPST_LIB`, the library the packet analyzers of `src/proj/UPST_PROJECT`
(TAF, TAM, OAM) are built on: processes pass messages to each other as offsets
into shared memory. This directory models that library in TLA+, checks the
models with TLC and proves properties of the channel, the allocator, the hash
table, the timer wheel and the node lists with TLAPS. One program on top of the library is modelled too: the
IP reassembly of the analyzer PRE_A, which uses most of its parts at once. All sources are
EUC-KR encoded; line numbers are those of the files as they are.

## 1. Inventory

| Part | State | Operations | Interacts with |
|---|---|---|---|
| MEMS (`SRC/NIFO/mems.c`) | zones of equal nodes in one segment; per node `ucIsFree`, `TimeSec`; per zone a cursor and two counters; one semaphore per zone | `mems_init`, `mems_alloc`, `mems_free`, `mems_garbage_collector`, `mems_alloced_cnt` | called by NIFO; the collector by an operator's tool |
| Semaphores (`P`, `V` in `mems.c`) | System V semaphores with `SEM_UNDO` | `P`, `V` | MEMS, CIFO |
| clisto (`INC/clisto.h`) | `offset_next`, `offset_prev` of every entry | add, delete, splice, walk | NIFO |
| NIFO nodes (`SRC/NIFO/nifo.c`) | two circular lists per node: `nont` (the messages of a batch) and `cont` (the nodes of a message) | alloc, link, unlink, splice, delete | MEMS, clisto |
| NIFO messages (`nifo.c`) | TLVs in the bodies of the nodes of a message | `nifo_tlv_alloc`, `nifo_copy_tlv_cont`, `nifo_read_tlv_cont`, `nifo_get_value`, `nifo_get_tlv` | the analyzers |
| CIFO (`SRC/CIFO/cifo.c`) | per channel a ring of cells, the list being gathered, limits, two semaphores | `cifo_write`, `cifo_read`, `cifo_set_buffcnt`, counters | NIFO splices; semaphores |
| GIFO (`SRC/GIFO/gifo.c`) | routing matrix process pair -> channel, groups of channels | `gifo_init`, `gifo_write`, `gifo_read`, `gifo_conf_check` | CIFO |
| HASHO/MEMG (`SRC/HASHO/hasho.c`, `memg.c`) | a hash table in shared memory: buckets, chains of nodes linked by offsets, an allocator with a cursor | `hasho_init`, `hasho_add`, `hasho_find`, `hasho_del`, `hasho_reset`, `memg_alloc`, `memg_free` | one process at a time; outlives it |
| HASHG/TIMERN (`SRC/TIMERN/hashg.c`, `timerN.c`) | a wheel of lists, one per second of a day; the second being served; an index counter | `timerN_init`, `timerN_add`, `timerN_update`, `timerN_del`, `timerN_invoke` | in process memory; callbacks call it again |
| PRE_A IP reassembly (`UPST_PROJECT/TAF/SRC/PRE_A`) | per datagram an entry of a hash table, a ring of NIFO nodes and a timer | `ip_frag`, `invoke_del_ipfrag`, `vIPFRAGTimerReConstruct`, the main loop | HASHO, TIMERN, NIFO lists |
| LOG, NSOCK, IPC, UTIL, FILE, DB, FIDB, ANZ_LIB | - | I/O, formatting, parsing | - |
| TAF/TAM/OAM processes | - | main loop: `gifo_read`, walk, `nifo_node_delete` | everything above |

What is hard in this code: writers and readers of a channel share the ring
without a common lock (the reader takes none, and the writers take one only if
configured); `mems_free` and the collector write node headers without the
semaphore `mems_alloc` scans them under; processes die and are restarted while
holding semaphores and nodes; lists live in shared memory and are spliced by
several processes; TLVs cross node boundaries; timer callbacks change the very
list that is being served; the state of one datagram is spread over a hash table and
nodes that survive a restart and timers that do not. The full list, each at its line,
is `hazards` in `PROJECT.json`.

What makes each part correct:

* channel: nodes come out in the order they went in, once, whatever the
  interleaving and the gathering limits; a full ring refuses; deaths lose at
  most what the dead process held and never block the others; nodes leave it only
  in the list a read returns;
* allocator: one owner per node, nothing but nodes of the zone handed out; NULL only if
  the zone was full; every call returns; the collector gives back what dead processes
  left and nothing else;
* lists: a walk visits what the calls say it should; delete frees all nodes once;
* messages: TLVs are read back complete, in order, byte for byte;
* hash table: it is a map of limited size, whatever collides and in whatever
  order keys come and go;
* timers: each one runs once, in the order of the times, not too soon, and not
  after it was deleted; none is forgotten, also when the main loop is late;
* reassembly: what is handed on is a whole datagram; entry, ring and timer come
  and go together, through completion, timeout and restart.

## 2. Modules

| Module | Models | Notes |
|---|---|---|
| `Sema` | `P`, `V`, `SEM_UNDO` | the value of a semaphore is its holder |
| `Clisto` | `clisto.h` | all links as one value; primitives are functions on it, stores in source order |
| `ClistoProofs` | lemmas about walks and splices of `Clisto` | used for the channel and for the nodes |
| `Cifo` | one channel of `cifo.c` | an action per access to shared memory; see below |
| `CifoQueue` | abstract | a bounded queue with peek and drop: what the cells promise |
| `Fifo` | abstract | what the channel promises on nodes |
| `CifoFifo` | refinement of `Fifo`, liveness | `InFlight` is the refinement mapping |
| `CifoProofs` | theorems about `Cifo` and `CifoFifo` | first the cells, then the lists themselves |
| `Mems` | one zone of `mems.c`, with collector | a node is its index |
| `MemsProofs` | theorems about `Mems` | owners, then the scan of `mems_alloc` and the counters |
| `MemsLayout` | where zones and nodes lie and how they are found | addresses are offsets |
| `MemsLayoutProofs` | theorem about `MemsLayout` | |
| `NifoNode` | node operations of `nifo.c` | sequential: one process owns the nodes it links |
| `NifoNodeProofs` | theorems about `NifoNode` | |
| `NifoTlv` | message contents | bytes are named by the TLV and place they belong to |
| `Hasho` | `hasho.c`, `memg.c` | the segment is one value, operations are functions on it |
| `HashoTable` | all sequences of calls on one table | |
| `HashoProofs` | theorems about `HashoTable` | |
| `KeyMap` | abstract | a map of limited size |
| `TimerN` | `timerN.c`, `hashg.c` | the wheel is one value, operations are functions on it |
| `TimerApp` | a process with a wheel: main loop, callbacks, clock | |
| `TimerSet` | abstract | what timers promise |
| `TimerProofs` | theorems about `TimerApp` | |
| `IpFrag` | PRE_A's reassembly | composes `Hasho`, `TimerN` and `Clisto` |
| `Reassembly` | abstract | which fragments are held and what is handed on |
| `NatRecursion` | induction and recursion over the naturals, for the proofs | |
| `MC*` | instances for TLC | symmetry sets and constant sets only |

`Cifo`. Writer locations are `idle, P, pos, check, count, flush, store, publish,
V`: line 246, 247-249, 252-269, 270, 272-279, 282, 283, 286 of `cifo_write`.
Reader locations are `idle, snap, loop, advance, consume`. The channel's fields keep
their names. `uiRSemFlag` is 0 because `cifo_init` never stores it. `WriteCall`
takes a node of the caller; several nodes already linked would be a longer list
spliced in the same way. `Consume` is the caller of `cifo_read`: it walks and
deletes the list, and its nodes may be written again. `Crash` is a death inside
a call: `SEM_UNDO` frees the semaphores, local variables are gone, the ring stays as it
was. Shared memory is taken to be sequentially consistent: the code has no
barrier between lines 282 and 283, and is right only on machines that keep the
order of two stores. The check of the channel number (lines 237-242, 299-304) is
an early return before any shared access and is left to a GIFO model.

`Mems`. `mems_alloc` is `P, scan, wrap, test, stamp, mark, count, V`: the cursor moves on
with the store of line 451 (`scan`) and is taken back to the start of the zone with
that of line 453 (`wrap`), and a process may die between the two. The cursor then
stays at `offsetNodeEnd`, and as line 452 tests with `==`, it never comes back. `Outside`
stands for every place from there on; what a header there reads as is left open, and a store
there changes no node of the zone. That is how one zone sees it; the zone behind
it, whose nodes are handed out without its own semaphore, is not in the model, and the cursor of the
zone in front is taken to be inside it. `mems_free` is
`fcheck, fstore, fload, fcount`, with `delCnt++` split into load and store. The
collector's loop is `look, age` and then `mems_free`. `freeAtP`, `stray` and `missed` are history
variables: the nodes that were free when the semaphore was obtained, whether a process has
died at `wrap`, and how many nodes were marked (line 463) by a process that died before it counted
them (line 470). Debug
strings, `uiID` (constant after `mems_init`) and the size check of line 434 (the only
caller passes the zone's body size) are left out.

`MemsLayout`. `ptr` runs over every byte of a segment laid out for every
configuration in the constants.

`NifoNode`. `nontRings` and `contRings` keep the lists as sequences: the
reference the links are compared with. The guards are the preconditions of the
comments in `nifo.c`: a node to be linked is on no other list of that kind, two
lists to be joined are different, and delete is called for a header node. Within
`nifo_node_delete` the segment and the local `pNode` are one record, which
`nifo_nont_delete`, `nifo_cont_delete` and `nifo_node_free` map to the record after the
call; `Loop` is a loop of the source that ends with a NULL node, or with the
process when `nifo_node_free` meets a node that is not allocated.

`NifoTlv`. `nodes` is the cont list from the head, each node the bytes after its
NIFO header. `nifo_read_tlv_cont` gathers a header and then a value across
nodes, as the two loops of lines 967-981 and 999-1013 do. `GrowValue` is the
loop of `dGetLengthData` in A_HTTP, the code that makes values longer than a
node. `nifo_get_value` and `nifo_get_tlv` look in the head node alone. They find a TLV
that is copied into the tail of the head too, but only the first part of its value
follows the pointer they return, and a header that is itself torn there is read past the
end of the node (`Garbage`), where the code may match anything. `HeadLookup` therefore claims the
TLVs that lie in the head, and of a message made by `nifo_tlv_alloc` alone that it is never read past
the end of its head and that a type it does not have gives NULL; of other lookups in a
message with a torn header it claims nothing. Every TLV of a
modelled message has a type of its own, its number; `NIFO.cnt` is left out, as nothing modelled
reads it. All
nodes of a message come from one zone; `nifo_read_tlv_cont` uses the head's body
size for all of them, so it would not be right otherwise.

`Hasho`. Nodes are 1 .. `HashSize * NodesPerBucket`, 0 is the null offset; the
cursor, the count of nodes in use, the `next` and `prev` offsets, keys and bodies keep the
stores of the source. `hasho_func` is a constant: any function of the keys.
`NodesPerBucket` stands for the 5 of `hasho_init`. A table that is found already made
(`EEXIST`) is left as it is, so a restart is no step of `HashoTable`.

`TimerN` and `TimerApp`. A call is one step; `timerN_invoke` is a step per
callback and per second, and while a callback runs (`pc = "callback"`) the process may
make any call. `ids` is the id the process was given last for each timer.
`timerN_add` with a time that is not ahead of `uiCurrentTime` runs the callback at once and
gives no id; `timerN_update` runs it at once too. As `uiCurrentTime` is one more than the last
second served, either may be a second too soon: `TimerSet` says so (`RunNew`, `RunAtOnce`), and
`early` records both, a timer without an id under index 0. `deleted` is what `timerN_del` was called
for: `TimerSet!Cancel` is tied to it, so a timer that leaves the wheel in any other way has to have
run.
`N_DAY` and `ONE_MINUTE` are constants; the wheel is right for any values.

`IpFrag`. A packet is a datagram and the number of a fragment; its offset, length
and more-flag follow from how the sender cut the datagram. `ip_frag` is three
actions, one for each way out: refused (no entry left), kept, completed, and each is the
whole call, with table, ring and timer. `timerN_invoke` is as in `TimerApp`; its callback
is `invoke_del_ipfrag`. `Restart` is a stop and start of the process;
`KilledBeforeTimer` a kill between `hasho_add` and `timerN_add`. The clock only goes forward and the
timeout is at least two seconds, so no callback runs from inside `ip_frag`.
`Forget` clears what freed entries hold once a call is over, to keep the state space
small; within the call the freed entry is still read, as line 290 of `prea_frag.c`
does. `Analyze` is the process PRE_A hands the node to. `IsReassembly` maps the fragments held to the
nodes in use that hold them, as long as the table has an entry of their datagram, the wait of a datagram to
its timer on the wheel, and the serving of timeouts to `timerN_invoke`. That those nodes are the ones the
entry's ring leads to is `NodesAccounted`, which the same run checks. Each datagram has one cut: reuse
of an identifier with another cut is outside the model.

Refinement of `Fifo`. `InFlight` is every node written and not yet returned, `Returned` the list the last
read returned, until its caller is done with it. A node enters with the step past the full check
(`Accepts`); `Get` moves the front of `InFlight` to `Returned`, so nodes that a step drops, or that
`cifo_read` leaves out of its list, refine nothing. The step in which a process dies is excepted.

## 3. Runs

| Run | Instance | Shows |
|---|---|---|
| `cifo_ring` | 2 writers, 1 reader, 3 cells, 3 nodes, one crash, both limits changed | `TypeOK`, `RingInv`, `AtMostOnce`, `QueueRefinement`, `FifoRefinement` |
| `cifo_live` | 2 writers, 1 reader, 3 cells, 2 nodes, one crash, fair | `CellsAreDelivered`, `WritersReturn` |
| `mems_pool` | 2 processes, 3 nodes, 4 allocations, two crashes | `TypeOK`, `PoolInv`, `ExhaustionIsReal`, `NeverUnderCounted` |
| `mems_live` | 2 processes, a collector, 2 nodes, two crashes, fair | `AllocReturns`, `OneRunReclaims` |
| `mems_layout` | up to 3 zones of 2 body sizes and 3 node counts | `OffsetFindsNode` |
| `nifo_node` | 5 nodes, all call sequences | `TypeOK`, `WalkIsRing`, `DeleteIsExact` |
| `nifo_tlv` | body sizes 5..9, up to 3 TLVs of length 0..8, 1, 3 or 6 nodes | `TypeOK`, `EveryTlvInOrder`, `AllocedReadBack`, `HeadLookup` |
| `hasho_map` | 4 keys, 3 of them in one bucket, 3 nodes, 2 bodies, all call sequences | `TypeOK`, `ChainsExact`, `TableIsMap` |
| `timern` | a wheel of 3 seconds, 3 timers, at most 2 at a time, 6 seconds, main loop up to 1 second late, fair | `TypeOK`, `WheelExact`, `DeletedIsGone`, `WheelIsTimers`, `TimersEnd` |
| `ipfrag` | 3 datagrams of 2 or 3 fragments, 2 of them too long for a node, 2 entries in one bucket, 4 nodes, timeout 2 of 6 seconds | `TypeOK`, `TimersMatch`, `NodesAccounted`, `DeliveredWhole`, `IsReassembly` |

Bounds. A ring of three cells has an empty, a partly filled and a full state and
wraps; with one cell always free, three nodes fill it and leave one to be refused. Two
writers are enough for every race on the write section (a third only waits).
Three nodes in a zone let the cursor stand at, before and behind a free node. Five
nodes allow two messages of two nodes and one more to splice. Body sizes from
one byte more than both headers on make headers and values end before, at and
after every node boundary. Three keys in one bucket give a chain a first, a middle
and a last node, and a fourth key is one more than there are nodes. A wheel of 3
seconds and a clock that goes to 5 make timers of different turns meet on one
list (1 and 4 share one); a time 3 ahead is refused, or accepted when the wheel is a second
ahead of the clock, and 1 ahead is run at once then; two timers at a time are one less than the three
that are asked for, so the limit is met. Two deaths in a zone let one leave the cursor outside and
another strike the process that meets it there, and three cells let the batch limit of a read leave one behind (`cifo_live`; with its two nodes no
write is refused there, so what a refused write does to the semaphore is part of `RingInv` in `cifo_ring`). `MaxCreate` of
`mems_live` stops new allocations, not those that have begun, so one node is left behind
while another is being allocated.
Four NIFO nodes hold the three fragments of a datagram and the whole one, or leave
none for it. `MaxCrashes`, `MaxCreate`, `MaxTime`, `MaxIdx`, `MaxTlv`, `MaxGrow` and
`MaxReads` bound counters. Deadlock is checked except in the `mems_*` runs and
`nifo_tlv`, which stop when their bounds are used up. Nodes, writers, processes and
keys that hash and are cut alike are symmetric in the safety runs (`SYMMETRY`),
never in the liveness runs.

Fairness. A process inside a call keeps running (weak fairness of its steps);
`semop` queues waiters, so a waiter is not passed over for ever (strong fairness
of `P`); analyzers poll `cifo_read` from their main loops (weak fairness of the
reader). A collector that was started runs to its end, but nobody is obliged to start it:
it is an operator's command (`memd_view.c:105`), so `OneRunReclaims` says what one run gives
back, not that one happens. Nobody is obliged to write or to allocate, and the clock of `Mems` need not
advance. For the timers: the main loop goes on calling
`timerN_invoke`, its callbacks return, and time passes; nobody is obliged to set or
delete a timer. `TimersEnd` holds because the number of timers and the clock are bounded:
a process that sets the same timer again for ever keeps it from running, as it should.

Runs that are expected to be violated show where the code does not do what a
comment says:

| Run | What happens |
|---|---|
| `cifo_two_readers` | the read semaphore is never used (`uiRSemFlag` is not stored, `cifo.c:126-140`; `cifo.h:80` says what it is for): two readers return the same list |
| `mems_gc_race` | `mems.c:742-750`: a node judged old is freed and reallocated before the collector frees it; the new owner loses it |

Three more faults were met while modelling and are not runs of their own.
`mems.c:451` and `453` move the cursor of a zone round with two stores. A process that dies
in between, its semaphore freed by `SEM_UNDO`, leaves `offsetFreeList` at `offsetNodeEnd`, "the last offset of the
nodes" (`mems.h:131`); the next `mems_alloc` tests, marks and returns memory past the zone, and the cursor
never comes back. The model takes these steps in `mems_pool` and `mems_live`; `PoolInv` and
`ExhaustionIsReal` name this death (`stray`) as their only exception, and without `~stray` in
`InsideUnlessStray` TLC finds the cursor, and then a process, outside the zone.
`mems.c:731` adds `offsetNodeStart` of every zone to a base that is set once before
the loop, so that `mems_garbage_collector` finds the nodes of the first zone only
(`mems_alloced_cnt` starts from the segment each time, lines 829-831); the
collector is modelled on one zone. `nifo.c:1145` copies each chunk of a long value from
the value's start; `CopyValue` keeps it, `AllocedReadBack` is about the values A_HTTP
makes, and no process of the repository calls `nifo_copy_tlv_cont`.

`ipfrag` holds because `memg_free` leaves the body of a node alone:
`prea_frag.c:290` reads the timer's id from the entry that line 289 has freed. The
mutant `FreeClears`, a `memg_free` that clears the body, leaves timers behind that
later strike another datagram of the same key.

With `LiveTuning = TRUE` the model also shows that `cifo_set_buffcnt`, which takes
no semaphore, may lower `uiWBuffCnt` between line 252 and line 272 and so make a
writer publish into a full ring. No process of the repository calls it; the runs
and the theorems assume `~LiveTuning`.

## 4. Proofs

`CifoProofs` proves, for every number of cells, nodes, writers, gathering
limits and crashes, under the named assumptions of `Cifo` (`ProcsAssumption`,
`CellCntAssumption`, `BuffCntAssumption`, `FlagAssumption`, `CrashAssumption`,
`NullAssumption`) and `Configured`:

* `TypeCorrect`: `Spec => []TypeOK`;
* `RingSafe`: `Spec => []RingInv`;
* `ChannelIsQueue`: `Spec => QueueRefinement`, i.e. the cells implement `CifoQueue`.

`Configured` says what the code is written for: the write semaphore is on when
there is more than one writer (`gifo_conf_check` refuses other configurations),
one process reads the channel, and the write limit is not lowered under a
running write.

The inductive invariant is `TypeOK /\ RingInv`. "No unread cell is overwritten"
is not inductive by itself: one has to know that the writers exclude each other
(`SectionHeld`, which also says that nobody else holds the semaphore, refused and dead writers
included), that the positions a writer copied are still right
(`WriterView`: its `curReadPos` may be old, but the ring was then fuller than it
is now), that a writer which is going to flush still has a cell although the check
was several steps ago (`RoomToFlush`), and that the reader's old `curWritePos` is not
behind `rCellPos` (`ReaderView`). The types depend on the ring too: a splice
keeps the links well typed only if the cell that is read holds a node
(`UnreadHoldNodes`), so both are proved together (`ChannelInvariant`). The refinement
proof shows that a publish is a `Put`, entering the read loop's body a `Peek`, an
advance a `Drop`, a dead reader a `Forget`, and every other step a stutter.

`MemsProofs` proves, for every number of nodes, processes, collectors and crashes,
under the named assumptions of `Mems`:

* `ZoneTypes`: `Spec => []TypeOK`, with or without the semaphore: a scan makes at most
  `TotCnt + 1` tests, also outside the zone, and the collector's index stays inside it;
* `PoolSafe`: `Spec => []PoolInv`, under `SemConfigured` and without a collector (with
  one, `mems_gc_race` shows how a node in use is given to somebody else). A node of the zone has one
  owner after any deaths. That nothing else is handed out (`InsideUnlessStray`) has one
  exception, a death between lines 451 and 453; it is a real one (section 3).

The inductive invariant is `TypeOK /\ PoolInv`. "A node has one owner"
(`OwnedOnce`) needs to know what holds of a node between the test of its header
and the return of `mems_alloc` (`TakenIsMine`): nobody else marks it, because the
scan is exclusive (`SectionHeld`), and nobody's `mems_free`, which takes no
semaphore, touches it, because it is in nobody's hands.

It proves `NullMeansFull`: `Spec => []ExhaustionIsReal` under
`SemConfigured`, with any number of collectors and crashes, as long as none has left the cursor
outside (`stray`). The invariant (`ScanInv`) says what a scanning
process knows: the k-th last node the cursor has passed (`Behind`) was not free when the
semaphore was obtained, for every k up to `iDebug`; nobody else moves the cursor or marks a
node meanwhile. After `TotCnt` nodes that is every node, wherever the scan began.

And it proves `CountersNeverShort`: `Spec => []NeverUnderCounted` under `SemConfigured` and
without a collector. A death between the mark of line 463 and the count of line 470 leaves a node that
`createCnt` lacks; `missed` counts these deaths, and the theorem says that they are all that is missing:
`createCnt - delCnt + missed` is at least the number of allocated nodes, those of dead processes included. The
invariant (`CountInv`) bounds the stored `delCnt` and every value a process
has loaded for its `delCnt++` alike: each of them, plus the nodes that are out, plus the frees
that have yet to be counted, is at most `createCnt + missed`. So a store of an old value (a lost increment) and
a death between the store of a free and its count only make `delCnt` smaller than it should be. That the
counts are exact does not hold.

`TimerProofs` proves, for every size of the wheel, any number of timers, any
limit of nodes and any lag of the main loop, under the named assumptions of `TimerN`
and `TimerApp` (`WheelAssumption`, `AppAssumption`) and `UpdateInReach`:

* `TimerTypes`: `Spec => []TypeOK`;
* `WheelStaysExact`: `Spec => []WheelExact`;
* `DeletionIsCertain`: `Spec => []DeletedIsGone`;
* `WheelRunsTimers`: `Spec => WheelIsTimers`, i.e. the wheel implements `TimerSet`.

`UpdateInReach` says that no timer is set again further ahead than the wheel holds, less
the lag. It is needed: beyond the limit `timerN_update` has already written the new
key (line 309) when it finds that it cannot link the node (line 318), and leaves it on its
old list, where no call finds it by its id. The callers of the repository are far from it. The
inductive invariant is `IInv`: the exact wheel, the bounds between wheel and clock
(`Clocks`: a callback is early by one second at most because the wheel is ahead by
one at most), and what the process knows (`IdsKept`: the last id is the one in the
wheel; without it a deletion might miss), and that indices that have run are not given out again
(`IndexPast`). The argument that a timer runs in its own second is `OneTimePerSlot`: two
times on one list less than a turn apart are equal; hence a second is left
behind only when nothing is due in it.

`MemsLayoutProofs` proves `EveryByteHasItsNode`: `Spec => []OffsetFindsNode`, for every number of
zones and every size and count, under `LayoutAssumption`. The two loops of `mems_init` (the
size to allocate, the start of each zone) compute the same total (`Totals`, `SizeIsEnd`), which
grows with each zone, so that a byte is in one zone (`OneZone`); inside it the quotient by the size of
a node is the number of the one node the byte can be in (`Quotient`).

`HashoProofs` proves, for every number of buckets and keys, any hash function and any calls,
under `HashAssumption`:

* `TableTypes`: `Spec => []TypeOK`;
* `ChainsStayExact`: `Spec => []ChainsExact`;
* `TableImplementsMap`: `Spec => TableIsMap`, i.e. the table implements `KeyMap`.

`ChainsExact` speaks of what a walk finds, and a walk is hard to reason about while links
change. The inductive invariant `TabInv` says instead that there are sequences of nodes, one per
bucket, which links, keys and header flags agree with (`Shape`). `hasho_add` puts a node in front of one of them (`LinkShape`), `hasho_del`
takes one out at its place, first, last or between (`UnlinkShape`); and the walk of `hasho_find`
visits just such a sequence (`VisitIsChain`, by induction). `memg_alloc` inspects every header
(`ProbeIsOnto`), and since the count is the number of allocated nodes, one is
free when the search starts: `hasho_add` refuses only what `KeyMap` refuses.

On the lists that pass through the cells `CifoProofs` proves, under the same assumptions:

* `NoNodeTwice`: `Spec => []AtMostOnce`, also after deaths;
* `ChannelIsFifo`: `Spec => FifoRefinement`: every step but a death leaves the nodes in flight as
  they are, adds one at the end, or takes a list from the front, and that list is the one
  `cifo_read` returns.

`AtMostOnce` is far from inductive: a splice joins lists it only knows by one node. The inductive
invariant adds `OwnInv`: `next` and `prev` are inverse to each other on all nodes, and there is a
function from nodes to owners (a cell, `wOffset`, a local of a process, the callers) that
is constant along `next` and gives the node at each place that place as owner. Inverse links mean that a walk
comes back to where it began (`WalkComesBack` of `ClistoProofs`; the nodes are finitely many), so a list lies within
one owner, and two places have disjoint lists. Each step hands all nodes of
one owner to another (`Given`). That the lists are kept in order is `SpliceJoins` (the splice of two different
lists walks as one behind the other) and `SameList` (a list none of whose nodes was written walks as
before); the joined lists of the cells shift by one when the reader advances, and
`HolderInv` says where the locals `input` and `pHead` are empty.

`NifoNodeProofs` proves, for any finite number of nodes and any sequence of calls:

* `NodeTypes`: `Spec => []TypeOK`;
* `WalksAreRings`: `Spec => []WalkIsRing`;
* `DeletionIsExact`: `Spec => []DeleteIsExact`.

The inductive invariant is `Inv` (theorem `RingsAreKept`): for each of the two lists (`ListOK`) `next`
and `prev` are inverse, every sequence of the reference is a ring along `next`, rings that share a node
are the same, the nodes on rings are the allocated ones, and a free node is linked to itself. The last
part is what `nifo_node_alloc` and a second use of a deleted node rely on. Inverse
links are fixed by their `next` (`LinksAreInverse`), so prev needs no argument of its own. An operation
rewrites the links of one or two rings and leaves the rest alone (`Apart`, `Renewed`, `Rewritten`);
what is left is that the new sequences are rings: two joined (`JoinedRing`, which also serves
`clist_add_tail`, the splice of a single node), one with a node put behind the first
(`InsertedRing`), one without its first (`TailRing`). For `nifo_node_delete`, each loop is a walk
through the states of the call (`ContRun`, `MessageRun`); after k rounds the first k nodes of the ring are unlinked
and the others still are a ring (`Peeled`, `PeelStep`), so the last one is recognised by its own link
(`pNext`) and no node is met twice (`ContLoop`). The outer loop needs that no two messages on the nont
list share a node (`MessagesAre`): that is where the precondition counts, since a header that is behind another one in
a message would be freed with it and then once more.

`FiniteAssumption` of `Clisto` (the entries are finitely many) is what makes a walk end; shared memory
is finite.

The walks of the code (along a chain, round a list, over zones) are recursive functions in
the model. The library's induction theorems have an operator parameter, which the installed provers cannot
instantiate. `NatRecursion` therefore derives induction for sets of naturals and the existence and
uniqueness of a recursive function from the theorem that proper inclusion of finite sets is
well-founded; all inductions above are instances of these.

Only model-checked: all liveness properties, which are out of the prover's reach;
the reassembly (`IpFrag`), whose invariants rest on table, ring and timers at once; and the contents of
messages (`NifoTlv`), which is written with RECURSIVE operators, in the reach of which no proof can be
checked.

## 5. Not modelled

Configuration parsing (its results are the constants), attaching to a segment
its creator is still initialising (`mems.c:294`, `cifo.c:95`), GIFO
routing, the message-queue transport of NIFO (`nifo_get_point_*`, `nifo_get_tlv_cont` and
`nifo_get_tlv_all` are compiled out, `nifo.c:634-916`), death between the stores of a splice or of `hasho_link_node` (`hasho.c:318-321`), memory ordering weaker than
sequential consistency, I/O and formatting libraries, protocol decoding, the
analyzers but for the reassembly, DSC_R2 (which has its own later copies of the libraries)
and the exercises.

Of the timers: an update beyond the wheel (see section 4), a clock that is set
back, the wrap of the 32-bit index. Of the reassembly: a kill at other places
than before the timer is set. Between lines 288 and 289 of `prea_frag.c` it leaves an
entry that points to free nodes, between 254 and 255 a ring longer than its count; the code does
nothing about either, and `NodesAccounted` would not hold.

Most of the repository (TAM, OAM, DSC_R2 OMP and SMLEG) is command handlers,
database access, formatting and packet decoding, with no shared state of its own
beyond what the library keeps; it is listed in `PROJECT.json` as not modelled.

## 6. Plan

1. Done: `Sema`, `Clisto`, `Cifo` with its abstract specifications, `Mems`,
   `MemsLayout`, `NifoNode`, `NifoTlv`; `Hasho` with `KeyMap`; `TimerN` and `TimerApp`
   with `TimerSet`; `IpFrag` with `Reassembly`; the theorems of section 4.
2. Proofs: the invariants of `IpFrag` on top of those of `HashoProofs`, `TimerProofs` and
   `ClistoProofs`; `NifoTlv` with recursive functions in place of RECURSIVE operators.
3. `Gifo`: `gifo_write` and `gifo_read` over several channels, composed with
   `Cifo`'s queue; per-sender order across the channels of a group; the channel
   number check; `gifo_conf_check` against the readers it does not count.
4. `Attach`: `mems_init`, `cifo_init` and `gifo_init` as several processes run
   them at the same time.
5. `Cifo`: the four stores of a splice as separate steps, with a death in between.
