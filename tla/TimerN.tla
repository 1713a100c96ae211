------------------------------- MODULE TimerN -------------------------------
(***************************************************************************)
(* The timer wheel of UPST_LIB (SRC/TIMERN/timerN.c) on its hash table of  *)
(* linked lists (hashg.c).  It lives in the memory of one process.  A      *)
(* wheel is one value w: w.wheel[b] is list b, its first node first; a     *)
(* node is the index and time of its key and the argument of its callback. *)
(* Nodes are told apart by index, which timerN_update does not change.     *)
(* An operator returns the wheel after the call, the timer id it hands     *)
(* back and the nodes whose callback it has to run.                        *)
(***************************************************************************)
EXTENDS Integers, Sequences, FiniteSets

CONSTANTS
    N_DAY,      \* seconds on the wheel: uiHashSize
    ONE_MINUTE, \* how much less than a turn a timer may be set ahead
    MaxNodeCnt  \* of stHASHGINFO: N_DAY * 10

ASSUME WheelAssumption ==
    /\ N_DAY \in Nat /\ ONE_MINUTE \in Nat /\ 0 < ONE_MINUTE /\ ONE_MINUTE < N_DAY
    /\ MaxNodeCnt \in Nat

Slot == 0 .. N_DAY - 1
NoId == [idx |-> 0, time |-> 0]  \* TIMERNID 0

IdOf(n)  == [idx |-> n.idx, time |-> n.time]
On(w, b) == {w.wheel[b][i] : i \in DOMAIN w.wheel[b]}
Nodes(w) == UNION {On(w, b) : b \in Slot}

timerN_init(time) ==
    [uiCurrentTime |-> time, uiTimerNIdIndex |-> 1, uiNodeCnt |-> 0, uiLinkedCnt |-> 0,
     wheel |-> [b \in Slot |-> <<>>]]

timerN_timeout_func(time) == time % N_DAY

-----------------------------------------------------------------------------
(* hashg.c                                                                 *)

hashg_link_node(w, n) ==
    [w EXCEPT !.wheel[timerN_timeout_func(n.time)] = <<n>> \o @, !.uiLinkedCnt = @ + 1]

Without(list, n) ==
    LET at == {i \in DOMAIN list : list[i].idx = n.idx}
    IN  IF at = {} THEN list
        ELSE LET i == CHOOSE i \in at : TRUE
             IN  [j \in 1 .. Len(list) - 1 |-> list[IF j < i THEN j ELSE j + 1]]

\* The node is taken off the list it hangs on, whatever its key says.
hashg_unlink_node(w, n) ==
    [w EXCEPT !.wheel = [b \in Slot |-> Without(w.wheel[b], n)], !.uiLinkedCnt = @ - 1]

\* The nodes with this key: one or none.
hashg_find(w, id) ==
    LET list == w.wheel[timerN_timeout_func(id.time)]
    IN  {list[i] : i \in {j \in DOMAIN list : IdOf(list[j]) = id}}

\* timerN_add has made sure that the key is new.
hashg_add(w, n) ==
    IF w.uiLinkedCnt >= MaxNodeCnt \/ hashg_find(w, IdOf(n)) # {} THEN w
    ELSE hashg_link_node(w, n)

-----------------------------------------------------------------------------
(* timerN.c                                                                *)

InReach(w, timeout) == timeout <= w.uiCurrentTime + N_DAY - ONE_MINUTE

timerN_add(w, arg, timeout) ==
    LET n  == [idx |-> w.uiTimerNIdIndex + 1, time |-> timeout, arg |-> arg]
        w1 == [w EXCEPT !.uiTimerNIdIndex = @ + 1]
        w2 == hashg_add(w1, n)
    IN  IF timeout <= w.uiCurrentTime
        THEN [w |-> w, id |-> NoId, invoked |-> {n}]
        ELSE IF InReach(w, timeout) /\ w2 # w1
        THEN [w |-> [w2 EXCEPT !.uiNodeCnt = @ + 1], id |-> IdOf(n), invoked |-> {}]
        ELSE [w |-> w1, id |-> NoId, invoked |-> {}]

\* Broken variant: the node is looked for among those of the present second.
DelLooksInCurrent(w, id) ==
    LET list == w.wheel[timerN_timeout_func(w.uiCurrentTime)]
        hit  == {list[i] : i \in {j \in DOMAIN list : IdOf(list[j]) = id}}
    IN  IF hit = {} THEN w
        ELSE [hashg_unlink_node(w, CHOOSE n \in hit : TRUE) EXCEPT !.uiNodeCnt = @ - 1]

\* Broken variant: a node that is not found is counted as deleted.
DelCountsMissing(w, id) ==
    IF hashg_find(w, id) = {} THEN [w EXCEPT !.uiNodeCnt = @ - 1]
    ELSE [hashg_unlink_node(w, CHOOSE n \in hashg_find(w, id) : TRUE) EXCEPT !.uiNodeCnt = @ - 1]

timerN_del(w, id) ==
    IF hashg_find(w, id) = {} THEN w
    ELSE [hashg_unlink_node(w, CHOOSE n \in hashg_find(w, id) : TRUE) EXCEPT !.uiNodeCnt = @ - 1]

\* The key of a node that stays where it is.
ChangeKey(w, n, time) ==
    [w EXCEPT !.wheel = [b \in Slot |-> [i \in DOMAIN @[b] |->
        IF @[b][i].idx = n.idx THEN [@[b][i] EXCEPT !.time = time] ELSE @[b][i]]]]

\* Broken variant: the node gets its new key and stays on its old list.
UpdateKeepsList(w, id, timeout) ==
    IF hashg_find(w, id) = {} THEN [w |-> w, id |-> NoId, invoked |-> {}]
    ELSE LET n == CHOOSE n \in hashg_find(w, id) : TRUE
         IN  [w |-> ChangeKey(w, n, timeout), id |-> [id EXCEPT !.time = timeout], invoked |-> {}]

\* Broken variant: the node is taken off its list and not put on another.
UpdateLosesTimer(w, id, timeout) ==
    IF hashg_find(w, id) = {} THEN [w |-> w, id |-> NoId, invoked |-> {}]
    ELSE LET n == CHOOSE n \in hashg_find(w, id) : TRUE
         IN  [w |-> [hashg_unlink_node(w, n) EXCEPT !.uiNodeCnt = @ - 1],
              id |-> [id EXCEPT !.time = timeout], invoked |-> {}]

timerN_update(w, id, timeout) ==
    IF hashg_find(w, id) = {} THEN [w |-> w, id |-> NoId, invoked |-> {}]
    ELSE LET n   == CHOOSE n \in hashg_find(w, id) : TRUE
             new == [n EXCEPT !.time = timeout]
             off == hashg_unlink_node(w, n)
         IN  IF timeout <= w.uiCurrentTime
             THEN [w |-> [off EXCEPT !.uiNodeCnt = @ - 1], id |-> NoId, invoked |-> {new}]
             ELSE [w |-> IF InReach(w, timeout) THEN hashg_link_node(off, new)
                                                ELSE ChangeKey(w, n, timeout),
                   id |-> IdOf(new), invoked |-> {}]

(***************************************************************************)
(* The loop of timerN_invoke: take the first node of the list of           *)
(* uiCurrentTime and run its callback until the list is empty, then go on  *)
(* to the next second, up to and with the second the call was made in.     *)
(***************************************************************************)
DueList(w) == w.wheel[timerN_timeout_func(w.uiCurrentTime)]

InvokeTake(w) == [hashg_unlink_node(w, Head(DueList(w))) EXCEPT !.uiNodeCnt = @ - 1]

InvokeStep(w) == [w EXCEPT !.uiCurrentTime = @ + 1]

-----------------------------------------------------------------------------
(* What the wheel looks like between two calls.                            *)

\* A node hangs on the list of its time, less than a turn ahead and not passed.
OnItsList(w) ==
    \A b \in Slot : \A n \in On(w, b) :
        /\ b = timerN_timeout_func(n.time)
        /\ w.uiCurrentTime <= n.time /\ n.time < w.uiCurrentTime + N_DAY
        /\ 1 < n.idx /\ n.idx <= w.uiTimerNIdIndex

\* No two nodes have one index, and none hangs on a list twice.
OneEach(w) ==
    /\ \A m, n \in Nodes(w) : m.idx = n.idx => m = n
    /\ \A b \in Slot : \A i, j \in DOMAIN w.wheel[b] : w.wheel[b][i] = w.wheel[b][j] => i = j

Counted(w) ==
    /\ w.uiLinkedCnt = Cardinality(Nodes(w)) /\ w.uiLinkedCnt <= MaxNodeCnt
    /\ w.uiNodeCnt = w.uiLinkedCnt

WheelOK(w) == OnItsList(w) /\ OneEach(w) /\ Counted(w)
=============================================================================
