------------------------------ MODULE TimerApp ------------------------------
(***************************************************************************)
(* A process with a timer wheel: its main loop calls timerN_invoke again   *)
(* and again, and sets, resets and deletes timers in between and from      *)
(* inside the callbacks that timerN_invoke runs.  ids is what the process  *)
(* remembers: the id of each timer that timerN_add or timerN_update last   *)
(* gave it, also when the timer has run since.                             *)
(***************************************************************************)
EXTENDS TimerN

CONSTANTS
    AddAhead, UpdAhead, \* how many seconds ahead of time(0) timers are set
    MaxIdx,             \* bound: the highest index given out
    MaxTime,            \* bound: the clock stops here
    MaxLag              \* seconds the wheel is at most behind the clock

ASSUME AppAssumption ==
    /\ AddAhead \cup UpdAhead \subseteq Nat
    /\ MaxIdx \in Nat \ {0} /\ MaxTime \in Nat /\ MaxLag \in Nat

VARIABLES
    w,       \* the wheel
    now,     \* time(0)
    pc, tt,  \* where the main loop is, and timerN_invoke's tt
    ids,     \* the ids the process keeps
    deleted, \* indices of the timers it has deleted
    fired,   \* the timers whose callback timerN_invoke has run, with their time
    early    \* the same for the callbacks run by timerN_add, with index 0, and timerN_update

vars == <<w, now, pc, tt, ids, deleted, fired, early>>

Index == 2 .. MaxIdx

Init ==
    /\ now = 0 /\ w = timerN_init(now)
    /\ pc = "main" /\ tt = 0
    /\ ids = [i \in Index |-> NoId] /\ deleted = {} /\ fired = {} /\ early = {}

-----------------------------------------------------------------------------
(* Calls of the process, from its main loop or from a callback.            *)

Calling == pc \in {"main", "callback"}

\* A timer that timerN_add runs at once is given no id.
Add(timeout) ==
    LET r == timerN_add(w, NoId, timeout)
    IN  /\ Calling /\ timeout < MaxTime /\ w.uiTimerNIdIndex < MaxIdx
        /\ w' = r.w
        /\ ids' = IF r.id = NoId THEN ids ELSE [ids EXCEPT ![r.id.idx] = r.id]
        /\ early' = early \cup {[idx |-> 0, time |-> n.time] : n \in r.invoked}
        /\ UNCHANGED <<now, pc, tt, deleted, fired>>

Update(i, timeout) ==
    LET r == timerN_update(w, ids[i], timeout)
    IN  /\ Calling /\ timeout < MaxTime /\ ids[i] # NoId
        /\ w' = r.w
        /\ ids' = [ids EXCEPT ![i] = r.id]
        /\ early' = early \cup {IdOf(n) : n \in r.invoked}
        /\ UNCHANGED <<now, pc, tt, deleted, fired>>

Del(i) ==
    /\ Calling /\ ids[i] # NoId
    /\ w' = timerN_del(w, ids[i])
    /\ ids' = [ids EXCEPT ![i] = NoId]
    /\ deleted' = deleted \cup {i}
    /\ UNCHANGED <<now, pc, tt, fired, early>>

Call ==
    \/ \E a \in AddAhead : Add(now + a)
    \/ \E i \in Index : Del(i) \/ \E a \in UpdAhead : Update(i, now + a)

-----------------------------------------------------------------------------
(* timerN_invoke                                                           *)

InvokeStart == pc = "main" /\ pc' = "invoke" /\ tt' = now /\ UNCHANGED <<w, now, ids, deleted, fired, early>>

InvokeRun ==
    /\ pc = "invoke" /\ w.uiCurrentTime <= tt /\ DueList(w) # <<>>
    /\ w' = InvokeTake(w)
    /\ fired' = fired \cup {IdOf(Head(DueList(w)))}
    /\ pc' = "callback"
    /\ UNCHANGED <<now, tt, ids, deleted, early>>

CallbackReturn == pc = "callback" /\ pc' = "invoke" /\ UNCHANGED <<w, now, tt, ids, deleted, fired, early>>

InvokeNextSecond ==
    /\ pc = "invoke" /\ w.uiCurrentTime <= tt /\ DueList(w) = <<>>
    /\ w' = InvokeStep(w)
    /\ UNCHANGED <<now, pc, tt, ids, deleted, fired, early>>

InvokeReturn ==
    /\ pc = "invoke" /\ w.uiCurrentTime > tt
    /\ pc' = "main"
    /\ UNCHANGED <<w, now, tt, ids, deleted, fired, early>>

timerN_invoke == InvokeStart \/ InvokeRun \/ CallbackReturn \/ InvokeNextSecond \/ InvokeReturn

\* The clock.  The main loop is not away from timerN_invoke for ever.
Tick ==
    /\ now < MaxTime /\ now < w.uiCurrentTime + MaxLag
    /\ now' = now + 1
    /\ UNCHANGED <<w, pc, tt, ids, deleted, fired, early>>

Next == Call \/ timerN_invoke \/ Tick

Spec == Init /\ [][Next]_vars

\* The main loop goes on, callbacks return and time passes.
FairSpec == Spec /\ WF_vars(timerN_invoke) /\ WF_vars(Tick)

-----------------------------------------------------------------------------
(* Type invariant.                                                         *)
TypeOK ==
    /\ now \in 0 .. MaxTime /\ tt \in 0 .. MaxTime /\ pc \in {"main", "invoke", "callback"}
    /\ w \in [uiCurrentTime : 0 .. MaxTime + 1, uiTimerNIdIndex : 1 .. MaxIdx,
              uiNodeCnt : Nat, uiLinkedCnt : Nat,
              wheel : [Slot -> Seq([idx : Index, time : 0 .. MaxTime, arg : {NoId}])]]
    /\ ids \in [Index -> [idx : Index, time : 0 .. MaxTime] \cup {NoId}]
    /\ \A i \in Index : ids[i] = NoId \/ ids[i].idx = i
    /\ deleted \subseteq Index
    /\ fired \subseteq [idx : Index, time : 0 .. MaxTime]
    /\ early \subseteq [idx : Index \cup {0}, time : 0 .. MaxTime]

(* Whatever the callbacks set, reset and delete, timers of the list that   *)
(* is being served included, every timer hangs on the list of its own      *)
(* time, less than one turn of the wheel ahead, and is counted once.       *)
WheelExact == WheelOK(w)

Set == INSTANCE TimerSet WITH
    Indices <- Index, Times <- 0 .. MaxTime, clock <- now,
    armed <- {IdOf(n) : n \in Nodes(w)}

(* The wheel implements the timers: each one that is set runs at most      *)
(* once, not before its second and never after a timer that was due later, *)
(* and leaves the wheel only to run or because timerN_del deletes it.      *)
(* Only a timer that timerN_add or timerN_update sets to the second after  *)
(* the last one timerN_invoke has served runs up to that second too soon.  *)
WheelIsTimers == Set!Spec

(* A timer deleted with the id the process got last is not on the wheel    *)
(* any more: its callback will not run.                                    *)
DeletedIsGone == \A n \in Nodes(w) : n.idx \notin deleted

(* Every timer on the wheel has its callback run, or is deleted by the     *)
(* process, in the end.                                                    *)
TimersEnd ==
    \A i \in Index : (\E n \in Nodes(w) : n.idx = i) ~>
        (i \in deleted \/ \E a \in fired \cup early : a.idx = i)
=============================================================================
