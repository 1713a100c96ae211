------------------------------ MODULE TimerSet ------------------------------
(***************************************************************************)
(* What the timers promise: each one that is set runs once, when its time  *)
(* has come and in the order of the times, unless it is deleted before;    *)
(* none is dropped.  A timer set, anew or again, to a second that counts   *)
(* as over runs at once, up to a second too soon: a second counts as over  *)
(* as soon as timerN_invoke has served it.  One that runs at once when it  *)
(* is set anew never gets an index.                                        *)
(***************************************************************************)
EXTENDS Integers

CONSTANTS Indices, Times
VARIABLES armed,   \* the timers that are set: their index and time
          fired,   \* the timers that have run, with the time they were set for
          early,   \* the same for those that were run at once when set
          deleted, \* the indices of the timers that were deleted
          clock    \* time(0)

setVars == <<armed, fired, early, deleted, clock>>

Timers == [idx : Indices, time : Times]
Used   == {a.idx : a \in armed \cup fired \cup early} \cup deleted

Init == armed = {} /\ fired = {} /\ early = {} /\ deleted = {} /\ clock \in Times

Tick == clock' \in Times /\ clock' > clock /\ UNCHANGED <<armed, fired, early, deleted>>

Arm(a) == a.idx \notin Used /\ armed' = armed \cup {a} /\ UNCHANGED <<fired, early, deleted, clock>>

\* A timer that has run may also be deleted.
Cancel(i) ==
    /\ i \notin deleted /\ deleted' = deleted \cup {i}
    /\ armed' = {a \in armed : a.idx # i}
    /\ UNCHANGED <<fired, early, clock>>

Rearm(a, b) ==
    /\ a.idx = b.idx
    /\ armed' = (armed \ {a}) \cup {b}
    /\ UNCHANGED <<fired, early, deleted, clock>>

RunNew(time) ==
    /\ time <= clock + 1
    /\ early' = early \cup {[idx |-> 0, time |-> time]}
    /\ UNCHANGED <<armed, fired, deleted, clock>>

RunAtOnce(a, b) ==
    /\ a.idx = b.idx /\ b.time <= clock + 1
    /\ armed' = armed \ {a} /\ early' = early \cup {b}
    /\ UNCHANGED <<fired, deleted, clock>>

Run(a) ==
    /\ a.time <= clock /\ \A b \in armed : a.time <= b.time
    /\ armed' = armed \ {a} /\ fired' = fired \cup {a}
    /\ UNCHANGED <<early, deleted, clock>>

Next ==
    \/ Tick
    \/ \E a \in Timers : Arm(a)
    \/ \E i \in Indices : Cancel(i)
    \/ \E time \in Times : RunNew(time)
    \/ \E a \in armed : Run(a) \/ \E b \in Timers : Rearm(a, b) \/ RunAtOnce(a, b)

Spec == Init /\ [][Next]_setVars
=============================================================================
