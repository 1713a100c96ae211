----------------------------- MODULE CifoQueue ------------------------------
(***************************************************************************)
(* What the cells of a CIFO channel promise: a bounded first-in first-out  *)
(* queue of offsets.  The reader looks at the oldest offset (Peek), joins  *)
(* its list, and only then removes it (Drop); a reader that dies between   *)
(* the two forgets what it looked at and removes nothing.                  *)
(***************************************************************************)
EXTENDS Naturals, Sequences

CONSTANTS Offsets, \* what may be queued
          None,    \* the reader is not looking at anything
          Cap      \* how many offsets fit

VARIABLES queue, front

Init == queue = <<>> /\ front = None

Put(o) == /\ Len(queue) < Cap
          /\ queue' = Append(queue, o)
          /\ UNCHANGED front

Peek == /\ queue # <<>> /\ front = None
        /\ front' = Head(queue)
        /\ UNCHANGED queue

Drop == /\ queue # <<>> /\ front = Head(queue)
        /\ queue' = Tail(queue)
        /\ front' = None

Forget == front' = None /\ UNCHANGED queue

Next == (\E o \in Offsets : Put(o)) \/ Peek \/ Drop \/ Forget

Spec == Init /\ [][Next]_<<queue, front>>
=============================================================================
