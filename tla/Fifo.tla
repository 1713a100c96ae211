-------------------------------- MODULE Fifo --------------------------------
(***************************************************************************)
(* What a CIFO channel promises its users: nodes come out in the order     *)
(* they went in, each exactly once, some number of them at a time, and     *)
(* what leaves the channel is what its reader is given.                    *)
(***************************************************************************)
EXTENDS Naturals, Sequences

CONSTANT Items
VARIABLES q,      \* the nodes in the channel, oldest first
          taken   \* the nodes of the last read, until its caller is done

vars == <<q, taken>>

Init == q = <<>> /\ taken = <<>>

Put(n) == q' = Append(q, n) /\ UNCHANGED taken

Get ==
    /\ taken = <<>>
    /\ \E k \in 1 .. Len(q) : taken' = SubSeq(q, 1, k) /\ q' = SubSeq(q, k + 1, Len(q))

Done == taken # <<>> /\ taken' = <<>> /\ UNCHANGED q

Next == (\E n \in Items : Put(n)) \/ Get \/ Done

Spec == Init /\ [][Next]_vars
=============================================================================
