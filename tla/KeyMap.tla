------------------------------- MODULE KeyMap -------------------------------
(***************************************************************************)
(* What a hash table promises: a map from keys to data that holds at most  *)
(* Capacity keys.  ret is what the last Add told its caller.               *)
(***************************************************************************)
EXTENDS Naturals, FiniteSets, Functions

CONSTANTS Keys, Datas, Capacity
VARIABLES map, ret

Init == map = [k \in {} |-> k] /\ ret = <<>>

\* A key that is there, or that there is no room for, is refused.
Add(k, d) ==
    LET fits == k \notin DOMAIN map /\ Cardinality(DOMAIN map) < Capacity
    IN  /\ ret' = <<k, fits>>
        /\ map' = IF fits THEN [j \in DOMAIN map \cup {k} |-> IF j = k THEN d ELSE map[j]]
                  ELSE map

Del(k) == map' = Restrict(map, DOMAIN map \ {k}) /\ ret' = <<>>

Reset == map' = [k \in {} |-> k] /\ ret' = <<>>

Next ==
    \/ Reset
    \/ \E k \in Keys : Del(k) \/ \E d \in Datas : Add(k, d)

Spec == Init /\ [][Next]_<<map, ret>>
=============================================================================
