----------------------------- MODULE MCIpFrag -----------------------------
EXTENDS IpFrag

CONSTANTS k1, k2, k3

ZeroBody     == IP_FRAG(NoId, 0, FALSE, Null)
OneBucket    == [k \in Keys |-> 0]
\* One datagram one node can hold, two that are too long and alike but for their key.
SomeCuts     == [k \in Keys |-> IF k = k1 THEN <<1, 2, 1>> ELSE <<2, 3>>]
Symmetry     == Permutations(Entries) \cup Permutations({k2, k3})
=============================================================================
