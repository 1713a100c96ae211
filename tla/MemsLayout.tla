----------------------------- MODULE MemsLayout -----------------------------
(***************************************************************************)
(* Where mems_init (UPST_LIB SRC/NIFO/mems.c) puts the zones and nodes of  *)
(* the shared memory, and how the code finds a node again: from a pointer  *)
(* into it (nifo_get_offset_node), and by walking a zone                   *)
(* (mems_alloced_cnt).  Addresses are offsets in the segment.  A pointer   *)
(* runs over the whole of a segment laid out for some configuration.       *)
(***************************************************************************)
EXTENDS Integers, Sequences

CONSTANTS
    InfoSize, HdrSize, \* stMEMSINFO_SIZE and stMEMSNODEHDR_SIZE
    HeadRoomSizes,     \* values of uiHeadRoomSize to try
    BodySizes,         \* values of uiMemNodeBodySize to try
    NodeCnts,          \* values of uiMemNodeTotCnt to try
    MaxZones           \* bound: how many zones to try

ASSUME LayoutAssumption ==
    /\ {InfoSize, HdrSize, MaxZones} \subseteq Nat \ {0}
    /\ HeadRoomSizes \subseteq Nat /\ BodySizes \subseteq Nat /\ NodeCnts \subseteq Nat \ {0}

VARIABLES headRoomSize, zones, ptr

vars == <<headRoomSize, zones, ptr>>

Stride(z) == HdrSize + z.body

\* The running total of lines 254-260, after each zone.
MemSizes ==
    LET sum[k \in 0 .. Len(zones)] ==
            IF k = 0 THEN InfoSize + headRoomSize
                     ELSE sum[k - 1] + Stride(zones[k]) * zones[k].cnt
    IN  sum

uiTotMemSize == MemSizes[Len(zones)]

\* The local offsetNodeStart of lines 325-348, after each zone.
Ends ==
    LET end[k \in 0 .. Len(zones)] ==
            IF k = 0 THEN InfoSize + headRoomSize
                     ELSE end[k - 1] + Stride(zones[k]) * zones[k].cnt
    IN  end

offsetNodeStart(i) == Ends[i - 1]

offsetNodeEnd(i) == offsetNodeStart(i) + Stride(zones[i]) * zones[i].cnt

\* Broken variant: the header is left out of the size of a node.
OffsetNodeBodyOnly(p) ==
    LET in == {i \in DOMAIN zones : offsetNodeStart(i) <= p /\ offsetNodeEnd(i) > p}
    IN  IF in = {} THEN 0
        ELSE LET i    == CHOOSE j \in in : \A k \in in : j <= k
                 base == p - offsetNodeStart(i)
             IN  offsetNodeStart(i) + Stride(zones[i]) * (base \div zones[i].body) + HdrSize

\* The offset of the body of the node p points into, 0 if it is in no zone.
nifo_get_offset_node(p) ==
    LET in == {i \in DOMAIN zones : offsetNodeStart(i) <= p /\ offsetNodeEnd(i) > p}
    IN  IF in = {} THEN 0
        ELSE LET i    == CHOOSE j \in in : \A k \in in : j <= k
                 base == p - offsetNodeStart(i)
             IN  offsetNodeStart(i) + Stride(zones[i]) * (base \div Stride(zones[i])) + HdrSize

\* The addresses taken for node headers in a walk of zone i from base.
Walk(base, i) == {base + n * Stride(zones[i]) : n \in 0 .. zones[i].cnt - 1}

\* mems_init and mems_alloced_cnt start at the zone.
WalkZone(i) == Walk(offsetNodeStart(i), i)

Init ==
    /\ headRoomSize \in HeadRoomSizes
    /\ zones \in UNION {[1 .. n -> [body : BodySizes, cnt : NodeCnts]] : n \in 1 .. MaxZones}
    /\ ptr = 0

Next ==
    /\ ptr < uiTotMemSize - 1
    /\ ptr' = ptr + 1
    /\ UNCHANGED <<headRoomSize, zones>>

Spec == Init /\ [][Next]_vars

-----------------------------------------------------------------------------
(* The bytes of each node: header and body.                                *)
NodeBytes(h, i) == h .. h + Stride(zones[i]) - 1

(* Every byte of the node area belongs to exactly one node of one zone,    *)
(* the area ends where the size that was allocated ends, and               *)
(* nifo_get_offset_node finds that node from any of its bytes.             *)
OffsetFindsNode ==
    LET owners == {o \in UNION {{i} \X WalkZone(i) : i \in DOMAIN zones} :
                      ptr \in NodeBytes(o[2], o[1])}
    IN  IF ptr < InfoSize + headRoomSize
        THEN owners = {} /\ nifo_get_offset_node(ptr) = 0
        ELSE \E o \in owners : owners = {o} /\ nifo_get_offset_node(ptr) = o[2] + HdrSize
=============================================================================
