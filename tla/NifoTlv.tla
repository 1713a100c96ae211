------------------------------ MODULE NifoTlv -------------------------------
(***************************************************************************)
(* The contents of a NIFO message (UPST_LIB SRC/NIFO/nifo.c): TLVs laid    *)
(* out in a node and, when it is full, in further nodes hung on its cont   *)
(* list, and the functions that read them.  One process builds a           *)
(* message with nifo_tlv_alloc, by growing a value byte by byte as A_HTTP  *)
(* does, or with nifo_copy_tlv_cont; another process reads it, in order    *)
(* with nifo_read_tlv_cont or by type with nifo_get_value.                 *)
(*                                                                         *)
(* A node is its sequence of bytes after the NIFO header: lastoffset is    *)
(* NIFO_SIZE plus its length, maxoffset is the body size of the zone.  The *)
(* cont list from the head is the sequence nodes: new nodes are always     *)
(* linked behind the last one.  A byte is named by the TLV it belongs to   *)
(* and its place in it, so that a wrong byte is seen to be wrong.          *)
(***************************************************************************)
EXTENDS Integers, Sequences, SequencesExt

CONSTANTS
    NIFO_SIZE, TLV_SIZE, \* sizes of the two headers
    BodySizes,           \* body sizes of zones to try (uiMemNodeBodySize)
    Lens,                \* value lengths to write
    PoolSizes,           \* how many nodes nifo_node_alloc has, to try
    MaxTlv,              \* bound: TLVs of a message
    MaxGrow,             \* bound: length of a grown value
    MaxReads             \* bound: calls of nifo_read_tlv_cont

ASSUME SizeAssumption ==
    /\ {NIFO_SIZE, TLV_SIZE} \subseteq Nat \ {0}
    /\ \A b \in BodySizes : b \in Nat /\ b > NIFO_SIZE
    /\ Lens \subseteq Nat /\ PoolSizes \subseteq Nat \ {0}

VARIABLES
    bodySize, pool, \* the zone
    nodes,          \* the message: its nodes in cont order, head first
    len,            \* the len field of each TLV, in the order written
    how,            \* history: which function wrote each TLV
    failed,         \* nifo_copy_tlv_cont has returned -1 or -2
    nexttlv,        \* the reader's *nexttlv, or NULL, or not yet reading
    got             \* what the calls of nifo_read_tlv_cont have returned

vars == <<bodySize, pool, nodes, len, how, failed, nexttlv, got>>

NULL    == [node |-> 0, off |-> 0]
NotYet  == [node |-> 0, off |-> 1]
Garbage == [node |-> 0, off |-> 2]

HdrByte(k, i) == [part |-> "H", tlv |-> k, at |-> i]
ValByte(k, i) == [part |-> "V", tlv |-> k, at |-> i]
Junk          == [part |-> "?", tlv |-> 0, at |-> 0]

Hdr(k)      == [i \in 1 .. TLV_SIZE |-> HdrByte(k, i)]
Value(k, n) == [i \in 1 .. n |-> ValByte(k, i)]

lastoffset(node) == NIFO_SIZE + Len(node)
nifo_free_len(node) == bodySize - lastoffset(node)

AddTo(ns, bytes) == [ns EXCEPT ![Len(ns)] = @ \o bytes]

Init ==
    /\ bodySize \in BodySizes /\ pool \in PoolSizes
    /\ nodes = <<<<>>>>
    /\ len = <<>> /\ how = <<>>
    /\ failed = FALSE
    /\ nexttlv = NotYet /\ got = <<>>

Building == nexttlv = NotYet /\ ~failed

-----------------------------------------------------------------------------
\* Broken variant: the room for the header is not counted.
TlvAllocNoHeader(n) ==
    /\ Building /\ Len(len) < MaxTlv
    /\ n <= nifo_free_len(nodes[1])
    /\ LET k == Len(len) + 1
       IN  nodes' = [nodes EXCEPT ![1] = @ \o Hdr(k) \o Value(k, n)]
    /\ len' = Append(len, n)
    /\ how' = Append(how, "alloc")
    /\ UNCHANGED <<bodySize, pool, failed, nexttlv, got>>

\* In the head node only, and only if all of it fits.
nifo_tlv_alloc(n) ==
    /\ Building /\ Len(len) < MaxTlv
    /\ TLV_SIZE + n <= nifo_free_len(nodes[1])
    /\ LET k == Len(len) + 1
       IN  nodes' = [nodes EXCEPT ![1] = @ \o Hdr(k) \o Value(k, n)]
    /\ len' = Append(len, n)
    /\ how' = Append(how, "alloc")
    /\ UNCHANGED <<bodySize, pool, failed, nexttlv, got>>

\* A_HTTP: one more byte of the value of the only TLV, in a new node if the
\* last one is full.
GrowValue ==
    /\ Building /\ how = <<"alloc">> /\ len[1] < MaxGrow
    /\ LET full == nifo_free_len(Last(nodes)) = 0
           ns   == IF full THEN Append(nodes, <<>>) ELSE nodes
       IN  /\ full => Len(nodes) < pool
           /\ nodes' = AddTo(ns, <<ValByte(1, len[1] + 1)>>)
    /\ len' = [len EXCEPT ![1] = @ + 1]
    /\ UNCHANGED <<bodySize, pool, how, failed, nexttlv, got>>

-----------------------------------------------------------------------------
(* nifo_copy_tlv_cont: the result is the new nodes and whether every       *)
(* nifo_node_alloc it made succeeded.                                      *)

\* The header, split over two nodes when it has to be.
CopyHeader(k) ==
    LET room == nifo_free_len(Last(nodes))
        part == AddTo(nodes, SubSeq(Hdr(k), 1, room))
    IN  IF TLV_SIZE <= room
        THEN [ns |-> AddTo(nodes, Hdr(k)), ok |-> TRUE]
        ELSE IF Len(nodes) = pool
        THEN [ns |-> part, ok |-> FALSE]
        ELSE [ns |-> Append(part, SubSeq(Hdr(k), room + 1, TLV_SIZE)), ok |-> TRUE]

\* The value, in chunks.  Every chunk is copied from the start of the value.
RECURSIVE CopyValue(_, _, _, _)
CopyValue(ns, k, n, oldLen) ==
    LET copyLen  == n - oldLen
        room     == nifo_free_len(Last(ns))
        copySize == IF copyLen > room THEN room ELSE copyLen
        ns1      == AddTo(ns, Value(k, copySize))
    IN  IF copyLen <= room THEN [ns |-> ns1, ok |-> TRUE]
        ELSE IF Len(ns) = pool THEN [ns |-> ns1, ok |-> FALSE]
        ELSE CopyValue(Append(ns1, <<>>), k, n, oldLen + copySize)

nifo_copy_tlv_cont(n) ==
    /\ Building /\ Len(len) < MaxTlv
    /\ LET k    == Len(len) + 1
           hdr  == CopyHeader(k)
           copy == IF hdr.ok THEN CopyValue(hdr.ns, k, n, 0) ELSE hdr
       IN  nodes' = copy.ns /\ failed' = ~copy.ok
    /\ len' = Append(len, n)
    /\ how' = Append(how, "copy")
    /\ UNCHANGED <<bodySize, pool, nexttlv, got>>

-----------------------------------------------------------------------------
(* nifo_read_tlv_cont *)

ByteAt(i, off) ==
    LET b == off - NIFO_SIZE + 1
    IN  IF b \in DOMAIN nodes[i] THEN nodes[i][b] ELSE Junk

NextNode(i) == IF i = Len(nodes) THEN 1 ELSE i + 1

Bytes(i, off, n) == [j \in 1 .. n |-> ByteAt(i, off + j - 1)]

\* Broken variant: the NIFO header of the next node is not skipped.
RECURSIVE GatherNoSkip(_, _, _)
GatherNoSkip(i, off, n) ==
    IF off + n <= bodySize
    THEN [bytes |-> Bytes(i, off, n), node |-> i, off |-> off + n]
    ELSE LET size == bodySize - off
             rest == GatherNoSkip(NextNode(i), (off + size) % bodySize, n - size)
         IN  [rest EXCEPT !.bytes = Bytes(i, off, size) \o @]

\* Collect n bytes from the given place on, from node to node.
RECURSIVE Gather(_, _, _)
Gather(i, off, n) ==
    IF off + n <= bodySize
    THEN [bytes |-> Bytes(i, off, n), node |-> i, off |-> off + n]
    ELSE LET size == bodySize - off
             rest == Gather(NextNode(i), (off + size + NIFO_SIZE) % bodySize, n - size)
         IN  [rest EXCEPT !.bytes = Bytes(i, off, size) \o @]

\* Broken variant: a full node is taken for the last one.
AfterFullIsLast(i, off) ==
    IF off < lastoffset(nodes[i]) THEN [node |-> i, off |-> off] ELSE NULL

\* Where the next TLV begins after a value that ended at off in node i.
After(i, off) ==
    IF off < lastoffset(nodes[i]) THEN [node |-> i, off |-> off]
    ELSE IF nifo_free_len(nodes[i]) = 0 /\ NextNode(i) # 1
    THEN [node |-> NextNode(i), off |-> NIFO_SIZE]
    ELSE NULL

StartRead ==
    /\ nexttlv = NotYet /\ len # <<>>
    /\ nexttlv' = [node |-> 1, off |-> NIFO_SIZE]
    /\ UNCHANGED <<bodySize, pool, nodes, len, how, failed, got>>

nifo_read_tlv_cont ==
    /\ nexttlv.node # 0 /\ Len(got) < MaxReads
    /\ LET hdr   == Gather(nexttlv.node, nexttlv.off, TLV_SIZE)
           types == {k \in DOMAIN len : hdr.bytes = Hdr(k)}
       IN  IF types = {}
           THEN nexttlv' = Garbage /\ UNCHANGED got
           ELSE LET k     == CHOOSE t \in types : TRUE
                    value == Gather(hdr.node, hdr.off, len[k])
                IN  /\ got' = Append(got, [tlv |-> k, value |-> value.bytes])
                    /\ nexttlv' = After(value.node, value.off)
    /\ UNCHANGED <<bodySize, pool, nodes, len, how, failed>>

-----------------------------------------------------------------------------
(* nifo_get_value and nifo_get_tlv: the place of the TLV of a type, looked *)
(* for in one node, the head.  Garbage stands for all that may come of     *)
(* reading a header that runs past the end of the node.                    *)

\* Broken variant: the loop also runs at lastoffset.
RECURSIVE FindTlvPastLast(_, _)
FindTlvPastLast(type, curoffset) ==
    IF curoffset > lastoffset(nodes[1]) THEN NULL
    ELSE LET types == {k \in DOMAIN len : Bytes(1, curoffset, TLV_SIZE) = Hdr(k)}
         IN  IF types = {} THEN Garbage
             ELSE IF type \in types THEN [node |-> 1, off |-> curoffset]
             ELSE FindTlvPastLast(type, curoffset + TLV_SIZE + len[CHOOSE k \in types : TRUE])

\* The loop of both, from curoffset on.
RECURSIVE FindTlv(_, _)
FindTlv(type, curoffset) ==
    IF curoffset >= lastoffset(nodes[1]) THEN NULL
    ELSE LET types == {k \in DOMAIN len : Bytes(1, curoffset, TLV_SIZE) = Hdr(k)}
         IN  IF types = {} THEN Garbage
             ELSE IF type \in types THEN [node |-> 1, off |-> curoffset]
             ELSE FindTlv(type, curoffset + TLV_SIZE + len[CHOOSE k \in types : TRUE])

nifo_get_tlv(type) == FindTlv(type, NIFO_SIZE)

nifo_get_value(type) ==
    LET tlv == nifo_get_tlv(type)
    IN  IF tlv.node = 0 THEN tlv ELSE [tlv EXCEPT !.off = @ + TLV_SIZE]

-----------------------------------------------------------------------------
Next ==
    \/ \E n \in Lens : nifo_tlv_alloc(n) \/ nifo_copy_tlv_cont(n)
    \/ GrowValue \/ StartRead \/ nifo_read_tlv_cont

Spec == Init /\ [][Next]_vars

-----------------------------------------------------------------------------
Complete == IF failed THEN Len(len) - 1 ELSE Len(len)

(* Type invariant: no function writes past maxoffset of a node, and only   *)
(* the last node of a message has room left.                               *)
TypeOK ==
    /\ bodySize \in BodySizes /\ pool \in PoolSizes
    /\ Len(nodes) \in 1 .. pool
    /\ \A i \in DOMAIN nodes : nifo_free_len(nodes[i]) >= 0
    /\ \A i \in 1 .. Len(nodes) - 1 : nifo_free_len(nodes[i]) = 0
    /\ Len(len) = Len(how) /\ failed \in BOOLEAN
    /\ nexttlv.node \in 0 .. Len(nodes)

(* However the headers and values fall on the node boundaries, successive  *)
(* reads return the TLVs in the order written, each once, none skipped,    *)
(* and *nexttlv is NULL exactly after the last one.  When an allocation    *)
(* failed half way, this holds for the TLVs before the torn one.           *)
EveryTlvInOrder ==
    /\ \A j \in DOMAIN got : j <= Complete => got[j].tlv = j
    /\ ~failed => nexttlv # Garbage
    /\ nexttlv = NULL => Len(got) >= Complete
    /\ ~failed /\ Len(got) = Len(len) /\ got # <<>> => nexttlv = NULL

(* A value written by nifo_tlv_alloc and grown over several nodes is read  *)
(* back byte for byte, whether it is returned in place or gathered into a  *)
(* malloced buffer.                                                        *)
AllocedReadBack ==
    \A j \in DOMAIN got : how[got[j].tlv] = "alloc" /\ got[j].tlv <= Complete =>
        got[j].value = Value(got[j].tlv, len[got[j].tlv])

(* A TLV that lies in the head node is found there by its type, also in    *)
(* front of a torn one, and the pointer nifo_get_value returns is its      *)
(* value, all of it.  In a message built with nifo_tlv_alloc alone,        *)
(* however far its value has grown into other nodes, the loop ends at      *)
(* lastoffset of the head and not in the bytes behind it, and returns NULL *)
(* for a type that is not there.  Nothing is claimed of a type whose TLV   *)
(* is not in the head of a message with a header split over two nodes: the *)
(* loop may read past the head then, and match anything.                   *)
HeadLookup ==
    \A type \in 1 .. MaxTlv + 1 :
        LET tlv    == nifo_get_tlv(type)
            value  == nifo_get_value(type)
            inHead == \E s \in 0 .. Len(nodes[1]) :
                         /\ type \in DOMAIN len
                         /\ Bytes(1, NIFO_SIZE + s, TLV_SIZE + len[type])
                                = Hdr(type) \o Value(type, len[type])
        IN  /\ inHead => /\ tlv.node = 1
                         /\ Bytes(1, tlv.off, TLV_SIZE) = Hdr(type)
                         /\ Bytes(1, value.off, len[type]) = Value(type, len[type])
            /\ "copy" \notin ToSet(how) =>
                   value # Garbage /\ (type \notin DOMAIN len => value = NULL)
=============================================================================
