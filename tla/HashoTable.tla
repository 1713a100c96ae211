----------------------------- MODULE HashoTable -----------------------------
(***************************************************************************)
(* A process that works on a hash table: all sequences of calls of         *)
(* hasho.c, whichever process of a program that is started again and again *)
(* makes them: the segment stays, and the next process attaches to it      *)
(* (memg_init, EEXIST).                                                    *)
(***************************************************************************)
EXTENDS Hasho

CONSTANT Datas
ASSUME DatasAssumption == NoData \notin Datas

VARIABLES t,  \* the segment
          ret \* what the last hasho_add told its caller, and for which key

vars == <<t, ret>>

Init == t = hasho_init /\ ret = <<>>

Add(k, d) == LET r == hasho_add(t, k, d) IN t' = r.t /\ ret' = <<k, r.p # 0>>
Del(k)    == t' = hasho_del(t, k) /\ ret' = <<>>
Reset     == t' = hasho_reset(t) /\ ret' = <<>>

Next ==
    \/ Reset
    \/ \E k \in Keys : Del(k) \/ \E d \in Datas : Add(k, d)

Spec == Init /\ [][Next]_vars

-----------------------------------------------------------------------------
(* Type invariant: the cursor and every offset stay inside the segment.    *)
TypeOK == t \in TableType(Datas) /\ ret \in {<<>>} \cup (Keys \X BOOLEAN)

(* After any sequence of hasho_add, hasho_del and hasho_reset the chains   *)
(* are exact (TableOK): no freed node is left on one, no node is on two,   *)
(* none is lost, and the allocator's count is right.                       *)
ChainsExact == TableOK(t)

Map == INSTANCE KeyMap WITH map <- Contents(t), Capacity <- TotCnt

(* The table is a map: a lookup finds what was last stored under exactly   *)
(* that key, whatever else shares its bucket or its node before, and       *)
(* hasho_add refuses only a key that is there or one more than the         *)
(* HashSize * 5 nodes hold.                                                *)
TableIsMap == Map!Spec
=============================================================================
