------------------------------- MODULE IpFrag -------------------------------
(***************************************************************************)
(* The reassembly of IP fragments in PRE_A (UPST_PROJECT/TAF/SRC/PRE_A:    *)
(* prea_frag.c, its main loop and its start).  It composes a hash table in *)
(* shared memory (Hasho), whose entries point to rings of NIFO nodes in    *)
(* another segment (Clisto), with a timer wheel in the memory of the       *)
(* process (TimerN).  Table and nodes survive the process; the timers do   *)
(* not and are built up again.                                             *)
(* A fragment is its datagram and number; off, len and more follow from    *)
(* how the sender has cut the datagram.                                    *)
(***************************************************************************)
EXTENDS Hasho, TimerN, Clisto, SequencesExt

CONSTANTS
    Cut,                 \* Cut[k]: the lengths of the fragments of datagram k
    Room,                \* what one NIFO node can hold
    DEF_IP_FRAG_TIMEOUT, \* seconds
    MaxTime,             \* bound: the clock stops here
    MaxIdx               \* bound: the highest index of a timer

ASSUME FragAssumption ==
    /\ Cut \in [Keys -> Seq(Nat \ {0})] /\ Room \in Nat /\ {MaxTime, MaxIdx} \subseteq Nat
    /\ DEF_IP_FRAG_TIMEOUT \in Nat /\ DEF_IP_FRAG_TIMEOUT < N_DAY - ONE_MINUTE

VARIABLES
    t,       \* pIPFRAGHASH
    w,       \* pIPFRAGTIMER
    m,       \* the NIFO nodes: nont links, who is allocated, what is in them
    sent,    \* nodes handed on, with a whole datagram
    now,     \* time(NULL)
    invoking \* in timerN_invoke

vars == <<t, w, m, sent, now, invoking>>

Frag     == UNION {{[key |-> k, no |-> i] : i \in DOMAIN Cut[k]} : k \in Keys}
Sum(s)   == FoldLeft(LAMBDA a, b : a + b, 0, s)
Offsets  == [k \in Keys |-> [i \in DOMAIN Cut[k] |-> Sum(SubSeq(Cut[k], 1, i - 1))]]
FragLen(f)  == Cut[f.key][f.no]
FragOff(f)  == Offsets[f.key][f.no]
FragMore(f) == f.no < Len(Cut[f.key])

-----------------------------------------------------------------------------
(* NIFO nodes.  Each holds one captured packet, or one put together.       *)

nifo_node_delete(n, head) ==
    LET ring == Range(clist_for_each(n.nont, head))
    IN  [n EXCEPT !.broken = @ \/ ~(ring \subseteq n.alloced), !.alloced = @ \ ring,
                  !.nont = [next |-> [e \in Entries |-> IF e \in ring THEN e ELSE @.next[e]],
                            prev |-> [e \in Entries |-> IF e \in ring THEN e ELSE @.prev[e]]],
                  !.body = [e \in Entries |-> IF e \in ring THEN <<>> ELSE @[e]]]

Filled(n, e, s) == [n EXCEPT !.alloced = @ \cup {e}, !.body[e] = s,
                             !.nont = CINIT_LIST_HEAD(@, e)]

\* The first cnt nodes from e on, forward, and backward behind e.
Forth(n, e, cnt) == LET v[i \in 1 .. cnt] == IF i = 1 THEN e ELSE n.nont.next[v[i - 1]] IN v
Back(n, e, cnt)  == LET v[i \in 1 .. cnt] == IF i = 1 THEN n.nont.prev[e] ELSE n.nont.prev[v[i - 1]] IN v

Off(n, e) == FragOff(Head(n.body[e]))

-----------------------------------------------------------------------------
(* prea_frag.c                                                             *)

\* From the last node back: behind the first with a smaller offset.
ip_frag_sort(n, head, cnt, e) ==
    LET v    == Back(n, head, cnt)
        hits == {i \in DOMAIN v : Off(n, e) > Off(n, v[i])}
    IN  IF hits = {} THEN [m |-> [n EXCEPT !.nont = clist_add_tail(@, e, head)], head |-> e]
        ELSE [m |-> [n EXCEPT !.nont = clist_add_head(@, e, v[Min(hits)])], head |-> head]

\* Broken variant: the first fragment may be missing.
CheckNoStart(n, head, cnt) ==
    LET v == Forth(n, head, cnt)
    IN  \A i \in 2 .. cnt : Off(n, v[i]) =
            Off(n, head) + Sum([j \in 1 .. i - 1 |-> FragLen(Head(n.body[v[j]]))])

ip_frag_check_finish(n, head, cnt) ==
    LET v == Forth(n, head, cnt)
    IN  /\ Off(n, head) = 0
        /\ \A i \in 2 .. cnt : Off(n, v[i]) = Sum([j \in 1 .. i - 1 |-> FragLen(Head(n.body[v[j]]))])

\* What pRST holds, or nothing when it does not fit.
ip_frag_merge(n, head, cnt) ==
    LET v == Forth(n, head, cnt)
        s == [i \in 1 .. cnt |-> Head(n.body[v[i]])]
    IN  IF Sum([i \in 1 .. cnt |-> FragLen(s[i])]) > Room THEN <<>> ELSE s

IP_FRAG(id, cnt, finish, node) ==
    [timerNID |-> id, cnt |-> cnt, finish |-> finish, offset_NODE |-> node]

Put(tab, p, d) == [tab EXCEPT !.data[p] = d]

\* When a call is over, nobody looks any more at what a freed entry holds.
Forget(tab) ==
    [tab EXCEPT !.key  = [p \in HNode |-> IF p \in tab.alloced THEN @[p] ELSE NoKey],
                !.data = [p \in HNode |-> IF p \in tab.alloced THEN @[p] ELSE NoData],
                !.next = [p \in HNode |-> IF p \in tab.alloced THEN @[p] ELSE 0],
                !.prev = [p \in HNode |-> IF p \in tab.alloced THEN @[p] ELSE 0]]

\* Lines 205-238 and the first half of the new entry: everything but its timer.
Enter(f, e) ==
    hasho_add(t, f.key, IP_FRAG(NoId, 1, ~FragMore(f), e))

\* A fragment of a datagram that has no entry yet.
New(f, e) ==
    LET r == Enter(f, e)
        a == timerN_add(w, f.key, now + DEF_IP_FRAG_TIMEOUT)
    IN  [t |-> Put(r.t, r.p, [r.t.data[r.p] EXCEPT !.timerNID = a.id]),
         w |-> a.w, m |-> Filled(m, e, <<f>>), p |-> r.p]

\* A further fragment.
Have(f, e) ==
    LET p == hasho_find(t, f.key)
        d == t.data[p]
        s == ip_frag_sort(Filled(m, e, <<f>>), d.offset_NODE, d.cnt, e)
        u == timerN_update(w, d.timerNID, now + DEF_IP_FRAG_TIMEOUT)
    IN  [t |-> Put(t, p, IP_FRAG(u.id, d.cnt + 1, d.finish \/ ~FragMore(f), s.head)),
         w |-> u.w, m |-> s.m, p |-> p]

\* The segments after line 260.
Stored260(f, e) == IF hasho_find(t, f.key) = 0 THEN New(f, e) ELSE Have(f, e)

Finished(s) ==
    LET d == s.t.data[s.p]
    IN  d.finish /\ d.cnt > 1 /\ ip_frag_check_finish(s.m, d.offset_NODE, d.cnt)

\* What pRST may be: a node nifo_node_alloc gives, or NULL.
Results(s) ==
    LET d == s.t.data[s.p]
    IN  IF s.m.alloced = Entries \/ ip_frag_merge(s.m, d.offset_NODE, d.cnt) = <<>> THEN {Null}
        ELSE Entries \ s.m.alloced

\* Lines 270-291.  The id of the timer is read from the entry after
\* hasho_del has freed it.
Finish(s, k, pRST) ==
    LET d  == s.t.data[s.p]
        m1 == IF pRST = Null THEN s.m
              ELSE Filled(s.m, pRST, ip_frag_merge(s.m, d.offset_NODE, d.cnt))
        t1 == hasho_del(s.t, k)
    IN  [t |-> Forget(t1), w |-> timerN_del(s.w, t1.data[s.p].timerNID),
         m |-> nifo_node_delete(m1, d.offset_NODE)]

\* Broken variant: the nodes of the entry stay.
TimeoutKeepsNodes(k) == [t |-> Forget(hasho_del(t, k)), m |-> m]

invoke_del_ipfrag(k) ==
    LET p == hasho_find(t, k)
    IN  IF p = 0 THEN [t |-> t, m |-> m]
        ELSE [t |-> Forget(hasho_del(t, k)), m |-> nifo_node_delete(m, t.data[p].offset_NODE)]

-----------------------------------------------------------------------------
(* The main loop: timerN_invoke, then the packets of one batch.  The clock *)
(* only goes forward and a timer is set at least two seconds ahead, so     *)
(* that neither timerN_add nor timerN_update runs a callback at once; and  *)
(* as the callback reads no clock, now stands still inside timerN_invoke.  *)

Init ==
    /\ now = 0 /\ t = hasho_init /\ w = timerN_init(now)
    /\ m = [nont |-> SelfLinks, alloced |-> {}, body |-> [e \in Entries |-> <<>>], broken |-> FALSE]
    /\ sent = {} /\ invoking = FALSE

InvokeStart ==
    /\ ~invoking /\ w.uiCurrentTime <= now /\ invoking' = TRUE
    /\ UNCHANGED <<t, w, m, sent, now>>

InvokeRun ==
    /\ invoking /\ w.uiCurrentTime <= now /\ DueList(w) # <<>>
    /\ w' = InvokeTake(w)
    /\ LET r == invoke_del_ipfrag(Head(DueList(w)).arg) IN t' = r.t /\ m' = r.m
    /\ UNCHANGED <<sent, now, invoking>>

InvokeNextSecond ==
    /\ invoking /\ w.uiCurrentTime <= now /\ DueList(w) = <<>>
    /\ w' = InvokeStep(w) /\ invoking' = (w.uiCurrentTime < now)
    /\ UNCHANGED <<t, m, sent, now>>

timerN_invoke == InvokeStart \/ InvokeRun \/ InvokeNextSecond

\* The next packet of the batch is fragment f, in node e of the capturing process.
Arrives(f, e) == ~invoking /\ e \notin m.alloced /\ now + DEF_IP_FRAG_TIMEOUT < MaxTime

\* hasho_add has no node left.  The packet is dropped.
FragRefused(f, e) ==
    /\ Arrives(f, e) /\ hasho_find(t, f.key) = 0 /\ Enter(f, e).p = 0
    /\ t' = Enter(f, e).t
    /\ m' = nifo_node_delete(Filled(m, e, <<f>>), e)
    /\ UNCHANGED <<w, sent, now, invoking>>

Accepted(f, e) ==
    /\ Arrives(f, e)
    /\ hasho_find(t, f.key) = 0 => Enter(f, e).p # 0 /\ w.uiTimerNIdIndex < MaxIdx

FragWaits(f, e) ==
    LET s == Stored260(f, e)
    IN  /\ Accepted(f, e) /\ ~Finished(s)
        /\ t' = s.t /\ w' = s.w /\ m' = s.m
        /\ UNCHANGED <<sent, now, invoking>>

FragCompletes(f, e) ==
    LET s == Stored260(f, e)
    IN  /\ Accepted(f, e) /\ Finished(s)
        /\ \E pRST \in Results(s) :
              LET r == Finish(s, f.key, pRST)
              IN  t' = r.t /\ w' = r.w /\ m' = r.m /\ sent' = sent \cup ({pRST} \ {Null})
        /\ UNCHANGED <<now, invoking>>

ip_frag(f, e) == FragRefused(f, e) \/ FragWaits(f, e) \/ FragCompletes(f, e)

\* No timer is due and gifo_read has nothing: once more round the loop.
NothingToDo == ~invoking /\ w.uiCurrentTime > now /\ UNCHANGED vars

-----------------------------------------------------------------------------
(* The surroundings, and the start.                                        *)

\* The analyzer is done with a datagram.
Analyze(e) ==
    /\ e \in sent
    /\ sent' = sent \ {e} /\ m' = nifo_node_delete(m, e)
    /\ UNCHANGED <<t, w, now, invoking>>

Tick ==
    /\ ~invoking /\ now < MaxTime /\ now <= w.uiCurrentTime
    /\ now' = now + 1
    /\ UNCHANGED <<t, w, m, sent, invoking>>

\* Every node of every chain gets a timer, and its id goes into the entry.
vIPFRAGTimerReConstruct(tab) ==
    LET all == FoldLeft(LAMBDA s, b : s \o Chain(tab, b), <<>>, [i \in 1 .. HashSize |-> i - 1])
    IN  FoldLeft(LAMBDA s, p :
            IF p \notin s.t.alloced THEN s
            ELSE LET a == timerN_add(s.w, s.t.key[p], now + DEF_IP_FRAG_TIMEOUT)
                 IN  [t |-> Put(s.t, p, [s.t.data[p] EXCEPT !.timerNID = a.id]), w |-> a.w],
            [t |-> tab, w |-> timerN_init(now)], all)

\* Broken variant: the process starts with an empty table.
StartAfresh(tab) == t' = hasho_init /\ w' = timerN_init(now)

Start(tab) ==
    LET r == vIPFRAGTimerReConstruct(tab)
    IN  t' = r.t /\ w' = r.w

\* A stop signal ends the loop; the process is started again.
Restart ==
    /\ ~invoking /\ now + DEF_IP_FRAG_TIMEOUT < MaxTime
    /\ Start(t) /\ UNCHANGED <<m, sent, now, invoking>>

\* Killed when a new entry is in the table and its timer is not set yet.
KilledBeforeTimer(f, e) ==
    LET r == Enter(f, e)
    IN  /\ Arrives(f, e) /\ hasho_find(t, f.key) = 0 /\ r.p # 0
        /\ Start(r.t) /\ m' = Filled(m, e, <<f>>)
        /\ UNCHANGED <<sent, now, invoking>>

Next ==
    \/ timerN_invoke \/ NothingToDo \/ Tick \/ Restart
    \/ \E e \in Entries : Analyze(e) \/ \E f \in Frag : ip_frag(f, e) \/ KilledBeforeTimer(f, e)

Spec == Init /\ [][Next]_vars

-----------------------------------------------------------------------------
Entry(k) == t.data[hasho_find(t, k)]
Ring(k)  == clist_for_each(m.nont, Entry(k).offset_NODE)

(* Type invariant.                                                         *)
TypeOK ==
    /\ t \in TableType([timerNID : [idx : 0 .. MaxIdx, time : 0 .. MaxTime], cnt : Nat \ {0},
                        finish : BOOLEAN, offset_NODE : Entries])
    /\ m.nont \in Links /\ m.alloced \subseteq Entries /\ m.body \in [Entries -> Seq(Frag)]
    /\ w.uiNodeCnt \in Nat /\ w.uiLinkedCnt \in Nat
    /\ sent \subseteq m.alloced /\ now \in 0 .. MaxTime /\ invoking \in BOOLEAN

(* Table and wheel agree, through completion, timeout and restart: every   *)
(* entry has one timer, the one whose id it keeps, and no timer is left    *)
(* behind by an entry that is gone, to strike a later one of the same key. *)
TimersMatch ==
    /\ TableOK(t) /\ WheelOK(w)
    /\ \A k \in Stored(t) : \E n \in Nodes(w) : n.arg = k /\ IdOf(n) = Entry(k).timerNID
    /\ \A n \in Nodes(w) : n.arg \in Stored(t) /\ IdOf(n) = Entry(n.arg).timerNID

(* Every NIFO node in use is in the ring of one entry, and that ring has   *)
(* as many nodes as the entry says, each with a fragment of its datagram,  *)
(* or has been handed on: none is lost, none is in two places, none is     *)
(* freed twice.                                                            *)
NodesAccounted ==
    /\ ~m.broken
    /\ \A k \in Stored(t) : Len(Ring(k)) = Entry(k).cnt /\ Range(Ring(k)) \cap sent = {}
    /\ \A k \in Stored(t) : \A e \in Range(Ring(k)) : \E i \in DOMAIN Cut[k] : m.body[e] = <<[key |-> k, no |-> i]>>
    /\ \A j, k \in Stored(t) : j # k => Range(Ring(j)) \cap Range(Ring(k)) = {}
    /\ m.alloced = sent \cup UNION {Range(Ring(k)) : k \in Stored(t)}

(* What is handed on is a whole datagram: each of its fragments once, in   *)
(* the order of their offsets, in whatever order they came.                *)
DeliveredWhole ==
    \A e \in sent : LET k == Head(m.body[e]).key
                    IN  m.body[e] = [i \in DOMAIN Cut[k] |-> [key |-> k, no |-> i]]

\* How often each fragment of datagram k is held: nothing without an entry in
\* the table; with one, the nodes not handed on that hold it, which are those
\* of the entry's ring by NodesAccounted.
Held(k) ==
    LET its(i) == {e \in m.alloced \ sent : m.body[e] = <<[key |-> k, no |-> i]>>}
    IN  [i \in DOMAIN Cut[k] |-> IF \E p \in t.alloced : t.key[p] = k THEN Cardinality(its(i)) ELSE 0]

\* When the timer of datagram k strikes; -1 while it has none.
Due(k) ==
    LET its == {n.time : n \in {x \in Nodes(w) : x.arg = k}}
    IN  IF its = {} THEN -1 ELSE Min(its)

Datagrams == INSTANCE Reassembly WITH
    Parts <- [k \in Keys |-> Len(Cut[k])], Timeout <- DEF_IP_FRAG_TIMEOUT,
    held <- [k \in Keys |-> Held(k)],
    waiting <- [k \in Keys |-> Cardinality({e \in sent : Head(m.body[e]).key = k})],
    due <- [k \in Keys |-> Due(k)], clock <- now, serving <- invoking

(* Entries, rings and timers together put datagrams together.  A fragment  *)
(* that came is found from the entry of its datagram until that is         *)
(* complete or given up whole; the fragment that completes a datagram      *)
(* always ends the wait; only timerN_invoke gives one up, and only when    *)
(* DEF_IP_FRAG_TIMEOUT has passed since its last fragment or the last      *)
(* start, and then without fail; a restart loses none and leaves none      *)
(* without a timer, also when it is killed before line 236 set the first.  *)
IsReassembly == Datagrams!Spec

=============================================================================
