----------------------------- MODULE Reassembly -----------------------------
(***************************************************************************)
(* What putting IP datagrams together promises.  held[k] is what has come  *)
(* of datagram k and was not given up: how often each of its fragments.    *)
(* Every fragment starts the wait for the rest again; a datagram is given  *)
(* up, as a whole, only when its wait is over and the process serves its   *)
(* timeouts, and none whose wait is over is left when it is through with   *)
(* them.  A restart keeps what is held and starts every wait again.        *)
(***************************************************************************)
EXTENDS Integers

CONSTANTS Parts,   \* Parts[k]: the number of fragments of datagram k
          Timeout  \* seconds to wait for the next fragment

VARIABLES held,    \* per datagram, how often each fragment is held
          waiting, \* per datagram, how many whole ones wait for an analyzer
          due,     \* per datagram, when it is given up
          clock,   \* time(NULL)
          serving  \* are timeouts being served?

dataVars == <<held, waiting, due, clock, serving>>

Never == -1

Ids        == DOMAIN Parts
None(k)    == [i \in 1 .. Parts[k] |-> 0]
OneEach(k) == [i \in 1 .. Parts[k] |-> 1]
With(k, i) == [held[k] EXCEPT ![i] = @ + 1]
Over(k)    == due[k] # Never /\ due[k] <= clock

Init ==
    /\ held = [k \in Ids |-> None(k)] /\ waiting = [k \in Ids |-> 0]
    /\ due = [k \in Ids |-> Never]
    /\ clock = 0 /\ serving = FALSE

OnlyOf(k) == \A j \in Ids \ {k} : held'[j] = held[j] /\ waiting'[j] = waiting[j] /\ due'[j] = due[j]

\* A fragment is kept while the datagram is not complete.
Keep(k, i) ==
    /\ ~serving /\ held'[k] = With(k, i) /\ held'[k] # OneEach(k)
    /\ due'[k] = clock + Timeout /\ waiting'[k] = waiting[k]

\* The one that completes it ends the wait at once, with the datagram or not.
Complete(k, i) ==
    /\ ~serving /\ held'[k] = None(k) /\ With(k, i) = OneEach(k)
    /\ due'[k] = Never /\ waiting'[k] \in {waiting[k], waiting[k] + 1}

Analyze(k) ==
    /\ waiting[k] > 0 /\ waiting'[k] = waiting[k] - 1
    /\ held'[k] = held[k] /\ due'[k] = due[k]

GiveUp(k) ==
    /\ serving /\ Over(k)
    /\ held'[k] = None(k) /\ due'[k] = Never /\ waiting'[k] = waiting[k]

One ==
    /\ UNCHANGED <<clock, serving>>
    /\ \E k \in Ids : /\ \/ Analyze(k) \/ GiveUp(k)
                         \/ \E i \in 1 .. Parts[k] : Keep(k, i) \/ Complete(k, i)
                      /\ OnlyOf(k)

Serve ==
    /\ serving' = ~serving
    /\ serving => \A k \in Ids : ~Over(k)
    /\ UNCHANGED <<held, waiting, due, clock>>

\* The process is started again, perhaps killed just after it got a first
\* fragment.
Restart ==
    /\ ~serving /\ UNCHANGED <<clock, serving, waiting>>
    /\ \A k \in Ids : due'[k] = IF held'[k] = None(k) THEN Never ELSE clock + Timeout
    /\ \/ UNCHANGED held
       \/ \E k \in Ids : /\ held[k] = None(k) /\ \E i \in 1 .. Parts[k] : held'[k] = With(k, i)
                         /\ \A j \in Ids \ {k} : held'[j] = held[j]

Tick == ~serving /\ clock' = clock + 1 /\ UNCHANGED <<held, waiting, due, serving>>

Next == Serve \/ Tick \/ One \/ Restart

Spec == Init /\ [][Next]_dataVars
=============================================================================
