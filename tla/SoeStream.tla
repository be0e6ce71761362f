----------------------------- MODULE SoeStream -----------------------------
(***************************************************************************)
(* What the SOE ring promises its readers, without ring, slots or cursors:  *)
(* every link that is connected gets the reports raised after its           *)
(* connection in the order they were raised, each at most once, and a       *)
(* report is passed over only in whole laps of the ring.                    *)
(***************************************************************************)
EXTENDS Integers

CONSTANTS
    RING,     \* capacity of the ring
    Links

VARIABLES
    raised,   \* number of reports raised so far
    live,     \* links that are connected
    next      \* per link: the first report it has not been sent

vars == <<raised, live, next>>

Init ==
    /\ raised = 0
    /\ live = {}
    /\ next = [l \in Links |-> 0]

Raise ==
    /\ raised' = raised + 1
    /\ UNCHANGED <<live, next>>

Attach(l) ==
    /\ l \notin live
    /\ live' = live \cup {l}
    /\ next' = [next EXCEPT ![l] = raised]
    /\ UNCHANGED raised

Detach(l) ==
    /\ l \in live
    /\ live' = live \ {l}
    /\ UNCHANGED <<raised, next>>

\* The link is sent a report; the ones skipped fill the ring a whole number
\* of times, so a link that is less than RING reports behind skips none.
Deliver(l) ==
    /\ l \in live
    /\ \E e \in next[l]..(raised - 1) :
           /\ (e - next[l]) % RING = 0
           /\ raised - e <= RING
           /\ next' = [next EXCEPT ![l] = e + 1]
    /\ UNCHANGED <<raised, live>>

Next == Raise \/ \E l \in Links : Attach(l) \/ Detach(l) \/ Deliver(l)

Spec == Init /\ [][Next]_vars
=============================================================================
