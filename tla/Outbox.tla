------------------------------- MODULE Outbox -------------------------------
(***************************************************************************)
(* What a queue between the worker threads and one consumer thread of the  *)
(* bidding engine promises: the messages of a topic reach their receiver   *)
(* in the order in which they were added, none twice, and none is given up *)
(* before the engine is told to stop.                                      *)
(***************************************************************************)
EXTENDS Naturals, Sequences

CONSTANT Topics

VARIABLES stopped,   \* the engine was told to stop
          added,     \* added[t]: how many messages were added to t
          settled,   \* settled[t]: how many of them are delivered or given up
          accepted   \* accepted[t]: the messages the receiver has, in its order

vars == <<stopped, added, settled, accepted>>

Init ==
    /\ stopped = FALSE
    /\ added = [t \in Topics |-> 0]
    /\ settled = [t \in Topics |-> 0]
    /\ accepted = [t \in Topics |-> <<>>]

Stop == ~stopped /\ stopped' = TRUE /\ UNCHANGED <<added, settled, accepted>>

Add(t) == added' = [added EXCEPT ![t] = @ + 1] /\ UNCHANGED <<stopped, settled, accepted>>

\* The oldest messages are settled; they may be given up only after the stop.
Settle(t) ==
    \E n \in 1..(added[t] - settled[t]) :
        /\ settled' = [settled EXCEPT ![t] = @ + n]
        /\ \/ accepted' = [accepted EXCEPT ![t] = @ \o [i \in 1..n |-> settled[t] + i]]
           \/ stopped /\ UNCHANGED accepted
        /\ UNCHANGED <<stopped, added>>

Next == Stop \/ \E t \in Topics : Add(t) \/ Settle(t)

Spec == Init /\ [][Next]_vars
==============================================================================
