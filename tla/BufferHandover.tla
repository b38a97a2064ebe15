--------------------------- MODULE BufferHandover ---------------------------
(***************************************************************************)
(* How the two buffers of a cache pass between the threads that serve      *)
(* requests and the updater: what DoubleCache offers and what the life     *)
(* cycle of the engine relies on.                                          *)
(*                                                                         *)
(* A worker takes the current buffer and gives it back, whichever it is    *)
(* then.  The updater reloads the idle buffer when nobody holds it, and    *)
(* swaps the two unless the reload failed; after the stop it ends.         *)
(***************************************************************************)
CONSTANT Workers

VARIABLES stopped,   \* the engine was told to stop
          held,      \* held[w]: the buffer w holds, "current" or "idle", or "none"
          upd        \* where the updater is

vars == <<stopped, held, upd>>

Init ==
    /\ stopped = FALSE
    /\ held = [w \in Workers |-> "none"]
    /\ upd = "sleep"

Stop == ~stopped /\ stopped' = TRUE /\ UNCHANGED <<held, upd>>

Take(w) ==
    /\ held[w] = "none"
    /\ held' = [held EXCEPT ![w] = "current"]
    /\ UNCHANGED <<stopped, upd>>

GiveBack(w) ==
    /\ held[w] # "none"
    /\ held' = [held EXCEPT ![w] = "none"]
    /\ UNCHANGED <<stopped, upd>>

\* The updater passes from one place to the next.
Goes(from, to) == upd = from /\ upd' = to /\ UNCHANGED stopped

Wake == Goes("sleep", IF stopped THEN "done" ELSE "poll") /\ UNCHANGED held

Begin == Goes("poll", "update") /\ (\A w \in Workers : held[w] # "idle") /\ UNCHANGED held

End == (Goes("update", "swap") \/ Goes("update", "sleep")) /\ UNCHANGED held

Other(buffer) ==
    IF buffer = "current" THEN "idle" ELSE IF buffer = "idle" THEN "current" ELSE buffer

Swap == Goes("swap", "sleep") /\ held' = [w \in Workers |-> Other(held[w])]

Next ==
    \/ Stop \/ Wake \/ Begin \/ End \/ Swap
    \/ \E w \in Workers : Take(w) \/ GiveBack(w)

Spec == Init /\ [][Next]_vars
==============================================================================
