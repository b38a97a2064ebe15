---------------------------- MODULE SnapshotStore ----------------------------
(***************************************************************************)
(* What the double buffer of the bidding engine promises to the threads    *)
(* that serve requests, with no word of semaphores or of two buffers.      *)
(*                                                                         *)
(* There is one published snapshot of the advertisement data.  A worker    *)
(* takes it at one instant and keeps looking at that very snapshot until   *)
(* it gives it back, whatever is published meanwhile.  Publications only   *)
(* go forward, and after the first one only complete loads are published.  *)
(***************************************************************************)
EXTENDS Naturals

CONSTANTS Workers,     \* the threads that take snapshots
          NoSnapshot   \* what a worker that holds nothing looks at

VARIABLES published,   \* the snapshot a worker gets now
          view         \* view[w]: the snapshot worker w is looking at

vars == <<published, view>>

\* A load of the data is known by its serial number, and by how it ended.
Snapshot == [load : Nat, status : {"whole", "failed"}]

Init ==
    /\ \E s \in {"whole", "failed"} : published = [load |-> 1, status |-> s]
    /\ view = [w \in Workers |-> NoSnapshot]

Take(w) ==
    /\ view[w] = NoSnapshot
    /\ view' = [view EXCEPT ![w] = published]
    /\ UNCHANGED published

GiveBack(w) ==
    /\ view[w] # NoSnapshot
    /\ view' = [view EXCEPT ![w] = NoSnapshot]
    /\ UNCHANGED published

Publish ==
    /\ published' \in Snapshot
    /\ published'.load > published.load
    /\ published'.status = "whole"
    /\ UNCHANGED view

Next ==
    \/ \E w \in Workers : Take(w) \/ GiveBack(w)
    \/ Publish

Spec == Init /\ [][Next]_vars
==============================================================================
