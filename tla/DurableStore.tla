---------------------------- MODULE DurableStore ----------------------------
(***************************************************************************)
(* What the rest of SnapCon relies on QueueStore for, and what              *)
(* QueueDispatch takes its disk variable to be: a store in memory and one   *)
(* saved copy.  A save replaces the copy whole; a process that dies comes   *)
(* back with the saved copy, and the saved copy never goes back in time.    *)
(* The contents of a store are abstracted to the number of the change that  *)
(* made it.                                                                 *)
(***************************************************************************)
EXTENDS Naturals

CONSTANT Versions   \* the changes that can be made to the store: numbers, 0 among them

VARIABLES
    running,   \* is the process up?
    memory,    \* the store in memory
    saved      \* the store on disk

vars == <<running, memory, saved>>

TypeOK == running \in BOOLEAN /\ memory \in Versions /\ saved \in Versions

Init == running = FALSE /\ memory = 0 /\ saved = 0

(* Memory and disk take a change together, or memory's is saved later. *)
Save(v) == running /\ v >= saved /\ memory' = v /\ saved' = v /\ UNCHANGED running

(* A change that is not saved, because a save failed or is under way. *)
Observe(v) == running /\ v > memory /\ memory' = v /\ UNCHANGED <<running, saved>>

Die   == running /\ running' = FALSE /\ UNCHANGED <<memory, saved>>
Start == ~running /\ running' = TRUE /\ memory' = saved /\ UNCHANGED saved

Next == Die \/ Start \/ \E v \in Versions : Save(v) \/ Observe(v)

Spec == Init /\ [][Next]_vars
=============================================================================
