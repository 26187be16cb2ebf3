-------------------------- MODULE MCQueueDispatch --------------------------
(***************************************************************************)
(* Instances of QueueDispatch.  Everything at once is out of TLC's reach,   *)
(* so each run takes the steps one question is about: the steps left out    *)
(* are those of another run, and every step of Next is in one of them.      *)
(***************************************************************************)
EXTENDS QueueDispatch

MCPrinters  == {1}
MCTwo       == {1, 2}
MCSlots     == 1..2
MCOneSlot   == {1}
MCConnector == [p \in Printers |-> "moonraker"]

(* Every save succeeds. *)
Saved == ~storeDegraded'

(* A server that stays up: dispatches overlap with each other, with the     *)
(* tick, with clears and resolutions, and with what happens at the machine. *)
LiveNext ==
    /\ \E p \in Printers :
         \/ \E s \in Slots : Dispatch(p, s)
         \/ PrinterStep(p) \/ Tick(p) \/ addItems(p)
         \/ ClearRoute(p) \/ ResolveRoute(p)
    /\ Saved

LiveSpec == Init /\ [][LiveNext]_vars

(* Machines that neither pause nor report errors of their own. *)
SimpleMachines == \A p \in Printers : printer'[p].state \notin {"paused", "error"}

(* Crashes, failing saves and the reconciliation after a restart. *)
RestartNext ==
    /\ \/ \E p \in Printers :
            \/ \E s \in Slots : Dispatch(p, s)
            \/ PrinterStep(p) \/ Tick(p) \/ Startup(p) \/ addItems(p)
            \/ confirmBedClear(p) \/ acceptChangedFile(p)
            \/ \E action \in Resolutions : resolve(p, action)
       \/ retrySave \/ Restart
    /\ SimpleMachines

RestartSpec == Init /\ [][RestartNext]_vars

(* Stop and resume, with requests that overlap. *)
ResumeNext ==
    /\ \E p \in Printers :
         \/ \E s \in Slots : Dispatch(p, s)
         \/ PrinterStep(p) \/ Tick(p)
         \/ addItems(p) \/ StopRoute(p)
         \/ confirmBedClear(p) \/ \E action \in Resolutions : resolve(p, action)
    /\ Saved
    /\ SimpleMachines

ResumeSpec == Init /\ [][ResumeNext]_vars

(* A pool of printers: items are sent, moved, reordered, removed and        *)
(* balanced while they are dispatched, saves fail and the server restarts.  *)
PoolNext ==
    \/ \E p \in Printers :
         \/ \E s \in Slots : Dispatch(p, s)
         \/ ItemRoute(p) \/ PauseRoute(p) \/ PoolRoute(p) \/ clear(p)
    \/ Send \/ AutoBalanceSweep \/ StoreControl \/ Restart

PoolSpec == Init /\ [][PoolNext]_vars
=============================================================================
