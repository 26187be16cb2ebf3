--------------------------- MODULE QueueDispatch ---------------------------
(***************************************************************************)
(* Queue Management as server.js runs it: the store (memory and its last    *)
(* saved copy), the dispatches in flight, the routes an operator calls, the *)
(* 30-second notification tick, startup reconciliation, and the printers    *)
(* themselves, which print, finish, fail and are also started by hand.      *)
(*                                                                          *)
(* Every await of the code separates two actions; the code between two      *)
(* awaits is one action.  A handler that reads state before an await and    *)
(* uses it after one leaves what it read in server[p] or in its dispatch.   *)
(***************************************************************************)
EXTENDS QueueEngine

CONSTANTS
    Slots,         \* bound: dispatches in flight for one printer
    AutoBalance,   \* the pool's auto-balance switch
    LostReplies    \* may a start command time out although it took effect?

ASSUME SwitchAssumption == AutoBalance \in BOOLEAN /\ LostReplies \in BOOLEAN

VARIABLES
    store,                \* printer -> PrinterState, the authoritative memory
    disk,                 \* what queue-data.json holds
    storeDegraded,        \* the last save failed
    storeStoppedByAdmin,  \* stop-all (memory only)
    pooled,               \* printer -> has a printerPoolId (config.json)
    dispatch,             \* printer -> slot -> one attemptQueueDispatch call
    server,               \* printer -> what other handlers hold across awaits
    printer,              \* printer -> what the machine does, and for which item
    nextId,               \* newQueueItemId
    started,              \* history: items some dispatch has physically started
    owed                  \* history: printer -> the item it was started on and
                          \* whose print nobody has said is off the bed

storeVars == <<store, disk, storeDegraded>>
history   == <<started, owed>>
vars == <<store, disk, storeDegraded, storeStoppedByAdmin, pooled, dispatch,
          server, printer, nextId, started, owed>>

PrintStates == {"standby", "printing", "paused", "complete", "cancelled", "error"}
DISPATCH_IDLE_STATES == {"standby", "complete", "cancelled"}
QUEUE_RECONCILE_STATES == {"dispatching", "printing", "bed_clear_running"}

InFlight == {"verifying", "sending", "starting", "replying"}  \* past the claim
Free     == [pc |-> "free", item |-> NoItem]

(* What a probe answered, or how far the request for one is: "none" (no     *)
(* handler waits), "due" (startup reconciliation has not come to the printer *)
(* yet), "asked", "offline", or the state and the job the machine reported.  *)
Answer == [state : PrintStates \cup {"none", "due", "asked", "offline"},
           job : Ids \cup {NoItem}]
Await(phase) == [state |-> phase, job |-> NoItem]

(* seen: NOTIFY_STATE; tick, startup, resume: the probes of notifyTick, of   *)
(* reconcileQueuesOnStartup and of a resume request; clearing, resolving:    *)
(* how far a clear request and a resolve-by-resume request are.              *)
FreshServer(startup) ==
    [seen |-> "unseen", tick |-> Await("none"), startup |-> Await(startup),
     resume |-> Await("none"), clearing |-> "no", resolving |-> FALSE]

TypeOK ==
    /\ store \in [Printers -> PrinterState]
    /\ disk  \in [Printers -> PrinterState]
    /\ storeDegraded \in BOOLEAN
    /\ storeStoppedByAdmin \in BOOLEAN
    /\ pooled \in [Printers -> BOOLEAN]
    /\ dispatch \in [Printers -> [Slots ->
          [pc : {"free", "probing", "checking"} \cup InFlight, item : Ids \cup {NoItem}]]]
    /\ server \in [Printers ->
          [seen : PrintStates \cup {"unseen"}, tick : Answer, startup : Answer,
           resume : Answer, clearing : {"no", "read", "cancelled"},
           resolving : BOOLEAN]]
    /\ printer \in [Printers -> [state : PrintStates, job : Ids \cup {NoItem}]]
    /\ nextId \in 1..(MaxItems + 1)
    /\ started \subseteq Ids
    /\ owed \in [Printers -> Ids \cup {NoItem}]

(* Queue Management has just been enabled: every printer pooled and idle. *)
Init ==
    /\ store = [p \in Printers |-> [defaultPrinterState EXCEPT !.queueState = "idle"]]
    /\ disk = store
    /\ storeDegraded = FALSE
    /\ storeStoppedByAdmin = FALSE
    /\ pooled = [p \in Printers |-> TRUE]
    /\ dispatch = [p \in Printers |-> [s \in Slots |-> Free]]
    /\ server = [p \in Printers |-> FreshServer("none")]
    /\ printer = [p \in Printers |-> [state |-> "standby", job |-> NoItem]]
    /\ nextId = 1
    /\ started = {}
    /\ owed = [p \in Printers |-> NoItem]

-----------------------------------------------------------------------------
(* QueueStore's two ways to change the store. *)

Blocked == storeDegraded \/ storeStoppedByAdmin

(* A mutant: applied first and saved if possible, like an observation. *)
ApplyThenSave(new) ==
    /\ ~Blocked
    /\ store' = new
    /\ \/ disk' = new /\ storeDegraded' = FALSE
       \/ storeDegraded' = TRUE /\ UNCHANGED disk

(* Category A: saved first, and applied only if the save succeeded. *)
Intent(new) ==
    /\ ~Blocked
    /\ \/ store' = new /\ disk' = new /\ storeDegraded' = FALSE
       \/ storeDegraded' = TRUE /\ UNCHANGED <<store, disk>>

(* Category B: applied at once, saved if possible. *)
Observed(new) ==
    /\ store' = new
    /\ \/ disk' = new /\ storeDegraded' = FALSE
       \/ storeDegraded' = TRUE /\ UNCHANGED disk

(* A request that goes on whatever the store answers. *)
IntentOrRefused(new) == IF Blocked THEN UNCHANGED storeVars ELSE Intent(new)

With(p, state) == [store EXCEPT ![p] = state]

-----------------------------------------------------------------------------
(* attemptQueueDispatch, one step per await.  The sweep and the routes call *)
(* it; a call that finds nothing to do simply ends.                         *)

Starting(p) == \E s \in Slots : dispatch[p][s].pc \in {"starting", "replying"}

GoTo(p, s, pc, item) == dispatch' = [dispatch EXCEPT ![p][s] = [pc |-> pc, item |-> item]]

(* A start sequence under way is asked about before the probe, not after it. *)
attemptQueueDispatch(p, s) ==
    /\ pooled[p]
    /\ dispatch[p][s].pc = "free"
    /\ ~Starting(p)
    /\ GoTo(p, s, "probing", NoItem)
    /\ UNCHANGED <<storeVars, storeStoppedByAdmin, pooled, server, printer, nextId, history>>

isPrinterIdle(p, s) ==
    /\ dispatch[p][s].pc = "probing"
    /\ printer[p].state \in DISPATCH_IDLE_STATES
    /\ GoTo(p, s, "checking", NoItem)
    /\ UNCHANGED <<storeVars, storeStoppedByAdmin, pooled, server, printer, nextId, history>>

(* Busy, offline, held by a legacy upload or a firmware deploy; or the item's *)
(* folder does not answer; or there is nothing to claim.                     *)
GiveUp(p, s) ==
    /\ dispatch[p][s].pc \in {"probing", "checking"}
    /\ GoTo(p, s, "free", NoItem)
    /\ UNCHANGED <<storeVars, storeStoppedByAdmin, pooled, server, printer, nextId, history>>

claimNextForDispatch(p, s) ==
    /\ dispatch[p][s].pc = "checking"
    /\ CanClaim(store[p])
    /\ Intent(With(p, claimTransition(store[p])))
    /\ IF storeDegraded' THEN GoTo(p, s, "free", NoItem)
                         ELSE GoTo(p, s, "verifying", Head(store[p].queue))
    /\ UNCHANGED <<storeStoppedByAdmin, pooled, server, printer, nextId, history>>

(* Records what became of the dispatched item.  If the printer's queue no   *)
(* longer dispatches that item the record throws, and nothing changes.      *)
Record(p, s, new) ==
    IF Dispatching(store[p], dispatch[p][s].item)
    THEN Observed(With(p, new)) ELSE UNCHANGED storeVars

(* Forced hash against the hash the item was queued with. *)
VerifyFile(p, s) ==
    /\ dispatch[p][s].pc = "verifying"
    /\ \/ /\ GoTo(p, s, "sending", dispatch[p][s].item)
          /\ UNCHANGED storeVars
       \/ /\ \/ Record(p, s, onDispatchDeferred(store[p]))
             \/ \E kind \in {"missing", "changed"} :
                   Record(p, s, onFileVerificationFailed(store[p], kind))
          /\ GoTo(p, s, "free", NoItem)
    /\ UNCHANGED <<storeStoppedByAdmin, pooled, server, printer, nextId, history>>

(* assertNotActiveJobFile, decideUpload and uploadFile. *)
SendFile(p, s) ==
    /\ dispatch[p][s].pc = "sending"
    /\ \/ /\ GoTo(p, s, "starting", dispatch[p][s].item)
          /\ UNCHANGED storeVars
       \/ /\ Record(p, s, onDispatchFailure(store[p]))
          /\ GoTo(p, s, "free", NoItem)
    /\ UNCHANGED <<storeStoppedByAdmin, pooled, server, printer, nextId, history>>

(* The machine takes the start command. *)
startPrintFile(p, s) ==
    LET item == dispatch[p][s].item
    IN  /\ dispatch[p][s].pc = "starting"
        /\ printer[p].state \notin {"printing", "paused"}
        /\ printer' = [printer EXCEPT ![p] = [state |-> "printing", job |-> item]]
        /\ GoTo(p, s, "replying", item)
        /\ started' = started \cup {item}
        /\ owed' = [owed EXCEPT ![p] = IF Dispatching(store[p], item) THEN item ELSE @]
        /\ UNCHANGED <<storeVars, storeStoppedByAdmin, pooled, server, nextId>>

(* Head mapping failed, or the machine refused: the item was not started. *)
StartRefused(p, s) ==
    /\ dispatch[p][s].pc = "starting"
    /\ Record(p, s, onDispatchFailure(store[p]))
    /\ GoTo(p, s, "free", NoItem)
    /\ UNCHANGED <<storeStoppedByAdmin, pooled, server, printer, nextId, history>>

(* The start command answered.  When onDispatchSuccess throws, the catch    *)
(* block's onDispatchFailure throws too: the print goes unrecorded.         *)
StartReplied(p, s) ==
    /\ dispatch[p][s].pc = "replying"
    /\ Record(p, s, onDispatchSuccess(store[p]))
    /\ GoTo(p, s, "free", NoItem)
    /\ UNCHANGED <<storeStoppedByAdmin, pooled, server, printer, nextId, history>>

(* The command took effect but its answer did not arrive in time. *)
StartTimedOut(p, s) ==
    /\ LostReplies
    /\ dispatch[p][s].pc = "replying"
    /\ Record(p, s, onDispatchFailure(store[p]))
    /\ GoTo(p, s, "free", NoItem)
    /\ UNCHANGED <<storeStoppedByAdmin, pooled, server, printer, nextId, history>>

Dispatch(p, s) ==
    \/ attemptQueueDispatch(p, s) \/ isPrinterIdle(p, s) \/ GiveUp(p, s)
    \/ claimNextForDispatch(p, s) \/ VerifyFile(p, s) \/ SendFile(p, s)
    \/ startPrintFile(p, s) \/ StartRefused(p, s)
    \/ StartReplied(p, s) \/ StartTimedOut(p, s)

-----------------------------------------------------------------------------
(* The machine: prints, pauses, finishes, fails; someone may start, pause,  *)
(* resume or cancel a print on its own screen.                              *)

MachineMoves(state) ==
    CASE state = "printing" -> {"paused", "complete", "cancelled", "error"}
      [] state = "paused"   -> {"printing", "cancelled"}
      [] OTHER              -> {"standby"}

PrinterStep(p) ==
    /\ \/ \E state \in MachineMoves(printer[p].state) :
            printer' = [printer EXCEPT ![p] =
                [state |-> state, job |-> IF state = "standby" THEN NoItem ELSE @.job]]
       \/ /\ printer[p].state \notin {"printing", "paused"}
          /\ printer' = [printer EXCEPT ![p] = [state |-> "printing", job |-> NoItem]]
    /\ UNCHANGED <<storeVars, storeStoppedByAdmin, pooled, dispatch, server, nextId, history>>

(* How a probe's answer reads against the current item.  The machine names  *)
(* the file, not the item: another job's file may have the item's name, and *)
(* some connectors report no name at all.                                   *)
FileReports(answer, s) ==
    IF answer.job # NoItem /\ answer.job = s.currentItem THEN {"same", "none"}
                                                         ELSE {"same", "other", "none"}

ProbesOf(answer, s) ==
    IF answer.state = "offline"
    THEN {[online |-> FALSE, state |-> "standby", file |-> "none"]}
    ELSE {[online |-> TRUE, state |-> answer.state, file |-> f] : f \in FileReports(answer, s)}

Answered(answer) == answer.state \in PrintStates \cup {"offline"}

ServerStep(p, new) ==
    /\ server' = [server EXCEPT ![p] = new]
    /\ UNCHANGED <<storeStoppedByAdmin, pooled, dispatch, printer, nextId>>

-----------------------------------------------------------------------------
(* notifyTick: probes, and applies the answer to what the store holds then. *)

TickProbe(p) ==
    /\ server[p].tick.state = "none"
    /\ ServerStep(p, [server[p] EXCEPT !.tick = printer[p]])
    /\ UNCHANGED <<storeVars, history>>

(* The store after the tick's outcome, if it has one. *)
Outcome(s, prev, state) ==
    IF prev \in {"unseen", state} \/ ~PrintOutcomeDue(s) THEN s
    ELSE IF state = "complete" THEN onProbeComplete(s)
    ELSE IF state \in {"error", "cancelled"} THEN onProbeFailedOrCancelled(s)
    ELSE s

(* A pending reconciliation comes first: applied, then its flag cleared,    *)
(* then the outcome; each is saved on its own, and any of the saves may     *)
(* fail.                                                                    *)
TickApply(p) ==
    LET tick == server[p].tick
        now  == store[p]
    IN  /\ tick.state # "none"
        /\ \E reconciled \in IF pooled[p] /\ now.reconciliationPending
                             THEN {reconcileOnStartup(now, probe) : probe \in ProbesOf(tick, now)}
                             ELSE {now} :
             LET settled == [reconciled EXCEPT !.reconciliationPending = FALSE]
                 final   == Outcome(IF pooled[p] THEN settled ELSE now,
                                    server[p].seen, tick.state)
             IN  IF final = now THEN UNCHANGED storeVars
                 ELSE \/ Observed(With(p, final))
                      \/ \E saved \in {reconciled, settled} :
                           /\ pooled[p] /\ now.reconciliationPending /\ saved # final
                           /\ store' = With(p, final)
                           /\ disk' = With(p, saved)
                           /\ storeDegraded' = TRUE
        /\ ServerStep(p, [server[p] EXCEPT !.tick = Await("none"), !.seen = tick.state])
        /\ UNCHANGED history

-----------------------------------------------------------------------------
(* The process dies at any moment and starts again from the saved store;    *)
(* what dispatches and requests were doing is gone.                         *)

Restart ==
    /\ store' = disk
    /\ storeDegraded' = FALSE
    /\ storeStoppedByAdmin' = FALSE
    /\ dispatch' = [p \in Printers |-> [s \in Slots |-> Free]]
    /\ server' = [p \in Printers |-> FreshServer("due")]
    /\ UNCHANGED <<disk, pooled, printer, nextId, history>>

reconcileQueuesOnStartup(p) ==
    /\ server[p].startup.state = "due"
    /\ \/ /\ pooled[p] /\ store[p].queueState \in QUEUE_RECONCILE_STATES
          /\ \E answer \in {printer[p], Await("offline")} :
               ServerStep(p, [server[p] EXCEPT !.startup = answer])
       \/ /\ ~(pooled[p] /\ store[p].queueState \in QUEUE_RECONCILE_STATES)
          /\ ServerStep(p, [server[p] EXCEPT !.startup = Await("none")])
    /\ UNCHANGED <<storeVars, history>>

(* Unreachable is not yet a mismatch: the tick reconciles later. *)
StartupApply(p) ==
    LET answer == server[p].startup
    IN  /\ Answered(answer)
        /\ IF answer.state = "offline"
           THEN Observed(With(p, [store[p] EXCEPT !.reconciliationPending = TRUE]))
           ELSE \E probe \in ProbesOf(answer, store[p]) :
                  Observed(With(p, reconcileOnStartup(store[p], probe)))
        /\ ServerStep(p, [server[p] EXCEPT !.startup = Await("none")])
        /\ UNCHANGED history

-----------------------------------------------------------------------------
(* The operator's routes. *)

(* Frame of a request that only asks the store for a change of state. *)
Request(new) ==
    /\ Intent(new)
    /\ UNCHANGED <<storeStoppedByAdmin, pooled, dispatch, server, printer, nextId, started>>

Committed == ~storeDegraded'

Serial(n) == [k \in 1..n |-> nextId + k - 1]

(* Items first to n - 1 exist once the request is saved. *)
Create(n, new) ==
    /\ nextId + n <= MaxItems + 1
    /\ Intent(new)
    /\ nextId' = IF Committed THEN nextId + n ELSE nextId
    /\ UNCHANGED <<storeStoppedByAdmin, pooled, dispatch, server, printer>>

(* The pool was checked before the files were hashed; only the store's      *)
(* answer counts now.                                                       *)
addItems(p) ==
    /\ \E n \in 1..MaxItems :
          Create(n, With(p, [store[p] EXCEPT !.queue = @ \o Serial(n)]))
    /\ UNCHANGED history

Rank(p, targets) == Cardinality({q \in targets : q < p})

(* print-on-all: each target gets its own n items.  distribute: the n items *)
(* go round the targets.                                                    *)
Share(p, targets, mode, n) ==
    LET size == Cardinality(targets)
    IN  IF mode = "print-on-all"
        THEN SubSeq(Serial(n * size), Rank(p, targets) * n + 1, (Rank(p, targets) + 1) * n)
        ELSE SelectSeq(Serial(n), LAMBDA i : (i - nextId) % size = Rank(p, targets))

sendToQueue(targets, mode, n) ==
    /\ targets # {}
    /\ Create(IF mode = "distribute" THEN n ELSE n * Cardinality(targets),
              [p \in Printers |->
                  IF p \in targets
                  THEN [store[p] EXCEPT !.queue = @ \o Share(p, targets, mode, n)]
                  ELSE store[p]])
    /\ UNCHANGED history

(* k: where in the queue the item now is. *)
removeItem(p, k) ==
    /\ k \in DOMAIN store[p].queue
    /\ Request(With(p, [store[p] EXCEPT
           !.queue = RemoveAt(@, k),
           !.recentHistory = pushHistory(@, store[p].queue[k], "removed")]))
    /\ UNCHANGED owed

moveWithin(p, k, toIndex) ==
    LET queue == store[p].queue
    IN  /\ {k, toIndex} \subseteq DOMAIN queue
        /\ Request(With(p, [store[p] EXCEPT
               !.queue = InsertAt(RemoveAt(queue, k), toIndex, queue[k])]))
        /\ UNCHANGED owed

(* A mutant: the item stays in the queue it is moved from. *)
CopyToPrinter(p, q, k) ==
    /\ p # q
    /\ pooled[p] = pooled[q]
    /\ printersCompatibleForMove(p, q)
    /\ k \in DOMAIN store[p].queue
    /\ Request([store EXCEPT ![q].queue = Append(@, store[p].queue[k])])
    /\ UNCHANGED owed

moveToPrinter(p, q, k) ==
    /\ p # q
    /\ pooled[p] = pooled[q]
    /\ printersCompatibleForMove(p, q)
    /\ k \in DOMAIN store[p].queue
    /\ Request([store EXCEPT ![p].queue = RemoveAt(@, k),
                             ![q].queue = Append(@, store[p].queue[k])])
    /\ UNCHANGED owed

pause(p) == Request(With(p, pauseQueue(store[p]))) /\ UNCHANGED owed
stop(p)  == Request(With(p, stopQueue(store[p])))  /\ UNCHANGED owed

(* Resume.  Only a stop is followed by a probe: asked, answered, applied. *)
resume(p) ==
    /\ ~store[p].queueStopped
    /\ Request(With(p, resumeQueue(store[p])))
    /\ UNCHANGED owed

resumeAfterStop(p) ==
    /\ server[p].resume.state = "none"
    /\ store[p].queueStopped
    /\ ServerStep(p, [server[p] EXCEPT !.resume = Await("asked")])
    /\ UNCHANGED <<storeVars, history>>

ResumeProbe(p) ==
    /\ server[p].resume.state = "asked"
    /\ \E answer \in {printer[p], Await("offline")} :
         ServerStep(p, [server[p] EXCEPT !.resume = answer])
    /\ UNCHANGED <<storeVars, history>>

(* Several requests may hold the same answer: one of them, or all but one,  *)
(* may still be waiting when this one is applied.                           *)
ResumeApply(p) ==
    LET answer == server[p].resume
    IN  /\ Answered(answer)
        /\ \E probe \in ProbesOf(answer, store[p]) :
              IntentOrRefused(With(p, resumeFromStop(store[p], probe)))
        /\ \E rest \in {answer, Await("none")} :
              ServerStep(p, [server[p] EXCEPT !.resume = rest])
        /\ UNCHANGED history

(* Clear: read the state, cancel the machine if it should be printing, then *)
(* empty the queue.  A failed cancel ends the request.                      *)
Cleared(p) ==
    /\ IntentOrRefused(With(p, clearQueue(store[p])))
    /\ owed' = [owed EXCEPT ![p] = IF Blocked \/ storeDegraded' THEN @ ELSE NoItem]
    /\ UNCHANGED started

Active(p) == store[p].queueState \in {"dispatching", "printing"}

clear(p) ==
    /\ ~Active(p)
    /\ Cleared(p)
    /\ ServerStep(p, server[p])

clearActive(p) ==
    /\ server[p].clearing = "no"
    /\ Active(p)
    /\ ServerStep(p, [server[p] EXCEPT !.clearing = "read"])
    /\ UNCHANGED <<storeVars, history>>

ClearCancel(p) ==
    /\ server[p].clearing = "read"
    /\ \/ /\ server' = [server EXCEPT ![p].clearing = "cancelled"]
          /\ printer' = [printer EXCEPT ![p].state =
                            IF @ \in {"printing", "paused"} THEN "cancelled" ELSE @]
       \/ server' = [server EXCEPT ![p].clearing = "no"] /\ UNCHANGED printer
    /\ UNCHANGED <<storeVars, storeStoppedByAdmin, pooled, dispatch, nextId, history>>

ClearApply(p) ==
    /\ server[p].clearing = "cancelled"
    /\ Cleared(p)
    /\ ServerStep(p, [server[p] EXCEPT !.clearing = "no"])

(* Someone stands at the printer and says the bed is empty. *)
confirmBedClear(p) ==
    /\ CanConfirmBedClear(store[p])
    /\ Request(With(p, confirmManualBedClear(store[p])))
    /\ owed' = [owed EXCEPT ![p] = IF Committed THEN NoItem ELSE @]

(* Acknowledging a mismatch, and skipping a bed clear, take the bed on the  *)
(* operator's word too.                                                     *)
BedOnOperatorsWord == {"acknowledge", "skip-bed-clear"}

resolve(p, action) ==
    /\ action # "resume"
    /\ CanResolve(store[p], action)
    /\ Intent(With(p, resolveAttention(store[p], action, nextId)))
    /\ IF action = "retry" /\ store[p].currentItem # NoItem
       THEN /\ nextId <= MaxItems
            /\ nextId' = IF Committed THEN nextId + 1 ELSE nextId
       ELSE UNCHANGED nextId
    /\ owed' = [owed EXCEPT ![p] =
                   IF Committed /\ action \in BedOnOperatorsWord THEN NoItem ELSE @]
    /\ UNCHANGED <<storeStoppedByAdmin, pooled, dispatch, server, printer, started>>

(* Resolving by resume makes the machine resume first, whatever the store   *)
(* will say.                                                                *)
resolveByResume(p) ==
    /\ ~server[p].resolving
    /\ printer[p].state = "paused"
    /\ printer' = [printer EXCEPT ![p].state = "printing"]
    /\ server' = [server EXCEPT ![p].resolving = TRUE]
    /\ UNCHANGED <<storeVars, storeStoppedByAdmin, pooled, dispatch, nextId, history>>

ResolveByResumeApply(p) ==
    /\ server[p].resolving
    /\ IF CanResolve(store[p], "resume")
       THEN IntentOrRefused(With(p, resolveAttention(store[p], "resume", nextId)))
       ELSE UNCHANGED storeVars
    /\ ServerStep(p, [server[p] EXCEPT !.resolving = FALSE])
    /\ UNCHANGED history

(* The new content is hashed meanwhile; the item must still be the one.     *)
acceptChangedFile(p) ==
    /\ CanAcceptFileChange(store[p])
    /\ store[p].currentItem # NoItem
    /\ Request(With(p, acceptFileChange(store[p])))
    /\ UNCHANGED owed

(* The pool is set in config.json whether or not the store takes its part.  *)
CanChangePool(s) == s.queueState \in {"idle", "unmanaged"} /\ s.queue = <<>>

ChangePool(p, isPooled, queueState) ==
    /\ CanChangePool(store[p])
    /\ pooled' = [pooled EXCEPT ![p] = isPooled]
    /\ IntentOrRefused(With(p, [store[p] EXCEPT !.queueState = queueState]))
    /\ UNCHANGED <<storeStoppedByAdmin, dispatch, server, printer, nextId, history>>

assignPool(p)   == ChangePool(p, TRUE, "idle")
unassignPool(p) == ChangePool(p, FALSE, "unmanaged")

-----------------------------------------------------------------------------
(* Controls of the store as a whole. *)

AutoBalanceSweep ==
    LET pool     == {p \in Printers : pooled[p]}
        balanced == computeAutoBalanceMoves(store, pool)
    IN  /\ AutoBalance
        /\ Cardinality(pool) > 1
        /\ Request([p \in Printers |-> [store[p] EXCEPT !.queue = balanced[p].queue]])
        /\ UNCHANGED owed

(* By the degraded store's timer, or asked for by an admin. *)
retrySave ==
    /\ \/ disk' = store /\ storeDegraded' = FALSE
       \/ storeDegraded' = TRUE /\ UNCHANGED disk
    /\ UNCHANGED <<store, storeStoppedByAdmin, pooled, dispatch, server, printer, nextId, history>>

StopOrResumeAll ==
    /\ storeStoppedByAdmin' = ~storeStoppedByAdmin
    /\ UNCHANGED <<storeVars, pooled, dispatch, server, printer, nextId, history>>

-----------------------------------------------------------------------------
Tick(p)    == TickProbe(p) \/ TickApply(p)
Startup(p) == reconcileQueuesOnStartup(p) \/ StartupApply(p)

ItemRoute(p) ==
    \/ addItems(p)
    \/ \E k \in 1..MaxItems : removeItem(p, k)
    \/ \E k, toIndex \in 1..MaxItems : moveWithin(p, k, toIndex)
    \/ \E q \in Printers, k \in 1..MaxItems : moveToPrinter(p, q, k)

PauseRoute(p)   == pause(p) \/ resume(p)
StopRoute(p)    == stop(p) \/ resumeAfterStop(p) \/ ResumeProbe(p) \/ ResumeApply(p)
ClearRoute(p)   == clear(p) \/ clearActive(p) \/ ClearCancel(p) \/ ClearApply(p)
ResolveRoute(p) ==
    \/ confirmBedClear(p) \/ acceptChangedFile(p)
    \/ \E action \in Resolutions : resolve(p, action)
    \/ resolveByResume(p) \/ ResolveByResumeApply(p)
PoolRoute(p) == assignPool(p) \/ unassignPool(p)

Send == \E targets \in SUBSET Printers, mode \in {"print-on-all", "distribute"},
           n \in 1..MaxItems : sendToQueue(targets, mode, n)

StoreControl == retrySave \/ StopOrResumeAll

Next ==
    \/ \E p \in Printers :
         \/ \E s \in Slots : Dispatch(p, s)
         \/ PrinterStep(p) \/ Tick(p) \/ Startup(p)
         \/ ItemRoute(p) \/ PauseRoute(p) \/ StopRoute(p) \/ ClearRoute(p)
         \/ ResolveRoute(p) \/ PoolRoute(p)
    \/ Send \/ AutoBalanceSweep \/ StoreControl \/ Restart

Spec == Init /\ [][Next]_vars

-----------------------------------------------------------------------------
(* Properties. *)

(* The states in which a printer's queue does not give out its next item. *)
HoldsBed(s, i) ==
    \/ s.queueState = "dispatching" /\ s.currentItem = i
    \/ s.queueState \in {"printing", "awaiting_bed_clear"}
    \/ s.queueState = "queue_attention_required" /\ NeedsBedClear(s)

(* Once the queue has started an item on a printer, that printer's queue    *)
(* gives out no other item, and does not forget it even across a crash,     *)
(* until a person has taken the bed on their word: a finished, failed,      *)
(* cancelled or unaccounted-for print is never printed over.                *)
BedDiscipline ==
    \A p \in Printers : owed[p] # NoItem =>
        HoldsBed(store[p], owed[p]) /\ HoldsBed(disk[p], owed[p])

QueuedOn(s) == ToSet(s.queue)
Placed(s)   == QueuedOn(s) \cup ({s.currentItem} \ {NoItem})

(* One claim starts an item at most once, on one printer: what a dispatch   *)
(* still has to start has not been started, nobody else is dispatching it,  *)
(* and no started item waits in a queue, in memory or in the saved file a   *)
(* restart would load.                                                      *)
NoSecondStart ==
    /\ \A p \in Printers, s \in Slots :
         LET d == dispatch[p][s]
         IN  d.pc \in InFlight =>
               /\ d.pc # "replying" => d.item \notin started
               /\ \A q \in Printers, t \in Slots :
                    dispatch[q][t].pc \in InFlight /\ dispatch[q][t].item = d.item
                      => p = q /\ s = t
    /\ \A p \in Printers : /\ QueuedOn(store[p]) \cap started = {}
                           /\ QueuedOn(disk[p]) \cap started = {}

(* An item is in one place only, in memory and in the saved file: one queue, *)
(* once, or one printer's current item.                                     *)
PlacedOnce(st) ==
    \A p \in Printers :
        /\ Cardinality(QueuedOn(st[p])) = Len(st[p].queue)
        /\ st[p].currentItem \notin QueuedOn(st[p])
        /\ \A q \in Printers \ {p} : Placed(st[p]) \cap Placed(st[q]) = {}

UniquePlacement == PlacedOnce(store) /\ PlacedOnce(disk)

(* An item is dispatched only from a claim that is on disk: if the server   *)
(* dies at any moment of the dispatch, what it loads again says so too and  *)
(* is reconciled with the machine, and the item is not claimed a second     *)
(* time.  While the store is not degraded, nothing acknowledged is unsaved. *)
ClaimIsDurable ==
    /\ ~storeDegraded => disk = store
    /\ \A p \in Printers : store[p].queueState = "dispatching" =>
          /\ disk[p].queueState = "dispatching"
          /\ disk[p].currentItem = store[p].currentItem

(* A queued item leaves its queue for another queue or to be printed, or is *)
(* recorded as removed; nothing else makes it disappear, not a crash        *)
(* either, nor a save that fails halfway through a move.                    *)
NothingQueuedIsLost ==
    [][\A p \in Printers : \A i \in QueuedOn(store[p]) : \E q \in Printers :
          \/ i \in Placed(store'[q])
          \/ Entry(i, "removed") \in ToSet(store'[q].recentHistory)]_vars

-----------------------------------------------------------------------------
(* What comments and the README say, and the code does not do. *)

(* server.js:2598-2602: the dispatch touches the connector once per claim   *)
(* "and records the real-world outcome back".  A print that has been        *)
(* started can be recorded only while its item is still being dispatched.   *)
DispatchOutcomeRecorded ==
    \A p \in Printers, s \in Slots :
        dispatch[p][s].pc = "replying" => Dispatching(store[p], dispatch[p][s].item)

(* server.js:5240-5243: clear "cancels whatever's physically printing right *)
(* now".  An item the queue has recorded as cancelled is not started after. *)
ClearedNeverPrints ==
    [][\A p \in Printers, i \in Ids :
          Entry(i, "cancelled") \in ToSet(store[p].recentHistory)
            => ~(i \in started' \ started)]_vars
=============================================================================
