------------------------ MODULE QueueDispatch_proofs ------------------------
(***************************************************************************)
(* Proofs about QueueDispatch for every set of printers, every number of    *)
(* dispatches in flight and every bound.                                    *)
(*                                                                          *)
(* ClaimIsDurable is inductive once the store is known to be made of        *)
(* printer states.  BedDiscipline rests on it, on the fact that an owed     *)
(* item has been started, and on NoSecondStart, which TLC checks and the    *)
(* second theorem takes as a premise.                                       *)
(***************************************************************************)
EXTENDS QueueDispatch, TLAPS

(* A printer state, as far as the proofs look: its fields.  What its queue  *)
(* holds plays no part, so queues need no type here.                        *)
StateFields == {"queueState", "queuePaused", "queueStopped", "reconciliationPending",
                "attentionReason", "queue", "currentItem", "recentHistory"}

IsState(s) == s = [f \in StateFields |-> s[f]]

IsStore(st) ==
    /\ st = [p \in Printers |-> st[p]]
    /\ \A p \in Printers : IsState(st[p])

(* t does not dispatch, or dispatches what s did. *)
NoNewDispatch(s, t) ==
    t.queueState = "dispatching" =>
        s.queueState = "dispatching" /\ t.currentItem = s.currentItem

(* Whatever print s keeps the bed for, t does. *)
Keeps(s, t) == \A i : HoldsBed(s, i) => HoldsBed(t, i)

-----------------------------------------------------------------------------
(* The transitions of QueueEngine. *)

(* A reported start: the queue prints, and holds the bed. *)
LEMMA SuccessFacts ==
    ASSUME NEW s, IsState(s)
    PROVE  LET t == onDispatchSuccess(s)
           IN  IsState(t) /\ NoNewDispatch(s, t) /\ Keeps(s, t)
BY DEF IsState, StateFields, onDispatchSuccess, NoNewDispatch, Keeps, HoldsBed

(* A dispatch that ends without a start leaves "dispatching". *)
LEMMA DispatchEndFacts ==
    ASSUME NEW s, IsState(s), NEW kind
    PROVE  /\ IsState(onDispatchFailure(s)) /\ NoNewDispatch(s, onDispatchFailure(s))
           /\ IsState(onFileVerificationFailed(s, kind))
           /\ NoNewDispatch(s, onFileVerificationFailed(s, kind))
           /\ IsState(onDispatchDeferred(s)) /\ NoNewDispatch(s, onDispatchDeferred(s))
BY DEF IsState, StateFields, onDispatchFailure, onFileVerificationFailed,
       onDispatchDeferred, attentionState, NoNewDispatch

(* The outcome of a print, as the tick sees it. *)
LEMMA OutcomeFacts ==
    ASSUME NEW s, IsState(s), NEW prev, NEW state
    PROVE  LET t == Outcome(s, prev, state)
           IN  IsState(t) /\ NoNewDispatch(s, t) /\ Keeps(s, t)
<1>1. LET t == onProbeComplete(s) IN IsState(t) /\ t.queueState = "awaiting_bed_clear"
  BY DEF IsState, StateFields, onProbeComplete
<1>2. LET t == onProbeFailedOrCancelled(s)
      IN  /\ IsState(t) /\ t.queueState = "queue_attention_required"
          /\ t.attentionReason = "print-failed"
  BY DEF IsState, StateFields, onProbeFailedOrCancelled, attentionState
<1> QED
  BY <1>1, <1>2 DEF Outcome, NoNewDispatch, Keeps, HoldsBed, NeedsBedClear,
                    NEVER_PRINTED_REASONS

(* Recovery: nothing is dispatched afterwards, and a bed stays held. *)
LEMMA ReconcileFacts ==
    ASSUME NEW s, IsState(s), NEW probe
    PROVE  LET t == reconcileOnStartup(s, probe)
           IN  IsState(t) /\ t.queueState # "dispatching" /\ Keeps(s, t)
BY DEF IsState, StateFields, reconcileOnStartup, attentionState, Keeps, HoldsBed,
       NeedsBedClear, NEVER_PRINTED_REASONS

(* Changes to the other fields change nothing the proofs look at. *)
LEMMA FieldFacts ==
    ASSUME NEW s, IsState(s), NEW v,
           NEW f \in {"queue", "recentHistory", "queuePaused", "queueStopped",
                      "reconciliationPending"}
    PROVE  LET t == [s EXCEPT ![f] = v]
           IN  /\ IsState(t) /\ NoNewDispatch(s, t) /\ Keeps(s, t)
BY DEF IsState, StateFields, NoNewDispatch, Keeps, HoldsBed, NeedsBedClear

(* One printer's state changed in any store. *)
LEMMA WithFacts ==
    ASSUME NEW st, IsStore(st), NEW p \in Printers, NEW t, IsState(t)
    PROVE  LET new == [st EXCEPT ![p] = t]
           IN  /\ IsStore(new)
               /\ new[p] = t
               /\ \A q \in Printers \ {p} : new[q] = st[q]
<1> DEFINE new == [st EXCEPT ![p] = t]
<1>1. st = [q \in Printers |-> st[q]]
  BY DEF IsStore
<1>2. new = [q \in Printers |-> IF q = p THEN t ELSE st[q]]
  BY <1>1
<1> HIDE DEF new
<1>3. new[p] = t /\ \A q \in Printers \ {p} : new[q] = st[q]
  BY <1>2
<1>4. new = [q \in Printers |-> new[q]]
  BY <1>2
<1>5. \A q \in Printers : IsState(new[q])
  BY <1>3 DEF IsStore
<1> QED
  BY <1>3, <1>4, <1>5 DEF IsStore, new

-----------------------------------------------------------------------------
(* ClaimIsDurable is inductive together with the shape of the two stores.   *)

Durable == IsStore(store) /\ IsStore(disk) /\ ClaimIsDurable

(* A step that leaves the store alone. *)
LEMMA DurableUnchanged ==
    ASSUME Durable, UNCHANGED storeVars PROVE Durable'
BY DEF Durable, storeVars, IsStore, ClaimIsDurable

(* A saved-first change cannot separate memory from disk. *)
LEMMA DurableIntent ==
    ASSUME Durable, NEW new, IsStore(new), Intent(new) \/ IntentOrRefused(new)
    PROVE  Durable'
<1>1. CASE UNCHANGED storeVars
  BY <1>1, DurableUnchanged
<1>2. CASE store' = new /\ disk' = new /\ storeDegraded' = FALSE
  BY <1>2 DEF Durable, IsStore, ClaimIsDurable
<1>3. CASE storeDegraded' = TRUE /\ UNCHANGED <<store, disk>>
  BY <1>3 DEF Durable, IsStore, ClaimIsDurable
<1> QED
  BY <1>1, <1>2, <1>3 DEF Intent, IntentOrRefused

(* An observed change may be lost, so it must not begin a dispatch. *)
LEMMA DurableObserved ==
    ASSUME Durable, NEW new, IsStore(new), Observed(new),
           \A p \in Printers : NoNewDispatch(store[p], new[p])
    PROVE  Durable'
<1>1. CASE disk' = new /\ storeDegraded' = FALSE
  BY <1>1 DEF Durable, IsStore, ClaimIsDurable, Observed
<1>2. CASE storeDegraded' = TRUE /\ UNCHANGED disk
  BY <1>2 DEF Durable, IsStore, ClaimIsDurable, Observed, NoNewDispatch
<1> QED
  BY <1>1, <1>2 DEF Observed

(* One printer's state changed in the store. *)
LEMMA WithStore ==
    ASSUME Durable, NEW p \in Printers, NEW t, IsState(t)
    PROVE  /\ IsStore(With(p, t))
           /\ With(p, t)[p] = t
           /\ \A q \in Printers \ {p} : With(p, t)[q] = store[q]
BY WithFacts DEF Durable, With

(* The two ways to change the store, for one printer. *)
LEMMA DurableWith ==
    ASSUME Durable, NEW p \in Printers, NEW t, IsState(t)
    PROVE  /\ Intent(With(p, t)) \/ IntentOrRefused(With(p, t)) => Durable'
           /\ NoNewDispatch(store[p], t) /\ Observed(With(p, t)) => Durable'
<1> DEFINE new == With(p, t)
<1>1. IsStore(new) /\ new[p] = t /\ \A q \in Printers \ {p} : new[q] = store[q]
  BY WithStore
<1>2. NoNewDispatch(store[p], t) => \A q \in Printers : NoNewDispatch(store[q], new[q])
  BY <1>1 DEF NoNewDispatch
<1> HIDE DEF new
<1>3. Intent(new) \/ IntentOrRefused(new) => Durable'
  BY <1>1, DurableIntent
<1>4. NoNewDispatch(store[p], t) /\ Observed(new) => Durable'
  BY <1>1, <1>2, DurableObserved
<1> QED
  BY <1>3, <1>4 DEF new

LEMMA DurableInit == Init => Durable
<1> SUFFICES ASSUME Init PROVE Durable
  OBVIOUS
<1> DEFINE fresh == [defaultPrinterState EXCEPT !.queueState = "idle"]
<1>1. IsState(fresh) /\ fresh.queueState = "idle"
  BY DEF IsState, StateFields, defaultPrinterState
<1>2. store = [p \in Printers |-> fresh] /\ disk = store
  BY DEF Init
<1> HIDE DEF fresh
<1> QED
  BY <1>1, <1>2 DEF Durable, IsStore, ClaimIsDurable

(* What a dispatch does to the store. *)
LEMMA DurableDispatch ==
    ASSUME Durable, NEW p \in Printers, NEW s \in Slots, Dispatch(p, s)
    PROVE  Durable'
<1>0. IsState(store[p])
  BY DEF Durable, IsStore
<1>1. ASSUME NEW t, IsState(t), NoNewDispatch(store[p], t), Record(p, s, t)
      PROVE  Durable'
  BY <1>1, DurableWith, DurableUnchanged DEF Record
<1>2. CASE attemptQueueDispatch(p, s)
  BY <1>2, DurableUnchanged DEF attemptQueueDispatch
<1>3. CASE isPrinterIdle(p, s)
  BY <1>3, DurableUnchanged DEF isPrinterIdle
<1>4. CASE GiveUp(p, s)
  BY <1>4, DurableUnchanged DEF GiveUp
<1>5. CASE claimNextForDispatch(p, s)
  <2>1. IsState(claimTransition(store[p]))
    BY <1>0 DEF IsState, StateFields, claimTransition
  <2> QED
    BY <1>5, <2>1, DurableWith DEF claimNextForDispatch
<1>6. CASE VerifyFile(p, s)
  BY <1>0, <1>1, <1>6, DispatchEndFacts, DurableUnchanged DEF VerifyFile
<1>7. CASE SendFile(p, s)
  BY <1>0, <1>1, <1>7, DispatchEndFacts, DurableUnchanged DEF SendFile
<1>8. CASE startPrintFile(p, s)
  BY <1>8, DurableUnchanged DEF startPrintFile
<1>9. CASE StartRefused(p, s)
  BY <1>0, <1>1, <1>9, DispatchEndFacts DEF StartRefused
<1>10. CASE StartReplied(p, s)
  BY <1>0, <1>1, <1>10, SuccessFacts DEF StartReplied
<1>11. CASE StartTimedOut(p, s)
  BY <1>0, <1>1, <1>11, DispatchEndFacts DEF StartTimedOut
<1> QED
  BY <1>2, <1>3, <1>4, <1>5, <1>6, <1>7, <1>8, <1>9, <1>10, <1>11 DEF Dispatch

(* Memory and disk may part where neither dispatches anything new. *)
LEMMA DurablePartly ==
    ASSUME Durable, NEW p \in Printers,
           NEW t, IsState(t), t.queueState # "dispatching", NEW saved, IsState(saved),
           store' = With(p, t), disk' = With(p, saved), storeDegraded' = TRUE
    PROVE  Durable'
<1>1. IsStore(With(p, t)) /\ With(p, t)[p] = t /\ \A q \in Printers \ {p} : With(p, t)[q] = store[q]
  BY WithStore
<1>2. IsStore(With(p, saved)) /\ \A q \in Printers \ {p} : With(p, saved)[q] = store[q]
  BY WithStore
<1>3. /\ IsStore(store') /\ store'[p] = t
      /\ IsStore(disk') /\ \A q \in Printers \ {p} : store'[q] = store[q] /\ disk'[q] = store[q]
  BY <1>1, <1>2
<1>4. ClaimIsDurable'
  BY <1>3 DEF ClaimIsDurable
<1> QED
  BY <1>3, <1>4 DEF Durable, IsStore

(* What the tick saves on the way is as good as what it ends with. *)
LEMMA DurableTick ==
    ASSUME Durable, NEW p \in Printers, TickApply(p)
    PROVE  Durable'
<1> DEFINE now == store[p]
           tick == server[p].tick
           Reconciled == IF pooled[p] /\ now.reconciliationPending
                         THEN {reconcileOnStartup(now, probe) : probe \in ProbesOf(tick, now)}
                         ELSE {now}
<1>0. IsState(now)
  BY DEF Durable, IsStore
<1>1. PICK reconciled \in Reconciled :
        LET settled == [reconciled EXCEPT !.reconciliationPending = FALSE]
            final   == Outcome(IF pooled[p] THEN settled ELSE now, server[p].seen, tick.state)
        IN  IF final = now THEN UNCHANGED storeVars
            ELSE \/ Observed(With(p, final))
                 \/ \E saved \in {reconciled, settled} :
                      /\ pooled[p] /\ now.reconciliationPending /\ saved # final
                      /\ store' = With(p, final)
                      /\ disk' = With(p, saved)
                      /\ storeDegraded' = TRUE
  BY DEF TickApply
<1> DEFINE settled == [reconciled EXCEPT !.reconciliationPending = FALSE]
           final == Outcome(IF pooled[p] THEN settled ELSE now, server[p].seen, tick.state)
<1>2. /\ IsState(reconciled) /\ NoNewDispatch(now, reconciled)
      /\ pooled[p] /\ now.reconciliationPending => reconciled.queueState # "dispatching"
  BY <1>0, ReconcileFacts DEF NoNewDispatch
<1>3. IsState(settled) /\ NoNewDispatch(reconciled, settled)
  BY <1>2, FieldFacts
<1>4. /\ IsState(final) /\ NoNewDispatch(now, final)
      /\ pooled[p] => NoNewDispatch(settled, final)
  <2>1. CASE pooled[p]
    BY <1>2, <1>3, <2>1, OutcomeFacts DEF NoNewDispatch
  <2>2. CASE ~pooled[p]
    BY <1>0, <2>2, OutcomeFacts
  <2> QED
    BY <2>1, <2>2
<1>5. CASE UNCHANGED storeVars
  BY <1>5, DurableUnchanged
<1>6. CASE Observed(With(p, final))
  BY <1>4, <1>6, DurableWith
<1>7. ASSUME NEW saved \in {reconciled, settled},
             pooled[p], now.reconciliationPending,
             store' = With(p, final), disk' = With(p, saved), storeDegraded' = TRUE
      PROVE  Durable'
  <2>1. IsState(saved)
    BY <1>2, <1>3, <1>7
  <2>2. final.queueState # "dispatching"
    BY <1>2, <1>3, <1>4, <1>7 DEF NoNewDispatch
  <2> HIDE DEF final, settled
  <2> QED
    BY <1>4, <1>7, <2>1, <2>2, DurablePartly
<1> QED
  BY <1>1, <1>5, <1>6, <1>7

(* Recovery after a restart, and the restart itself. *)
LEMMA DurableStartup ==
    ASSUME Durable, NEW p \in Printers, Startup(p)
    PROVE  Durable'
<1>0. IsState(store[p])
  BY DEF Durable, IsStore
<1>1. CASE reconcileQueuesOnStartup(p)
  BY <1>1, DurableUnchanged DEF reconcileQueuesOnStartup
<1>2. CASE StartupApply(p)
  <2>1. ASSUME Observed(With(p, [store[p] EXCEPT !.reconciliationPending = TRUE]))
        PROVE  Durable'
    BY <1>0, <2>1, FieldFacts, DurableWith
  <2>2. ASSUME NEW probe, Observed(With(p, reconcileOnStartup(store[p], probe)))
        PROVE  Durable'
    BY <1>0, <2>2, ReconcileFacts, DurableWith DEF NoNewDispatch
  <2> QED
    BY <1>2, <2>1, <2>2 DEF StartupApply
<1> QED
  BY <1>1, <1>2 DEF Startup

LEMMA DurableRestart == ASSUME Durable, Restart \/ StoreControl PROVE Durable'
<1>1. CASE Restart
  BY <1>1 DEF Restart, Durable, IsStore, ClaimIsDurable
<1>2. CASE retrySave
  BY <1>2 DEF retrySave, Durable, IsStore, ClaimIsDurable
<1>3. CASE StopOrResumeAll
  BY <1>3, DurableUnchanged DEF StopOrResumeAll
<1> QED
  BY <1>1, <1>2, <1>3 DEF StoreControl

(* The operator's routes ask for intents only: whatever state they ask for, *)
(* it is saved first.                                                       *)
LEMMA RouteStates ==
    ASSUME NEW s, IsState(s)
    PROVE  /\ IsState(clearQueue(s)) /\ IsState(confirmManualBedClear(s))
           /\ IsState(pauseQueue(s)) /\ IsState(resumeQueue(s)) /\ IsState(stopQueue(s))
           /\ IsState(acceptFileChange(s))
           /\ \A probe : IsState(resumeFromStop(s, probe))
           /\ \A q : IsState([s EXCEPT !.queue = q])
           /\ \A q, h : IsState([s EXCEPT !.queue = q, !.recentHistory = h])
           /\ \A state : IsState([s EXCEPT !.queueState = state])
<1>1. \A probe : IsState(resumeFromStop(s, probe))
  BY ReconcileFacts, FieldFacts DEF resumeFromStop
<1>2. IsState(clearQueue(s)) /\ IsState(acceptFileChange(s))
  BY DEF IsState, StateFields, clearQueue, acceptFileChange, ReadyAgain, Resolved
<1>3. /\ IsState(confirmManualBedClear(s))
      /\ IsState(pauseQueue(s)) /\ IsState(resumeQueue(s)) /\ IsState(stopQueue(s))
  BY DEF IsState, StateFields, confirmManualBedClear, pauseQueue, resumeQueue, stopQueue
<1>4. /\ \A q : IsState([s EXCEPT !.queue = q])
      /\ \A q, h : IsState([s EXCEPT !.queue = q, !.recentHistory = h])
      /\ \A state : IsState([s EXCEPT !.queueState = state])
  BY DEF IsState, StateFields
<1> QED
  BY <1>1, <1>2, <1>3, <1>4

LEMMA ResolvedState ==
    ASSUME NEW s, IsState(s), NEW action \in Resolutions, NEW newId
    PROVE  IsState(resolveAttention(s, action, newId))
<1>1. CASE action \in {"retry", "skip"}
  <2> DEFINE settled == IF action = "skip"
                        THEN [s EXCEPT !.recentHistory = pushHistory(@, s.currentItem, "skipped")]
                        ELSE IF s.currentItem = NoItem THEN s
                        ELSE [s EXCEPT !.queue = <<newId>> \o @]
  <2>1. IsState(settled)
    BY DEF IsState, StateFields
  <2> HIDE DEF settled
  <2>2. IsState(Resolved(settled, "awaiting_bed_clear")) /\ IsState(ReadyAgain(settled))
    BY <2>1 DEF IsState, StateFields, Resolved, ReadyAgain
  <2> QED
    BY <1>1, <2>2 DEF resolveAttention, RetryOrSkip, settled
<1>2. CASE action \notin {"retry", "skip"}
  BY <1>2 DEF Resolutions, resolveAttention, Resolved, ReadyAgain, IsState, StateFields
<1> QED
  BY <1>1, <1>2

LEMMA DurableRoutes ==
    ASSUME Durable, NEW p \in Printers,
           ItemRoute(p) \/ PauseRoute(p) \/ StopRoute(p) \/ ClearRoute(p)
             \/ ResolveRoute(p) \/ PoolRoute(p)
    PROVE  Durable'
<1>0. IsState(store[p])
  BY DEF Durable, IsStore
<1>1. ASSUME NEW t, IsState(t), Intent(With(p, t)) \/ IntentOrRefused(With(p, t))
      PROVE  Durable'
  BY <1>1, DurableWith
<1>2. CASE ItemRoute(p)
  <2>1. CASE addItems(p)
    BY <1>0, <1>1, <2>1, RouteStates DEF addItems, Create
  <2>2. ASSUME NEW k \in 1..MaxItems, removeItem(p, k) PROVE Durable'
    BY <1>0, <1>1, <2>2, RouteStates DEF removeItem, Request
  <2>3. ASSUME NEW k \in 1..MaxItems, NEW toIndex \in 1..MaxItems, moveWithin(p, k, toIndex)
        PROVE  Durable'
    BY <1>0, <1>1, <2>3, RouteStates DEF moveWithin, Request
  <2>4. ASSUME NEW q \in Printers, NEW k \in 1..MaxItems, moveToPrinter(p, q, k)
        PROVE  Durable'
    <3> DEFINE moved == [store EXCEPT ![p].queue = RemoveAt(@, k),
                                      ![q].queue = Append(@, store[p].queue[k])]
    <3>1. store = [r \in Printers |-> store[r]] /\ \A r \in Printers : IsState(store[r])
      BY DEF Durable, IsStore
    <3>2. moved = [r \in Printers |->
                     IF r = p THEN [store[p] EXCEPT !.queue = RemoveAt(@, k)]
                     ELSE IF r = q
                     THEN [store[q] EXCEPT !.queue = Append(@, store[p].queue[k])]
                     ELSE store[r]]
      BY <2>4, <3>1 DEF moveToPrinter
    <3>3. IsStore(moved)
      <4> HIDE DEF moved
      <4>1. \A r \in Printers : IsState(moved[r])
        BY <3>1, <3>2, RouteStates
      <4> QED
        BY <3>2, <4>1 DEF IsStore
    <3>4. Intent(moved)
      BY <2>4 DEF moveToPrinter, Request
    <3> HIDE DEF moved
    <3> QED
      BY <3>3, <3>4, DurableIntent
  <2> QED
    BY <1>2, <2>1, <2>2, <2>3, <2>4 DEF ItemRoute
<1>3. CASE PauseRoute(p)
  BY <1>0, <1>1, <1>3, RouteStates DEF PauseRoute, pause, resume, Request
<1>4. CASE StopRoute(p)
  <2>1. CASE stop(p)
    BY <1>0, <1>1, <2>1, RouteStates DEF stop, Request
  <2>2. CASE ResumeApply(p)
    BY <1>0, <1>1, <2>2, RouteStates DEF ResumeApply
  <2>3. CASE resumeAfterStop(p) \/ ResumeProbe(p)
    BY <2>3, DurableUnchanged DEF resumeAfterStop, ResumeProbe
  <2> QED
    BY <1>4, <2>1, <2>2, <2>3 DEF StopRoute
<1>5. CASE ClearRoute(p)
  <2>1. CASE clear(p) \/ ClearApply(p)
    BY <1>0, <1>1, <2>1, RouteStates DEF clear, ClearApply, Cleared
  <2>2. CASE clearActive(p) \/ ClearCancel(p)
    BY <2>2, DurableUnchanged DEF clearActive, ClearCancel
  <2> QED
    BY <1>5, <2>1, <2>2 DEF ClearRoute
<1>6. CASE ResolveRoute(p)
  <2>1. CASE confirmBedClear(p) \/ acceptChangedFile(p)
    BY <1>0, <1>1, <2>1, RouteStates DEF confirmBedClear, acceptChangedFile, Request
  <2>2. ASSUME NEW action \in Resolutions, resolve(p, action) PROVE Durable'
    BY <1>0, <1>1, <2>2, ResolvedState DEF resolve
  <2>3. CASE resolveByResume(p)
    BY <2>3, DurableUnchanged DEF resolveByResume
  <2>4. CASE ResolveByResumeApply(p)
    <3>1. IsState(resolveAttention(store[p], "resume", nextId))
      BY <1>0, ResolvedState DEF Resolutions
    <3> QED
      BY <1>1, <2>4, <3>1, DurableUnchanged DEF ResolveByResumeApply
  <2> QED
    BY <1>6, <2>1, <2>2, <2>3, <2>4 DEF ResolveRoute
<1>7. CASE PoolRoute(p)
  BY <1>0, <1>1, <1>7, RouteStates DEF PoolRoute, assignPool, unassignPool, ChangePool
<1> QED
  BY <1>2, <1>3, <1>4, <1>5, <1>6, <1>7

(* A new queue for some of the printers. *)
LEMMA QueuesStore ==
    ASSUME Durable, NEW queues
    PROVE  IsStore([p \in Printers |-> [store[p] EXCEPT !.queue = queues[p]]])
<1> DEFINE new == [p \in Printers |-> [store[p] EXCEPT !.queue = queues[p]]]
<1>1. \A p \in Printers : IsState(new[p])
  BY RouteStates DEF Durable, IsStore
<1> QED
  BY <1>1 DEF IsStore

LEMMA DurablePool ==
    ASSUME Durable, Send \/ AutoBalanceSweep
    PROVE  Durable'
<1>1. CASE AutoBalanceSweep
  <2> DEFINE balanced == computeAutoBalanceMoves(store, {p \in Printers : pooled[p]})
             queues   == [p \in Printers |-> balanced[p].queue]
             new == [p \in Printers |-> [store[p] EXCEPT !.queue = queues[p]]]
  <2>1. Intent(new)
    BY <1>1 DEF AutoBalanceSweep, Request
  <2>2. IsStore(new)
    BY QueuesStore
  <2> HIDE DEF new
  <2> QED
    BY <2>1, <2>2, DurableIntent
<1>2. ASSUME NEW targets \in SUBSET Printers, NEW mode \in {"print-on-all", "distribute"},
             NEW n \in 1..MaxItems, sendToQueue(targets, mode, n)
      PROVE  Durable'
  <2> DEFINE new == [p \in Printers |->
                        IF p \in targets
                        THEN [store[p] EXCEPT !.queue = @ \o Share(p, targets, mode, n)]
                        ELSE store[p]]
  <2>1. Intent(new)
    BY <1>2 DEF sendToQueue, Create
  <2>2. \A p \in Printers : IsState(new[p])
    BY RouteStates DEF Durable, IsStore
  <2>3. IsStore(new)
    BY <2>2 DEF IsStore
  <2> HIDE DEF new
  <2> QED
    BY <2>1, <2>3, DurableIntent
<1> QED
  BY <1>1, <1>2 DEF Send

LEMMA DurableNext == ASSUME Durable, [Next]_vars PROVE Durable'
<1>1. ASSUME NEW p \in Printers, NEW s \in Slots, Dispatch(p, s) PROVE Durable'
  BY <1>1, DurableDispatch
<1>2. ASSUME NEW p \in Printers, PrinterStep(p) PROVE Durable'
  BY <1>2, DurableUnchanged DEF PrinterStep
<1>3. ASSUME NEW p \in Printers, Tick(p) PROVE Durable'
  BY <1>3, DurableTick, DurableUnchanged DEF Tick, TickProbe
<1>4. ASSUME NEW p \in Printers, Startup(p) PROVE Durable'
  BY <1>4, DurableStartup
<1>5. ASSUME NEW p \in Printers,
             ItemRoute(p) \/ PauseRoute(p) \/ StopRoute(p) \/ ClearRoute(p)
               \/ ResolveRoute(p) \/ PoolRoute(p)
      PROVE  Durable'
  BY <1>5, DurableRoutes
<1>6. CASE Send \/ AutoBalanceSweep
  BY <1>6, DurablePool
<1>7. CASE StoreControl \/ Restart
  BY <1>7, DurableRestart
<1>8. CASE UNCHANGED vars
  BY <1>8, DurableUnchanged DEF vars, storeVars
<1> QED
  BY <1>1, <1>2, <1>3, <1>4, <1>5, <1>6, <1>7, <1>8 DEF Next

(* An item is dispatched only from a claim that is on disk (QueueStore's    *)
(* persist-then-commit, claimNextForDispatch), whatever fails or restarts.  *)
THEOREM ClaimsAreDurable == Spec => []ClaimIsDurable
<1>1. Durable => ClaimIsDurable
  BY DEF Durable
<1> QED
  BY <1>1, DurableInit, DurableNext, PTL DEF Spec

-----------------------------------------------------------------------------
(* BedDiscipline.  An owed item has been started, so while its dispatch is  *)
(* still recorded as such no dispatch that has yet to start can be the      *)
(* item's: that is what NoSecondStart contributes.                          *)

OwedStarted ==
    /\ owed = [p \in Printers |-> owed[p]]
    /\ \A p \in Printers : owed[p] # NoItem => owed[p] \in started

BedInv == Durable /\ OwedStarted /\ BedDiscipline

LEMMA BedInit == Init => BedInv
BY DurableInit DEF Init, BedInv, OwedStarted, BedDiscipline

(* A step that lets no bed go which is owed afterwards, and owes no new one. *)
LEMMA BedKept ==
    ASSUME BedInv, Durable', started \subseteq started',
           owed' = [q \in Printers |-> owed'[q]],
           \A q \in Printers : owed'[q] \in {owed[q], NoItem},
           \A q \in Printers : owed'[q] # NoItem =>
               HoldsBed(store'[q], owed[q]) /\ HoldsBed(disk'[q], owed[q])
    PROVE  BedInv'
<1>1. OwedStarted'
  BY DEF BedInv, OwedStarted
<1>2. BedDiscipline'
  BY DEF BedDiscipline
<1> QED
  BY <1>1, <1>2 DEF BedInv

LEMMA BedUnchanged ==
    ASSUME BedInv, UNCHANGED <<storeVars, history>> PROVE BedInv'
<1>1. Durable'
  BY DurableUnchanged DEF BedInv
<1>2. UNCHANGED <<store, disk, owed, started>>
  BY DEF storeVars, history
<1> QED
  BY <1>1, <1>2 DEF BedInv, OwedStarted, BedDiscipline

Asked(p, t) ==
    Intent(With(p, t)) \/ IntentOrRefused(With(p, t)) \/ Observed(With(p, t))

(* One printer's state changes to t: it keeps the bed, or nothing is owed.  *)
LEMMA BedWith ==
    ASSUME BedInv, Durable', NEW p \in Printers, NEW t, IsState(t), Asked(p, t),
           UNCHANGED started,
           owed' = [q \in Printers |-> owed'[q]],
           \A q \in Printers \ {p} : owed'[q] = owed[q],
           owed'[p] \in {owed[p], NoItem},
           UNCHANGED <<store, disk>> \/ (owed'[p] # NoItem => HoldsBed(t, owed[p]))
    PROVE  BedInv'
<1>1. CASE UNCHANGED <<store, disk>>
  <2>1. \A q \in Printers : owed'[q] # NoItem =>
               HoldsBed(store'[q], owed[q]) /\ HoldsBed(disk'[q], owed[q])
    BY <1>1 DEF BedInv, BedDiscipline
  <2> QED
    BY <2>1, BedKept
<1>2. CASE owed'[p] # NoItem => HoldsBed(t, owed[p])
  <2>1. /\ store' \in {store, With(p, t)}
        /\ disk' \in {disk, With(p, t)}
    BY DEF Asked, Intent, IntentOrRefused, Observed, storeVars
  <2>2. /\ With(p, t)[p] = t
        /\ \A q \in Printers \ {p} : With(p, t)[q] = store[q]
    BY WithStore DEF BedInv
  <2>3. \A q \in Printers : owed'[q] # NoItem => HoldsBed(With(p, t)[q], owed[q])
    BY <1>2, <2>2 DEF BedInv, BedDiscipline
  <2>4. \A q \in Printers : owed'[q] # NoItem =>
               HoldsBed(store[q], owed[q]) /\ HoldsBed(disk[q], owed[q])
    BY DEF BedInv, BedDiscipline
  <2>5. \A q \in Printers : owed'[q] # NoItem =>
               HoldsBed(store'[q], owed[q]) /\ HoldsBed(disk'[q], owed[q])
    BY <2>1, <2>3, <2>4
  <2> QED
    BY <2>5, BedKept
<1> QED
  BY <1>1, <1>2

(* ... and nothing else the invariant looks at changes. *)
LEMMA BedWithSame ==
    ASSUME BedInv, Durable', NEW p \in Printers, NEW t, IsState(t), Asked(p, t),
           UNCHANGED history, Keeps(store[p], t) \/ owed[p] = NoItem
    PROVE  BedInv'
<1>1. UNCHANGED <<started, owed>>
  BY DEF history
<1>2. owed = [q \in Printers |-> owed[q]]
  BY DEF BedInv, OwedStarted
<1>3. owed[p] # NoItem => HoldsBed(t, owed[p])
  BY DEF BedInv, BedDiscipline, Keeps
<1> QED
  BY <1>1, <1>2, <1>3, BedWith

(* A saved-first change of several printers which all keep their beds. *)
LEMMA BedIntent ==
    ASSUME BedInv, Durable', NEW new, Intent(new), UNCHANGED <<started, owed>>,
           \A q \in Printers : Keeps(store[q], new[q])
    PROVE  BedInv'
<1>1. store' \in {store, new} /\ disk' \in {disk, new}
  BY DEF Intent
<1>2. \A q \in Printers : owed[q] # NoItem =>
         /\ HoldsBed(new[q], owed[q])
         /\ HoldsBed(store[q], owed[q]) /\ HoldsBed(disk[q], owed[q])
  BY DEF BedInv, BedDiscipline, Keeps
<1>3. owed = [q \in Printers |-> owed[q]]
  BY DEF BedInv, OwedStarted
<1> QED
  BY <1>1, <1>2, <1>3, BedKept

(* A printer whose state holds no bed owes none. *)
LEMMA NothingOwed ==
    ASSUME BedInv, NEW p \in Printers,
           \/ store[p].queueState \in {"idle", "unmanaged"}
           \/ /\ store[p].queueState = "queue_attention_required"
              /\ store[p].attentionReason \in NEVER_PRINTED_REASONS
    PROVE  owed[p] = NoItem
BY DEF BedInv, BedDiscipline, HoldsBed, NeedsBedClear

LEMMA BedDispatch ==
    ASSUME ~LostReplies, BedInv, NoSecondStart,
           NEW p \in Printers, NEW s \in Slots, Dispatch(p, s)
    PROVE  BedInv'
<1> DEFINE item == dispatch[p][s].item
<1>0. IsState(store[p]) /\ Durable'
  BY DurableDispatch DEF BedInv, Durable, IsStore
<1>1. ASSUME dispatch[p][s].pc \in {"verifying", "sending", "starting"},
             Dispatching(store[p], item)
      PROVE  owed[p] = NoItem
  <2>1. item \notin started
    BY <1>1 DEF NoSecondStart, InFlight
  <2> QED
    BY <1>1, <2>1 DEF BedInv, BedDiscipline, OwedStarted, HoldsBed, Dispatching
<1>2. ASSUME NEW t, IsState(t), Record(p, s, t), UNCHANGED history,
             Dispatching(store[p], item) => (Keeps(store[p], t) \/ owed[p] = NoItem)
      PROVE  BedInv'
  <2>1. CASE Dispatching(store[p], item)
    BY <1>0, <1>2, <2>1, BedWithSame DEF Record, Asked
  <2>2. CASE ~Dispatching(store[p], item)
    BY <1>2, <2>2, BedUnchanged DEF Record
  <2> QED
    BY <2>1, <2>2
<1>3. CASE attemptQueueDispatch(p, s) \/ isPrinterIdle(p, s) \/ GiveUp(p, s)
  BY <1>3, BedUnchanged DEF attemptQueueDispatch, isPrinterIdle, GiveUp
<1>4. CASE claimNextForDispatch(p, s)
  <2>1. IsState(claimTransition(store[p]))
    BY <1>0 DEF IsState, StateFields, claimTransition
  <2>2. owed[p] = NoItem
    BY <1>4, NothingOwed DEF claimNextForDispatch, CanClaim
  <2> QED
    BY <1>0, <1>4, <2>1, <2>2, BedWithSame DEF claimNextForDispatch, Asked
<1>5. CASE VerifyFile(p, s)
  BY <1>0, <1>1, <1>2, <1>5, DispatchEndFacts, BedUnchanged DEF VerifyFile
<1>6. CASE SendFile(p, s)
  BY <1>0, <1>1, <1>2, <1>6, DispatchEndFacts, BedUnchanged DEF SendFile
<1>7. CASE StartRefused(p, s)
  BY <1>0, <1>1, <1>2, <1>7, DispatchEndFacts DEF StartRefused
<1>8. CASE StartReplied(p, s)
  BY <1>0, <1>2, <1>8, SuccessFacts DEF StartReplied
<1>9. CASE StartTimedOut(p, s)
  BY <1>9 DEF StartTimedOut
<1>10. CASE startPrintFile(p, s)
  <2>1. UNCHANGED <<store, disk>> /\ started' = started \cup {item}
    BY <1>10 DEF startPrintFile, storeVars
  <2>2. /\ owed' = [owed EXCEPT ![p] = IF Dispatching(store[p], item) THEN item ELSE @]
        /\ owed = [q \in Printers |-> owed[q]]
    BY <1>10 DEF startPrintFile, BedInv, OwedStarted
  <2>3. /\ \A q \in Printers \ {p} : owed'[q] = owed[q]
        /\ owed'[p] = IF Dispatching(store[p], item) THEN item ELSE owed[p]
        /\ owed' = [q \in Printers |-> owed'[q]]
    BY <2>2
  <2>4. OwedStarted'
    BY <2>1, <2>3 DEF BedInv, OwedStarted
  <2>5. Dispatching(store[p], item) => HoldsBed(store[p], item) /\ HoldsBed(disk[p], item)
    BY DEF BedInv, Durable, ClaimIsDurable, Dispatching, HoldsBed
  <2>6. BedDiscipline'
    BY <2>1, <2>3, <2>5 DEF BedInv, BedDiscipline
  <2> QED
    BY <1>0, <2>4, <2>6 DEF BedInv
<1> QED
  BY <1>3, <1>4, <1>5, <1>6, <1>7, <1>8, <1>9, <1>10 DEF Dispatch

LEMMA BedTick == ASSUME BedInv, NEW p \in Printers, TickApply(p) PROVE BedInv'
<1> DEFINE now == store[p]
           tick == server[p].tick
           Reconciled == IF pooled[p] /\ now.reconciliationPending
                         THEN {reconcileOnStartup(now, probe) : probe \in ProbesOf(tick, now)}
                         ELSE {now}
<1>0. IsState(now) /\ Durable'
  BY DurableTick DEF BedInv, Durable, IsStore
<1>1. PICK reconciled \in Reconciled :
        LET settled == [reconciled EXCEPT !.reconciliationPending = FALSE]
            final   == Outcome(IF pooled[p] THEN settled ELSE now, server[p].seen, tick.state)
        IN  IF final = now THEN UNCHANGED storeVars
            ELSE \/ Observed(With(p, final))
                 \/ \E saved \in {reconciled, settled} :
                      /\ pooled[p] /\ now.reconciliationPending /\ saved # final
                      /\ store' = With(p, final)
                      /\ disk' = With(p, saved)
                      /\ storeDegraded' = TRUE
  BY DEF TickApply
<1> DEFINE settled == [reconciled EXCEPT !.reconciliationPending = FALSE]
           final == Outcome(IF pooled[p] THEN settled ELSE now, server[p].seen, tick.state)
<1>2. IsState(reconciled) /\ Keeps(now, reconciled)
  BY <1>0, ReconcileFacts DEF Keeps
<1>3. IsState(settled) /\ Keeps(now, settled)
  BY <1>2, FieldFacts DEF Keeps
<1>4. IsState(final) /\ Keeps(now, final)
  <2>1. CASE pooled[p]
    BY <1>3, <2>1, OutcomeFacts DEF Keeps
  <2>2. CASE ~pooled[p]
    BY <1>0, <2>2, OutcomeFacts
  <2> QED
    BY <2>1, <2>2
<1>5. UNCHANGED history
  BY DEF TickApply
<1>6. CASE UNCHANGED storeVars
  BY <1>5, <1>6, BedUnchanged
<1>7. CASE Observed(With(p, final))
  BY <1>0, <1>4, <1>5, <1>7, BedWithSame DEF Asked
<1>8. ASSUME NEW saved \in {reconciled, settled},
             store' = With(p, final), disk' = With(p, saved)
      PROVE  BedInv'
  <2>1. IsState(saved) /\ Keeps(now, saved)
    BY <1>2, <1>3, <1>8
  <2> HIDE DEF final, settled
  <2>2. /\ store'[p] = final /\ disk'[p] = saved
        /\ \A q \in Printers \ {p} : store'[q] = store[q] /\ disk'[q] = store[q]
    BY <1>4, <1>8, <2>1, WithStore DEF BedInv
  <2>3. \A q \in Printers : owed[q] # NoItem =>
               HoldsBed(store'[q], owed[q]) /\ HoldsBed(disk'[q], owed[q])
    BY <1>4, <2>1, <2>2 DEF BedInv, BedDiscipline, Keeps
  <2>4. UNCHANGED <<started, owed>> /\ owed = [q \in Printers |-> owed[q]]
    BY <1>5 DEF history, BedInv, OwedStarted
  <2> QED
    BY <1>0, <2>3, <2>4, BedKept
<1> QED
  BY <1>1, <1>6, <1>7, <1>8

LEMMA BedStartup == ASSUME BedInv, NEW p \in Printers, Startup(p) PROVE BedInv'
<1>0. IsState(store[p]) /\ Durable'
  BY DurableStartup DEF BedInv, Durable, IsStore
<1>1. CASE reconcileQueuesOnStartup(p)
  BY <1>1, BedUnchanged DEF reconcileQueuesOnStartup
<1>2. CASE StartupApply(p)
  <2>1. ASSUME Observed(With(p, [store[p] EXCEPT !.reconciliationPending = TRUE])),
               UNCHANGED history
        PROVE  BedInv'
    BY <1>0, <2>1, FieldFacts, BedWithSame DEF Asked
  <2>2. ASSUME NEW probe, Observed(With(p, reconcileOnStartup(store[p], probe))),
               UNCHANGED history
        PROVE  BedInv'
    BY <1>0, <2>2, ReconcileFacts, BedWithSame DEF Asked
  <2> QED
    BY <1>2, <2>1, <2>2 DEF StartupApply
<1> QED
  BY <1>1, <1>2 DEF Startup

LEMMA BedRestart == ASSUME BedInv, Restart \/ StoreControl PROVE BedInv'
<1>0. Durable'
  BY DurableRestart DEF BedInv
<1>1. CASE Restart
  BY <1>0, <1>1 DEF Restart, history, BedInv, OwedStarted, BedDiscipline
<1>2. CASE retrySave
  BY <1>0, <1>2 DEF retrySave, history, BedInv, OwedStarted, BedDiscipline
<1>3. CASE StopOrResumeAll
  BY <1>3, BedUnchanged DEF StopOrResumeAll
<1> QED
  BY <1>1, <1>2, <1>3 DEF StoreControl

(* What a person answers either keeps the bed or takes it on their word.    *)
LEMMA ResolveKeeps ==
    ASSUME NEW s, IsState(s), NEW newId,
           NEW action \in Resolutions \ BedOnOperatorsWord,
           s.queueState = "queue_attention_required", NeedsBedClear(s)
    PROVE  Keeps(s, resolveAttention(s, action, newId))
<1>1. CASE action \in {"retry", "skip"}
  <2> DEFINE settled == IF action = "skip"
                        THEN [s EXCEPT !.recentHistory = pushHistory(@, s.currentItem, "skipped")]
                        ELSE IF s.currentItem = NoItem THEN s
                        ELSE [s EXCEPT !.queue = <<newId>> \o @]
  <2>1. IsState(settled)
    BY DEF IsState, StateFields
  <2> HIDE DEF settled
  <2>2. Resolved(settled, "awaiting_bed_clear").queueState = "awaiting_bed_clear"
    BY <2>1 DEF IsState, StateFields, Resolved
  <2> QED
    BY <1>1, <2>2 DEF resolveAttention, RetryOrSkip, settled, Keeps, HoldsBed
<1>2. CASE action = "stop"
  BY <1>2, FieldFacts DEF resolveAttention
<1>3. CASE action \in {"resume", "retry-bed-clear"}
  BY <1>3 DEF resolveAttention, Resolved, IsState, StateFields, Keeps, HoldsBed
<1> QED
  BY <1>1, <1>2, <1>3 DEF Resolutions, BedOnOperatorsWord

(* Changes of queue and switches keep the bed. *)
LEMMA SwitchesKeep ==
    ASSUME NEW s, IsState(s)
    PROVE  /\ Keeps(s, pauseQueue(s)) /\ Keeps(s, resumeQueue(s)) /\ Keeps(s, stopQueue(s))
           /\ \A probe : Keeps(s, resumeFromStop(s, probe))
           /\ \A q : Keeps(s, [s EXCEPT !.queue = q])
           /\ \A q, h : Keeps(s, [s EXCEPT !.queue = q, !.recentHistory = h])
<1>1. \A probe : Keeps(s, resumeFromStop(s, probe))
  <2> TAKE probe
  <2>1. IsState(reconcileOnStartup(s, probe)) /\ Keeps(s, reconcileOnStartup(s, probe))
    BY ReconcileFacts
  <2>2. Keeps(reconcileOnStartup(s, probe), resumeFromStop(s, probe))
    BY <2>1, FieldFacts DEF resumeFromStop
  <2> QED
    BY <2>1, <2>2 DEF Keeps
<1>2. Keeps(s, pauseQueue(s)) /\ Keeps(s, resumeQueue(s)) /\ Keeps(s, stopQueue(s))
  BY DEF IsState, StateFields, pauseQueue, resumeQueue, stopQueue, Keeps, HoldsBed, NeedsBedClear
<1>3. /\ \A q : Keeps(s, [s EXCEPT !.queue = q])
      /\ \A q, h : Keeps(s, [s EXCEPT !.queue = q, !.recentHistory = h])
  BY DEF IsState, StateFields, Keeps, HoldsBed, NeedsBedClear
<1> QED
  BY <1>1, <1>2, <1>3

LEMMA BedRoutes ==
    ASSUME BedInv, NEW p \in Printers,
           ItemRoute(p) \/ PauseRoute(p) \/ StopRoute(p) \/ ClearRoute(p)
             \/ ResolveRoute(p) \/ PoolRoute(p)
    PROVE  BedInv'
<1>0. IsState(store[p]) /\ Durable'
  BY DurableRoutes DEF BedInv, Durable, IsStore
<1>1. ASSUME NEW t, IsState(t), Asked(p, t), UNCHANGED <<started, owed>>,
             Keeps(store[p], t) \/ owed[p] = NoItem
      PROVE  BedInv'
  BY <1>0, <1>1, BedWithSame DEF history
<1>2. ASSUME NEW t, IsState(t), Asked(p, t), UNCHANGED started, NEW letGo,
             owed' = [owed EXCEPT ![p] = IF letGo THEN NoItem ELSE @],
             letGo = FALSE => UNCHANGED <<store, disk>>, letGo \in BOOLEAN
      PROVE  BedInv'
  <2>1. owed = [q \in Printers |-> owed[q]]
    BY DEF BedInv, OwedStarted
  <2>2. /\ owed' = [q \in Printers |-> owed'[q]]
        /\ \A q \in Printers \ {p} : owed'[q] = owed[q]
        /\ owed'[p] = IF letGo THEN NoItem ELSE owed[p]
    BY <1>2, <2>1
  <2>3. UNCHANGED <<store, disk>> \/ (owed'[p] # NoItem => HoldsBed(t, owed[p]))
    BY <1>2, <2>2
  <2> QED
    BY <1>0, <1>2, <2>2, <2>3, BedWith
<1>3. CASE ItemRoute(p)
  <2>1. CASE addItems(p)
    BY <1>0, <1>1, <2>1, RouteStates, SwitchesKeep DEF addItems, Create, Asked, history
  <2>2. ASSUME NEW k \in 1..MaxItems, removeItem(p, k) PROVE BedInv'
    <3> DEFINE t == [store[p] EXCEPT
                        !.queue = RemoveAt(@, k),
                        !.recentHistory = pushHistory(@, store[p].queue[k], "removed")]
    <3>1. IsState(t) /\ Keeps(store[p], t)
      BY <1>0, RouteStates, SwitchesKeep
    <3>2. Asked(p, t) /\ UNCHANGED <<started, owed>>
      BY <2>2 DEF removeItem, Request, Asked
    <3> HIDE DEF t
    <3> QED
      BY <1>1, <3>1, <3>2
  <2>3. ASSUME NEW k \in 1..MaxItems, NEW toIndex \in 1..MaxItems, moveWithin(p, k, toIndex)
        PROVE  BedInv'
    BY <1>0, <1>1, <2>3, RouteStates, SwitchesKeep DEF moveWithin, Request, Asked
  <2>4. ASSUME NEW q \in Printers, NEW k \in 1..MaxItems, moveToPrinter(p, q, k)
        PROVE  BedInv'
    <3> DEFINE moved == [store EXCEPT ![p].queue = RemoveAt(@, k),
                                      ![q].queue = Append(@, store[p].queue[k])]
    <3>1. store = [r \in Printers |-> store[r]] /\ \A r \in Printers : IsState(store[r])
      BY DEF BedInv, Durable, IsStore
    <3>2. moved = [r \in Printers |->
                     IF r = p THEN [store[p] EXCEPT !.queue = RemoveAt(@, k)]
                     ELSE IF r = q
                     THEN [store[q] EXCEPT !.queue = Append(@, store[p].queue[k])]
                     ELSE store[r]]
      BY <2>4, <3>1 DEF moveToPrinter
    <3>3. Intent(moved) /\ UNCHANGED <<started, owed>>
      BY <2>4 DEF moveToPrinter, Request
    <3> HIDE DEF moved
    <3>4. \A r \in Printers : Keeps(store[r], moved[r])
      BY <3>1, <3>2, SwitchesKeep DEF Keeps
    <3> QED
      BY <1>0, <3>3, <3>4, BedIntent
  <2> QED
    BY <1>3, <2>1, <2>2, <2>3, <2>4 DEF ItemRoute
<1>4. CASE PauseRoute(p)
  BY <1>0, <1>1, <1>4, RouteStates, SwitchesKeep DEF PauseRoute, pause, resume, Request, Asked
<1>5. CASE StopRoute(p)
  <2>1. CASE stop(p)
    BY <1>0, <1>1, <2>1, RouteStates, SwitchesKeep DEF stop, Request, Asked
  <2>2. CASE ResumeApply(p)
    BY <1>0, <1>1, <2>2, RouteStates, SwitchesKeep DEF ResumeApply, Asked, history
  <2>3. CASE resumeAfterStop(p) \/ ResumeProbe(p)
    BY <2>3, BedUnchanged DEF resumeAfterStop, ResumeProbe
  <2> QED
    BY <1>5, <2>1, <2>2, <2>3 DEF StopRoute
<1>6. CASE ClearRoute(p)
  <2>1. CASE clear(p) \/ ClearApply(p)
    <3> DEFINE letGo == ~(Blocked \/ storeDegraded')
    <3>1. /\ IntentOrRefused(With(p, clearQueue(store[p])))
          /\ owed' = [owed EXCEPT ![p] = IF letGo THEN NoItem ELSE @]
          /\ UNCHANGED started
      BY <2>1 DEF clear, ClearApply, Cleared
    <3>2. letGo = FALSE => UNCHANGED <<store, disk>>
      BY <3>1 DEF IntentOrRefused, Intent, storeVars
    <3>3. letGo \in BOOLEAN
      OBVIOUS
    <3>4. IsState(clearQueue(store[p])) /\ Asked(p, clearQueue(store[p]))
      BY <1>0, <3>1, RouteStates DEF Asked
    <3> HIDE DEF letGo
    <3> QED
      BY <1>2, <3>1, <3>2, <3>3, <3>4
  <2>2. CASE clearActive(p) \/ ClearCancel(p)
    BY <2>2, BedUnchanged DEF clearActive, ClearCancel
  <2> QED
    BY <1>6, <2>1, <2>2 DEF ClearRoute
<1>7. CASE PoolRoute(p)
  <2>1. ASSUME NEW isPooled, NEW queueState, ChangePool(p, isPooled, queueState)
        PROVE  BedInv'
    <3>1. owed[p] = NoItem
      BY <2>1, NothingOwed DEF ChangePool, CanChangePool
    <3> QED
      BY <1>0, <1>1, <2>1, <3>1, RouteStates DEF ChangePool, Asked, history
  <2> QED
    BY <1>7, <2>1 DEF PoolRoute, assignPool, unassignPool
<1>8. CASE ResolveRoute(p)
  <2>1. CASE confirmBedClear(p)
    <3> DEFINE letGo == ~storeDegraded'
    <3>1. /\ Intent(With(p, confirmManualBedClear(store[p])))
          /\ owed' = [owed EXCEPT ![p] = IF letGo THEN NoItem ELSE @]
          /\ UNCHANGED started
      BY <2>1 DEF confirmBedClear, Request, Committed
    <3>2. letGo = FALSE => UNCHANGED <<store, disk>>
      BY <3>1 DEF Intent
    <3>3. letGo \in BOOLEAN
      OBVIOUS
    <3>4. /\ IsState(confirmManualBedClear(store[p]))
          /\ Asked(p, confirmManualBedClear(store[p]))
      BY <1>0, <3>1, RouteStates DEF Asked
    <3> HIDE DEF letGo
    <3> QED
      BY <1>2, <3>1, <3>2, <3>3, <3>4
  <2>2. CASE acceptChangedFile(p)
    <3>1. owed[p] = NoItem
      BY <2>2, NothingOwed DEF acceptChangedFile, CanAcceptFileChange, NEVER_PRINTED_REASONS
    <3> QED
      BY <1>0, <1>1, <2>2, <3>1, RouteStates DEF acceptChangedFile, Request, Asked
  <2>3. ASSUME NEW action \in Resolutions, resolve(p, action) PROVE BedInv'
    <3> DEFINE t == resolveAttention(store[p], action, nextId)
               letGo == ~storeDegraded' /\ action \in BedOnOperatorsWord
    <3>1. /\ Intent(With(p, t)) /\ IsState(t) /\ UNCHANGED started
          /\ owed' = [owed EXCEPT ![p] = IF letGo THEN NoItem ELSE @]
          /\ store[p].queueState = "queue_attention_required"
      BY <1>0, <2>3, ResolvedState DEF resolve, Committed, CanResolve
    <3>2. CASE action \in BedOnOperatorsWord
      <4>1. letGo = FALSE => UNCHANGED <<store, disk>>
        BY <3>1, <3>2 DEF Intent
      <4>2. letGo \in BOOLEAN /\ Asked(p, t)
        BY <3>1 DEF Asked
      <4> HIDE DEF letGo, t
      <4> QED
        BY <1>2, <3>1, <4>1, <4>2
    <3>3. CASE action \notin BedOnOperatorsWord
      <4>1. owed' = owed
        BY <3>1, <3>3 DEF BedInv, OwedStarted
      <4>2. Keeps(store[p], t) \/ owed[p] = NoItem
        BY <1>0, <3>1, <3>3, ResolveKeeps, NothingOwed DEF NeedsBedClear
      <4> QED
        BY <1>1, <3>1, <4>1, <4>2 DEF Asked
    <3> QED
      BY <3>2, <3>3
  <2>4. CASE resolveByResume(p)
    BY <2>4, BedUnchanged DEF resolveByResume
  <2>5. CASE ResolveByResumeApply(p)
    <3> DEFINE t == resolveAttention(store[p], "resume", nextId)
    <3>1. IsState(t) /\ (CanResolve(store[p], "resume") => Keeps(store[p], t) \/ owed[p] = NoItem)
      BY <1>0, ResolvedState, ResolveKeeps, NothingOwed
         DEF Resolutions, BedOnOperatorsWord, CanResolve, NeedsBedClear
    <3> QED
      BY <1>1, <2>5, <3>1, BedUnchanged DEF ResolveByResumeApply, Asked, history
  <2> QED
    BY <1>8, <2>1, <2>2, <2>3, <2>4, <2>5 DEF ResolveRoute
<1> QED
  BY <1>3, <1>4, <1>5, <1>6, <1>7, <1>8

LEMMA BedPool == ASSUME BedInv, Send \/ AutoBalanceSweep PROVE BedInv'
<1>0. Durable'
  BY DurablePool DEF BedInv
<1>1. \A p \in Printers : IsState(store[p])
  BY DEF BedInv, Durable, IsStore
<1>2. CASE AutoBalanceSweep
  <2> DEFINE balanced == computeAutoBalanceMoves(store, {p \in Printers : pooled[p]})
             new == [p \in Printers |-> [store[p] EXCEPT !.queue = balanced[p].queue]]
  <2>1. Intent(new) /\ UNCHANGED <<started, owed>>
    BY <1>2 DEF AutoBalanceSweep, Request
  <2>2. \A p \in Printers : Keeps(store[p], new[p])
    BY <1>1, SwitchesKeep
  <2> HIDE DEF new
  <2> QED
    BY <1>0, <2>1, <2>2, BedIntent
<1>3. ASSUME NEW targets \in SUBSET Printers, NEW mode \in {"print-on-all", "distribute"},
             NEW n \in 1..MaxItems, sendToQueue(targets, mode, n)
      PROVE  BedInv'
  <2> DEFINE new == [p \in Printers |->
                        IF p \in targets
                        THEN [store[p] EXCEPT !.queue = @ \o Share(p, targets, mode, n)]
                        ELSE store[p]]
  <2>1. Intent(new) /\ UNCHANGED <<started, owed>>
    BY <1>3 DEF sendToQueue, Create, history
  <2>2. \A p \in Printers : Keeps(store[p], new[p])
    BY <1>1, SwitchesKeep DEF Keeps
  <2> HIDE DEF new
  <2> QED
    BY <1>0, <2>1, <2>2, BedIntent
<1> QED
  BY <1>2, <1>3 DEF Send

LEMMA BedNext ==
    ASSUME ~LostReplies, BedInv, NoSecondStart, [Next]_vars PROVE BedInv'
<1>1. ASSUME NEW p \in Printers, NEW s \in Slots, Dispatch(p, s) PROVE BedInv'
  BY <1>1, BedDispatch
<1>2. ASSUME NEW p \in Printers, PrinterStep(p) PROVE BedInv'
  BY <1>2, BedUnchanged DEF PrinterStep
<1>3. ASSUME NEW p \in Printers, Tick(p) PROVE BedInv'
  BY <1>3, BedTick, BedUnchanged DEF Tick, TickProbe
<1>4. ASSUME NEW p \in Printers, Startup(p) PROVE BedInv'
  BY <1>4, BedStartup
<1>5. ASSUME NEW p \in Printers,
             ItemRoute(p) \/ PauseRoute(p) \/ StopRoute(p) \/ ClearRoute(p)
               \/ ResolveRoute(p) \/ PoolRoute(p)
      PROVE  BedInv'
  BY <1>5, BedRoutes
<1>6. CASE Send \/ AutoBalanceSweep
  BY <1>6, BedPool
<1>7. CASE StoreControl \/ Restart
  BY <1>7, BedRestart
<1>8. CASE UNCHANGED vars
  BY <1>8, BedUnchanged DEF vars, storeVars, history
<1> QED
  BY <1>1, <1>2, <1>3, <1>4, <1>5, <1>6, <1>7, <1>8 DEF Next

(* When start commands answer, and no item is started twice, the queue      *)
(* never prints over a finished, failed or unaccounted-for print, whatever  *)
(* fails, restarts or overlaps (the states of QueueEngine.js around         *)
(* awaiting_bed_clear and queue_attention_required).                        *)
THEOREM BedsAreRespected ==
    ASSUME ~LostReplies
    PROVE  Spec /\ []NoSecondStart => []BedDiscipline
<1>1. BedInv /\ NoSecondStart /\ [Next]_vars => BedInv'
  BY BedNext
<1>2. BedInv => BedDiscipline
  BY DEF BedInv
<1> QED
  BY <1>1, <1>2, BedInit, PTL DEF Spec
=============================================================================
