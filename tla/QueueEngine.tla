---------------------------- MODULE QueueEngine ----------------------------
(***************************************************************************)
(* The pure transitions of queue/QueueEngine.js: every operator maps a      *)
(* printer's queue state (and an observation or an operator's choice) to    *)
(* the next one.  Functions that throw on a wrong state are given together  *)
(* with the guard under which they do not.                                  *)
(*                                                                          *)
(* A queue item is its id.  Ids are numbers in order of creation, so the    *)
(* oldest item of a queue (createdAt) is its smallest id.  An item's file,  *)
(* map, preferences and timestamps decide no transition except the file     *)
(* name in reconcileOnStartup, which enters as the probe's own field.       *)
(***************************************************************************)
EXTENDS Naturals, Sequences, FiniteSets, SequencesExt

CONSTANTS
    MaxItems,     \* bound: ids are 1..MaxItems
    MaxHistory,   \* MAX_RECENT_HISTORY, 20 in the code
    Printers,     \* printer ids; numbers, so that they are ordered
    Connector     \* printer id -> the connector it is driven by

ASSUME BoundsAssumption ==
    /\ MaxItems \in Nat
    /\ MaxHistory \in Nat
    /\ Printers \subseteq Nat
    /\ IsFiniteSet(Printers)

Ids    == 1..MaxItems
NoItem == 0       \* currentItem: null

QueueStates == {"unmanaged", "idle", "dispatching", "printing",
                "awaiting_bed_clear", "bed_clear_running",
                "queue_attention_required"}

NoReason == "none"

(* RESOLUTIONS_BY_REASON: what an operator may answer to each reason. *)
RESOLUTIONS_BY_REASON ==
    [r \in {"print-failed", "dispatch-failed", "bed-clear-failed",
            "file-missing", "file-changed", "pool-invalid",
            "recovery-mismatch", "recovery-interrupted",
            "recovery-unknown-outcome"} |->
        CASE r \in {"print-failed", "recovery-unknown-outcome"}
                                    -> {"resume", "retry", "skip", "stop"}
          [] r \in {"dispatch-failed", "recovery-interrupted"}
                                    -> {"retry", "skip", "stop"}
          [] r = "bed-clear-failed"  -> {"retry-bed-clear", "skip-bed-clear", "stop"}
          [] r \in {"file-missing", "file-changed"} -> {"skip", "stop"}
          [] r = "pool-invalid"      -> {"stop"}
          [] r = "recovery-mismatch" -> {"acknowledge", "stop"}]

Reasons == {"print-failed", "dispatch-failed", "bed-clear-failed",
            "file-missing", "file-changed", "pool-invalid",
            "recovery-mismatch", "recovery-interrupted",
            "recovery-unknown-outcome"}

Resolutions == {"resume", "retry", "skip", "stop", "acknowledge",
                "retry-bed-clear", "skip-bed-clear"}

NEVER_PRINTED_REASONS == {"dispatch-failed", "file-missing", "file-changed"}

Outcomes == {"completed", "failed", "skipped", "cancelled", "removed"}

Entry(i, outcome) == [item |-> i, outcome |-> outcome]

HistoryEntries == [item : Ids, outcome : Outcomes]

PrinterState ==
    [queueState : QueueStates, queuePaused : BOOLEAN, queueStopped : BOOLEAN,
     reconciliationPending : BOOLEAN, attentionReason : Reasons \cup {NoReason},
     queue : Seq(Ids), currentItem : Ids \cup {NoItem},
     recentHistory : Seq(HistoryEntries)]

defaultPrinterState ==
    [queueState |-> "unmanaged", queuePaused |-> FALSE, queueStopped |-> FALSE,
     reconciliationPending |-> FALSE, attentionReason |-> NoReason,
     queue |-> <<>>, currentItem |-> NoItem, recentHistory |-> <<>>]

(* Only the newest MaxHistory entries are kept. *)
Newest(h) ==
    IF Len(h) > MaxHistory THEN SubSeq(h, Len(h) - MaxHistory + 1, Len(h)) ELSE h

pushHistory(h, i, outcome) ==
    IF i = NoItem THEN h ELSE Newest(Append(h, Entry(i, outcome)))

attentionState(s, reason) ==
    [s EXCEPT !.queueState = "queue_attention_required", !.attentionReason = reason]

-----------------------------------------------------------------------------
(* Claim: the head of the queue becomes the current item. *)

CanClaim(s) ==
    /\ s.queueState = "idle"
    /\ ~s.queuePaused
    /\ ~s.queueStopped
    /\ s.queue # <<>>

claimTransition(s) ==
    [s EXCEPT !.queueState = "dispatching",
              !.queue = Tail(s.queue), !.currentItem = Head(s.queue)]

-----------------------------------------------------------------------------
(* What a dispatch reports.  Each throws unless its item is still the one   *)
(* the printer's queue is dispatching.                                      *)

Dispatching(s, i) == s.queueState = "dispatching" /\ s.currentItem = i

onDispatchSuccess(s) == [s EXCEPT !.queueState = "printing"]

(* A mutant: the detail's code in the place of the reason. *)
DispatchErrorAsReason(s) == attentionState(s, "dispatch-error")

onDispatchFailure(s) ==
    [attentionState(s, "dispatch-failed") EXCEPT
        !.recentHistory = pushHistory(s.recentHistory, s.currentItem, "failed")]

onFileVerificationFailed(s, kind) ==
    attentionState(s, IF kind = "missing" THEN "file-missing" ELSE "file-changed")

onDispatchDeferred(s) ==
    [s EXCEPT !.queueState = "idle",
              !.queue = <<s.currentItem>> \o s.queue, !.currentItem = NoItem]

-----------------------------------------------------------------------------
(* What the printer reports.  Each throws unless the queue is printing.     *)

PrintOutcomeDue(s) == s.queueState = "printing" /\ s.currentItem # NoItem

(* A mutant: the next item follows a completed one at once. *)
CompleteIsIdle(s) ==
    [s EXCEPT !.queueState = "idle", !.currentItem = NoItem,
              !.recentHistory = pushHistory(s.recentHistory, s.currentItem, "completed")]

onProbeComplete(s) ==
    [s EXCEPT !.queueState = "awaiting_bed_clear",
              !.recentHistory = pushHistory(s.recentHistory, s.currentItem, "completed")]

onProbeFailedOrCancelled(s) ==
    [attentionState(s, "print-failed") EXCEPT
        !.recentHistory = pushHistory(s.recentHistory, s.currentItem, "failed")]

-----------------------------------------------------------------------------
(* An operator's answers. *)

CanResolve(s, action) ==
    /\ s.queueState = "queue_attention_required"
    /\ s.attentionReason \in Reasons
    /\ action \in RESOLUTIONS_BY_REASON[s.attentionReason]

Resolved(s, queueState) ==
    [s EXCEPT !.queueState = queueState, !.attentionReason = NoReason]

ReadyAgain(s) == [Resolved(s, "idle") EXCEPT !.currentItem = NoItem]

NeedsBedClear(s) == s.attentionReason \notin NEVER_PRINTED_REASONS

(* A mutant: retry puts the same item back in front. *)
RetrySameItem(s, action, newId) ==
    LET settled == IF action = "retry" /\ s.currentItem # NoItem
                   THEN [s EXCEPT !.queue = <<s.currentItem>> \o @] ELSE s
    IN  IF NeedsBedClear(s) THEN Resolved(settled, "awaiting_bed_clear")
                            ELSE ReadyAgain(settled)

(* Retry queues a new item (newId) in front; skip records the old one. *)
RetryOrSkip(s, action, newId) ==
    LET settled == IF action = "skip"
                   THEN [s EXCEPT !.recentHistory =
                            pushHistory(@, s.currentItem, "skipped")]
                   ELSE IF s.currentItem = NoItem THEN s
                   ELSE [s EXCEPT !.queue = <<newId>> \o @]
    IN  IF NeedsBedClear(s) THEN Resolved(settled, "awaiting_bed_clear")
                            ELSE ReadyAgain(settled)

resolveAttention(s, action, newId) ==
    CASE action = "stop"            -> [s EXCEPT !.queueStopped = TRUE]
      [] action = "resume"          -> Resolved(s, "printing")
      [] action = "retry-bed-clear" -> Resolved(s, "awaiting_bed_clear")
      [] action \in {"acknowledge", "skip-bed-clear"} -> ReadyAgain(s)
      [] action \in {"retry", "skip"} -> RetryOrSkip(s, action, newId)

(* The same item, with the file it now has, back in front of the queue. *)
CanAcceptFileChange(s) ==
    s.queueState = "queue_attention_required" /\ s.attentionReason = "file-changed"

acceptFileChange(s) ==
    [ReadyAgain(s) EXCEPT !.queue = <<s.currentItem>> \o @]

CanConfirmBedClear(s) == s.queueState = "awaiting_bed_clear"

confirmManualBedClear(s) == [s EXCEPT !.queueState = "idle", !.currentItem = NoItem]

pauseQueue(s)  == [s EXCEPT !.queuePaused  = TRUE]
resumeQueue(s) == [s EXCEPT !.queuePaused  = FALSE]
stopQueue(s)   == [s EXCEPT !.queueStopped = TRUE]

(* A mutant: what was queued leaves no trace. *)
ClearUnrecorded(s) ==
    [ReadyAgain(s) EXCEPT
        !.queue = <<>>,
        !.recentHistory = pushHistory(s.recentHistory, s.currentItem, "cancelled")]

(* The current item is recorded as cancelled, every queued one as removed. *)
clearQueue(s) ==
    LET removed == [k \in 1..Len(s.queue) |-> Entry(s.queue[k], "removed")]
    IN  [ReadyAgain(s) EXCEPT
            !.queue = <<>>,
            !.recentHistory =
                Newest(pushHistory(s.recentHistory, s.currentItem, "cancelled") \o removed)]

-----------------------------------------------------------------------------
(* Recovery against a live probe.  probe.file says how the file the printer *)
(* reports compares with the current item's: "same", "other", or "none"     *)
(* when the printer reports no file name.                                   *)

Probes == [online : BOOLEAN,
           state  : {"standby", "printing", "paused", "complete", "cancelled", "error"},
           file   : {"same", "other", "none"}]

(* Mutants: an interrupted dispatch is queued again; a print whose outcome  *)
(* is unknown is taken to be over.                                          *)
ReconcileRequeues(s, probe) ==
    IF s.queueState = "dispatching"
    THEN [s EXCEPT !.queueState = "idle", !.queue = <<s.currentItem>> \o @,
                   !.currentItem = NoItem]
    ELSE s

ReconcileForgets(s, probe) ==
    IF s.queueState = "printing" /\ probe.state # "printing"
    THEN [s EXCEPT !.queueState = "idle", !.currentItem = NoItem]
    ELSE s

reconcileOnStartup(s, probe) ==
    LET busy(states) == probe.online /\ probe.state \in states
    IN  CASE s.queueState = "dispatching" ->
               IF busy({"printing"}) /\ probe.file = "same"
               THEN [s EXCEPT !.queueState = "printing"]
               ELSE attentionState(s, IF busy({"printing"}) THEN "recovery-mismatch"
                                                            ELSE "recovery-interrupted")
          [] s.queueState = "printing" ->
               IF busy({"printing", "paused"}) /\ probe.file # "other"
               THEN s
               ELSE attentionState(s, "recovery-unknown-outcome")
          [] s.queueState = "bed_clear_running" -> attentionState(s, "bed-clear-failed")
          [] OTHER -> s

(* A mutant: resuming starts the queue from idle, whatever was in flight. *)
ResumeStartsOver(s, probe) ==
    [ReadyAgain(s) EXCEPT !.queueStopped = FALSE]

resumeFromStop(s, probe) ==
    [reconcileOnStartup(s, probe) EXCEPT !.queueStopped = FALSE]
-----------------------------------------------------------------------------
(* Auto-balance: what one pass over a pool does to a store. *)

printersCompatibleForMove(source, target) == Connector[source] = Connector[target]

(* An idle printer with nothing current and nothing queued wants work. *)
Candidate(s) == s.queueState = "idle" /\ s.currentItem = NoItem /\ s.queue = <<>>

(* Longest queue first, ties to the smaller printer id. *)
PreferredDonor(store, donors) ==
    CHOOSE d \in donors : \A e \in donors :
        \/ Len(store[d].queue) > Len(store[e].queue)
        \/ Len(store[d].queue) = Len(store[e].queue) /\ d <= e

(* A mutant: the first in the queue's order, which an operator may change. *)
FirstQueued(queue) == Head(queue)

Oldest(queue) == Min(ToSet(queue))

(* Mutants: the donor keeps what it gives; a donor never gives its last.    *)
BorrowCopies(store, members, candidates, p) ==
    LET donors == {d \in members \ candidates :
                     store[d].queue # <<>> /\ printersCompatibleForMove(p, d)}
    IN  IF donors = {} THEN store
        ELSE [store EXCEPT ![p].queue =
                 Append(@, Oldest(store[PreferredDonor(store, donors)].queue))]

BorrowLeavesOne(store, members, candidates, p) ==
    LET donors == {d \in members \ candidates :
                     Len(store[d].queue) > 1 /\ printersCompatibleForMove(p, d)}
        d      == PreferredDonor(store, donors)
        item   == Oldest(store[d].queue)
    IN  IF donors = {} THEN store
        ELSE [store EXCEPT ![d].queue = Remove(@, item), ![p].queue = Append(@, item)]

(* One candidate of the pass: it borrows from a sibling that was not itself *)
(* a candidate when the pass began.                                         *)
Borrow(store, members, candidates, p) ==
    LET donors == {d \in members \ candidates :
                     store[d].queue # <<>> /\ printersCompatibleForMove(p, d)}
        d      == PreferredDonor(store, donors)
        item   == Oldest(store[d].queue)
    IN  IF donors = {} THEN store
        ELSE [store EXCEPT ![d].queue = Remove(@, item), ![p].queue = Append(@, item)]

computeAutoBalanceMoves(store, members) ==
    LET candidates == {p \in members : Candidate(store[p])}
    IN  FoldLeft(LAMBDA st, p : Borrow(st, members, candidates, p),
                 store, SetToSortSeq(candidates, <))
=============================================================================
