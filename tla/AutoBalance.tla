---------------------------- MODULE AutoBalance ----------------------------
(***************************************************************************)
(* Auto-balance of a printer pool (server.js's five-second sweep, which     *)
(* commits QueueEngine!computeAutoBalanceMoves as one transaction), on its  *)
(* own: from any store in which every item is queued once, one pass after   *)
(* the other.  QueueDispatch makes the same pass part of the whole system.  *)
(***************************************************************************)
EXTENDS QueueEngine

VARIABLE store

Queued(st) == UNION {ToSet(st[p].queue) : p \in Printers}

(* Queues in which every item occurs once.  A printer that is not idle has  *)
(* a current item besides those queued.                                     *)
Init ==
    \E place \in [Ids -> Printers], busy \in SUBSET Printers, order \in SetToSeqs(Ids) :
        store = [p \in Printers |->
                   [defaultPrinterState EXCEPT
                       !.queueState = IF p \in busy THEN "awaiting_bed_clear" ELSE "idle",
                       !.currentItem = IF p \in busy THEN MaxItems + p ELSE NoItem,
                       !.queue = SelectSeq(order, LAMBDA i : place[i] = p)]]

Sweep == store' = computeAutoBalanceMoves(store, Printers)

Spec == Init /\ [][Sweep]_store

-----------------------------------------------------------------------------
(* A sweep neither loses nor duplicates an item, whatever several idle      *)
(* printers take from the same sibling within one pass.                     *)
ItemsConserved ==
    /\ Queued(store) = Ids
    /\ \A p, q \in Printers :
         /\ Cardinality(ToSet(store[p].queue)) = Len(store[p].queue)
         /\ p # q => ToSet(store[p].queue) \cap ToSet(store[q].queue) = {}

(* One pass hands each idle printer at most one item, takes nothing from a  *)
(* printer it gives to, and takes a sibling's oldest items first, even when *)
(* several printers take from that sibling: no move of the pass chains.     *)
OneHopPerPass ==
    [][\A p \in Printers :
         LET before(q) == ToSet(store[q].queue)
             after(q)  == ToSet(store'[q].queue)
             gained    == after(p) \ before(p)
         IN  gained # {} =>
               /\ Candidate(store[p])
               /\ Cardinality(gained) = 1
               /\ \E d \in Printers :
                     /\ printersCompatibleForMove(p, d)
                     /\ gained \subseteq before(d)
                     /\ \A i \in gained, j \in before(d) \cap after(d) : i < j]_store

(* An idle printer goes without only when every compatible sibling that had *)
(* items has given them all away.                                           *)
NoneLeftBehind ==
    [][\A p, d \in Printers :
         /\ Candidate(store[p]) /\ Candidate(store'[p])
         /\ printersCompatibleForMove(p, d) /\ store[d].queue # <<>>
         => store'[d].queue = <<>>]_store
=============================================================================
