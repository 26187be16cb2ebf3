------------------------ MODULE FirmwareDeploy_proofs ------------------------
(***************************************************************************)
(* Proofs about FirmwareDeploy for any printers, images and requests.       *)
(*                                                                          *)
(* The argument.  The queue and the records agree (Waiting), the runner and *)
(* the records agree (RunnerInv), and since a record is not queued and      *)
(* running at once, the printer being deployed to is not in the queue.      *)
(* Each change of a record is one of few: of a printer that is not busy, of *)
(* the one being deployed to, or of one that enters or leaves the queue.    *)
(***************************************************************************)
EXTENDS FirmwareDeploy, SequenceTheorems, WellFoundedInduction, TLAPS

Waiting(queue, records) ==
    /\ queue \in Seq(Entries)
    /\ records \in [Printers -> Records]
    /\ \A i, j \in DOMAIN queue : queue[i].id = queue[j].id => i = j
    /\ \A p \in Printers : records[p].phase = "queued" <=> p \in Queued(queue)
    /\ \A i \in DOMAIN queue : records[queue[i].id].file = queue[i].rel

(* No deploy is under way, as far as the records say. *)
NoneRunning(records) == \A p \in Printers : records[p].phase \notin Running

(* The records as they are while dep is the deploy to running. *)
RunningRecords(records, running, dep) ==
    /\ running \in Printers
    /\ dep \in [at : Points \ {"none"}, rel : Images]
    /\ \A p \in Printers : records[p].phase \in Running <=> running = p
    /\ dep.at \in {"check", "resolve"} => records[running].phase = "preparing"
    /\ dep.at \in {"upload", "verify", "flash"} => records[running].phase = dep.at
    /\ records[running].file = dep.rel

RunnerInv(records) ==
    \/ fwDraining = TRUE /\ RunningRecords(records, FW_RUNNING, deploy)
    \/ fwDraining = FALSE /\ FW_RUNNING = None /\ deploy = NoDeploy /\ NoneRunning(records)

RequestRecords == [at : {"none", "probe", "device"}, rel : Images \cup {None},
                   wanted : Wanted \cup {<<>>}, accepted : BOOLEAN]

RequestsInv ==
    /\ request \in [Requests -> RequestRecords]
    /\ \A r \in Requests :
         request[r].at # "none" => request[r].wanted \in Wanted /\ request[r].rel \in Images

FirmwareInv ==
    /\ Waiting(FW_QUEUE, FW_STATE) /\ RunnerInv(FW_STATE)
    /\ RequestsInv /\ FW_STOP_REQUESTED \in BOOLEAN

-----------------------------------------------------------------------------
(* Queues and lists of wanted printers. *)

LEMMA QueuedPrinters ==
    ASSUME NEW queue \in Seq(Entries)
    PROVE  /\ Queued(queue) \subseteq Printers
           /\ \A i \in DOMAIN queue : queue[i] \in Entries /\ queue[i].id \in Printers
                                      /\ queue[i].rel \in Images
  <1>1. ASSUME NEW i \in DOMAIN queue PROVE queue[i] \in Entries OBVIOUS
  <1>2. ASSUME NEW e \in Entries PROVE e.id \in Printers /\ e.rel \in Images BY DEF Entries
  <1> QED BY <1>1, <1>2 DEF Queued

(* Taking the head shifts every other entry by one place. *)
LEMMA HeadAndTail ==
    ASSUME NEW queue \in Seq(Entries), queue # <<>>
    PROVE  /\ Head(queue) = queue[1] /\ Len(queue) \in Nat \ {0} /\ 1 \in DOMAIN queue
           /\ Tail(queue) \in Seq(Entries)
           /\ DOMAIN Tail(queue) = 1 .. (Len(queue) - 1)
           /\ \A i \in DOMAIN Tail(queue) :
                i + 1 \in DOMAIN queue /\ Tail(queue)[i] = queue[i + 1]
           /\ \A i \in DOMAIN queue : i = 1 \/ i - 1 \in DOMAIN Tail(queue)
  OBVIOUS

(* With every printer queued once, the head's is gone from the tail. *)
LEMMA TailQueued ==
    ASSUME NEW queue \in Seq(Entries), queue # <<>>,
           \A i, j \in DOMAIN queue : queue[i].id = queue[j].id => i = j
    PROVE  Queued(Tail(queue)) = Queued(queue) \ {Head(queue).id}
  <1>1. ASSUME NEW i \in DOMAIN Tail(queue)
        PROVE  Tail(queue)[i].id \in Queued(queue) \ {Head(queue).id}
    <2>1. i + 1 \in DOMAIN queue /\ Tail(queue)[i] = queue[i + 1] /\ i + 1 # 1
          /\ 1 \in DOMAIN queue /\ Head(queue) = queue[1]
      BY HeadAndTail
    <2> QED BY <2>1 DEF Queued
  <1>2. ASSUME NEW i \in DOMAIN queue, queue[i].id # Head(queue).id
        PROVE  queue[i].id \in Queued(Tail(queue))
    <2>1. i # 1 BY <1>2, HeadAndTail
    <2>2. i - 1 \in DOMAIN Tail(queue) /\ Tail(queue)[i - 1] = queue[(i - 1) + 1]
      BY <2>1, HeadAndTail
    <2>3. (i - 1) + 1 = i BY HeadAndTail
    <2> QED BY <2>2, <2>3 DEF Queued
  <1> QED BY <1>1, <1>2 DEF Queued

(* Appending adds one entry, last, and its printer. *)
LEMMA AppendQueued ==
    ASSUME NEW queue \in Seq(Entries), NEW e \in Entries
    PROVE  /\ Append(queue, e) \in Seq(Entries)
           /\ Queued(Append(queue, e)) = Queued(queue) \cup {e.id}
           /\ DOMAIN Append(queue, e) = 1 .. (Len(queue) + 1)
           /\ \A i \in DOMAIN queue : Append(queue, e)[i] = queue[i]
           /\ Append(queue, e)[Len(queue) + 1] = e
  <1>1. /\ Append(queue, e) \in Seq(Entries)
        /\ DOMAIN Append(queue, e) = 1 .. (Len(queue) + 1)
        /\ DOMAIN queue = 1 .. Len(queue) /\ Len(queue) \in Nat
        /\ \A i \in DOMAIN queue : Append(queue, e)[i] = queue[i]
        /\ Append(queue, e)[Len(queue) + 1] = e
    OBVIOUS
  <1>2. Queued(Append(queue, e)) \subseteq Queued(queue) \cup {e.id}
    BY <1>1 DEF Queued
  <1>3. Queued(queue) \cup {e.id} \subseteq Queued(Append(queue, e))
    <2>1. DOMAIN queue \subseteq DOMAIN Append(queue, e)
          /\ Len(queue) + 1 \in DOMAIN Append(queue, e) BY <1>1
    <2> QED BY <1>1, <2>1 DEF Queued
  <1> QED BY <1>1, <1>2, <1>3

(* What is left of a list to ask is again such a list. *)
LEMMA WantedPart ==
    ASSUME NEW w \in Wanted, NEW first \in DOMAIN w
    PROVE  SubSeq(w, first, Len(w)) \in Wanted
  <1>1. PICK n \in 1..MaxWanted : w \in [1..n -> Printers] BY DEF Wanted
  <1>2. n \in Nat /\ Len(w) = n /\ w \in Seq(Printers)
    BY <1>1, FirmwareDeployAssumption
  <1>3. first \in 1..n BY <1>1
  <1>4. SubSeq(w, first, Len(w)) \in [1 .. (n - first + 1) -> Printers]
    <2>1. first \in Int /\ n \in Int /\ first <= n /\ \A i \in first..n : w[i] \in Printers
      BY <1>1, <1>2, <1>3
    <2>2. /\ SubSeq(w, first, n) \in Seq(Printers)
          /\ Len(SubSeq(w, first, n)) = n - first + 1
      BY <2>1, SubSeqProperties
    <2> QED BY <1>2, <2>2, LenProperties
  <1>5. n - first + 1 \in 1..MaxWanted BY <1>2, <1>3, FirmwareDeployAssumption
  <1> QED BY <1>4, <1>5 DEF Wanted

(* The next printer to ask, and those after it. *)
LEMMA WantedHead ==
    ASSUME NEW w \in Wanted
    PROVE  /\ w # <<>> /\ Head(w) \in Printers /\ Head(w) = w[1]
           /\ Tail(w) \in Wanted \cup {<<>>}
  <1>1. PICK n \in 1..MaxWanted : w \in [1..n -> Printers] BY DEF Wanted
  <1>2. n \in Nat /\ n >= 1 /\ Len(w) = n /\ w \in Seq(Printers) /\ DOMAIN w = 1..n
    BY <1>1, FirmwareDeployAssumption
  <1>3. w # <<>> /\ Head(w) = w[1] /\ w[1] \in Printers BY <1>1, <1>2
  <1>4. Tail(w) \in [1 .. (n - 1) -> Printers]
    <2>1. Tail(w) \in Seq(Printers) /\ Len(Tail(w)) = n - 1
      BY <1>2, <1>3, HeadTailProperties
    <2> QED BY <2>1, LenProperties
  <1>5. CASE n = 1
    <2>1. Tail(w) = <<>>
      <3>1. Tail(w) \in Seq(Printers) /\ Len(Tail(w)) = 0
        BY <1>2, <1>3, <1>5, HeadTailProperties
      <3> QED BY <3>1, EmptySeq
    <2> QED BY <1>3, <2>1
  <1>6. CASE n > 1
    <2>1. n - 1 \in 1..MaxWanted BY <1>2, <1>6, FirmwareDeployAssumption
    <2> QED BY <1>3, <1>4, <2>1 DEF Wanted
  <1> QED BY <1>2, <1>5, <1>6

(* Every set of numbers that has an element has a least one. *)
LEMMA LeastOf ==
    ASSUME NEW S \in SUBSET Nat, S # {}
    PROVE  \E m \in S : \A j \in S : m <= j
  <1> DEFINE R == {ss \in Nat \X Nat : ss[1] < ss[2]}
  <1>1. IsWellFoundedOn(R, Nat) BY NatLessThanWellFounded DEF OpToRel
  <1> HIDE DEF R
  <1>2. PICK m \in S : \A j \in S : ~(<<j, m>> \in R) BY <1>1, WFMin
  <1>3. ASSUME NEW j \in S PROVE m <= j
    <2>1. m \in Nat /\ j \in Nat OBVIOUS
    <2>2. ~(j < m) BY <1>2, <2>1 DEF R
    <2> QED BY <2>1, <2>2
  <1> QED BY <1>3

(* What StillToAsk leaves is nothing or a list to ask. *)
LEMMA LeftToAsk ==
    ASSUME NEW w \in Wanted \cup {<<>>}, NEW queue
    PROVE  StillToAsk(w, queue) \in Wanted \cup {<<>>}
  <1> DEFINE free == {i \in DOMAIN w : w[i] \notin Queued(queue) /\ w[i] # FW_RUNNING}
             first == CHOOSE i \in free : \A j \in free : i <= j
  <1>1. CASE free = {} BY <1>1 DEF StillToAsk
  <1>2. CASE free # {}
    <2>1. w \in Wanted BY <1>2
    <2>2. PICK n \in 1..MaxWanted : w \in [1..n -> Printers] BY <2>1 DEF Wanted
    <2>3. free \subseteq Nat /\ n \in Nat /\ free \subseteq 1..n
      BY <2>2, FirmwareDeployAssumption
    <2>4. \E i \in free : \A j \in free : i <= j
      BY <1>2, <2>3, LeastOf
    <2>5. first \in DOMAIN w BY <2>4
    <2>6. StillToAsk(w, queue) = SubSeq(w, first, Len(w)) BY <1>2 DEF StillToAsk
    <2> HIDE DEF first
    <2> QED BY <2>1, <2>5, <2>6, WantedPart
  <1> QED BY <1>1, <1>2

-----------------------------------------------------------------------------
(* One record changes.                                                      *)

LEMMA PhaseChange ==
    ASSUME NEW records \in [Printers -> Records], NEW p \in Printers,
           NEW phase \in {"none", "queued", "rebooting"} \cup Running \cup Settled
    PROVE  LET new == [records EXCEPT ![p].phase = phase]
           IN  /\ new \in [Printers -> Records]
               /\ new[p].phase = phase /\ new[p].file = records[p].file
               /\ \A q \in Printers \ {p} : new[q] = records[q]
  <1>1. records[p] \in Records OBVIOUS
  <1>2. /\ [records[p] EXCEPT !.phase = phase] \in Records
        /\ [records[p] EXCEPT !.phase = phase].phase = phase
        /\ [records[p] EXCEPT !.phase = phase].file = records[p].file
    BY <1>1 DEF Records
  <1> QED BY <1>2

(* Of a printer that does not wait: the queue and the records still agree. *)
LEMMA WaitingTouched ==
    ASSUME NEW queue, NEW records, Waiting(queue, records),
           NEW new \in [Printers -> Records], NEW p \in Printers,
           p \notin Queued(queue), new[p].phase # "queued",
           \A q \in Printers \ {p} : new[q] = records[q]
    PROVE  Waiting(queue, new)
  <1>1. \A q \in Printers : new[q].phase = "queued" <=> q \in Queued(queue)
    BY DEF Waiting
  <1>2. ASSUME NEW i \in DOMAIN queue PROVE new[queue[i].id].file = queue[i].rel
    <2>1. queue[i].id \in Printers /\ queue[i].id \in Queued(queue)
      BY QueuedPrinters DEF Waiting, Queued
    <2> QED BY <2>1 DEF Waiting
  <1> QED BY <1>1, <1>2 DEF Waiting

(* Of a printer that is not being deployed to. *)
LEMMA RunnerTouched ==
    ASSUME NEW records, RunnerInv(records),
           NEW new, NEW p \in Printers,
           p # FW_RUNNING, new[p].phase \notin Running,
           \A q \in Printers \ {p} : new[q] = records[q]
    PROVE  RunnerInv(new)
  <1>1. CASE fwDraining = TRUE /\ RunningRecords(records, FW_RUNNING, deploy)
    BY <1>1 DEF RunnerInv, RunningRecords
  <1>2. CASE /\ fwDraining = FALSE /\ FW_RUNNING = None /\ deploy = NoDeploy
             /\ NoneRunning(records)
    BY <1>2 DEF RunnerInv, NoneRunning
  <1> QED BY <1>1, <1>2 DEF RunnerInv

(* A record that is settled, of a printer that is busy with nothing. *)
LEMMA FreeSettled ==
    ASSUME NEW queue, NEW records, Waiting(queue, records), RunnerInv(records),
           NEW p \in Printers, p \notin Queued(queue), p # FW_RUNNING,
           NEW phase \in Settled, NEW file \in Images \cup {None}
    PROVE  /\ Waiting(queue, fwSet(records, p, phase, file))
           /\ RunnerInv(fwSet(records, p, phase, file))
  <1> DEFINE new == fwSet(records, p, phase, file)
  <1>1. records \in [Printers -> Records] BY DEF Waiting
  <1>2. /\ new \in [Printers -> Records] /\ new[p].phase = phase
        /\ \A q \in Printers \ {p} : new[q] = records[q]
    BY <1>1 DEF fwSet, Records
  <1>3. phase # "queued" /\ phase \notin Running BY DEF Settled, Running
  <1> HIDE DEF new
  <1>4. Waiting(queue, new) BY <1>2, <1>3, WaitingTouched
  <1>5. RunnerInv(new) BY <1>2, <1>3, RunnerTouched
  <1> QED BY <1>4, <1>5 DEF new

(* A rebooting printer that answers is updated: it is busy with nothing. *)
LEMMA ObservedKeeps ==
    ASSUME NEW queue, Waiting(queue, FW_STATE), RunnerInv(FW_STATE),
           NEW p \in Printers, NEW machine
    PROVE  /\ Waiting(queue, firmwareNoteObserved(p, machine))
           /\ RunnerInv(firmwareNoteObserved(p, machine))
  <1>1. CASE Online(machine) /\ FW_STATE[p].phase = "rebooting"
    <2> DEFINE new == [FW_STATE EXCEPT ![p].phase = "updated"]
    <2>1. firmwareNoteObserved(p, machine) = new BY <1>1 DEF firmwareNoteObserved
    <2>2. FW_STATE \in [Printers -> Records] BY DEF Waiting
    <2>3. /\ new \in [Printers -> Records] /\ new[p].phase = "updated"
          /\ \A q \in Printers \ {p} : new[q] = FW_STATE[q]
      BY <2>2, PhaseChange DEF Settled
    <2>4. p \notin Queued(queue) BY <1>1 DEF Waiting
    <2>5. p # FW_RUNNING
      BY <1>1, FirmwareDeployAssumption DEF RunnerInv, RunningRecords, Running
    <2>6. "updated" # "queued" /\ "updated" \notin Running BY DEF Running
    <2> HIDE DEF new
    <2> QED BY <2>1, <2>3, <2>4, <2>5, <2>6, WaitingTouched, RunnerTouched
  <1>2. CASE ~(Online(machine) /\ FW_STATE[p].phase = "rebooting")
    BY <1>2 DEF firmwareNoteObserved
  <1> QED BY <1>1, <1>2

(* A claimed printer waits, as its record says. *)
LEMMA Claimed ==
    ASSUME NEW queue, NEW records, Waiting(queue, records), RunnerInv(records),
           NEW p \in Printers, p \notin Queued(queue), p # FW_RUNNING, NEW rel \in Images
    PROVE  /\ Waiting(Append(queue, [id |-> p, rel |-> rel]), fwSet(records, p, "queued", rel))
           /\ RunnerInv(fwSet(records, p, "queued", rel))
  <1> DEFINE e == [id |-> p, rel |-> rel]
             new == fwSet(records, p, "queued", rel)
             longer == Append(queue, e)
  <1>1. queue \in Seq(Entries) /\ records \in [Printers -> Records] BY DEF Waiting
  <1>2. e \in Entries /\ e.id = p /\ e.rel = rel BY DEF Entries
  <1>3. /\ new \in [Printers -> Records] /\ new[p].phase = "queued" /\ new[p].file = rel
        /\ \A q \in Printers \ {p} : new[q] = records[q]
    BY <1>1 DEF fwSet, Records
  <1> HIDE DEF e, new
  <1>4. /\ longer \in Seq(Entries) /\ Queued(longer) = Queued(queue) \cup {p}
        /\ DOMAIN longer = 1 .. (Len(queue) + 1) /\ DOMAIN queue = 1 .. Len(queue)
        /\ Len(queue) \in Nat /\ longer[Len(queue) + 1] = e
        /\ \A i \in DOMAIN queue : longer[i] = queue[i]
    BY <1>1, <1>2, AppendQueued, LenProperties
  <1>5. \A i \in DOMAIN queue : queue[i].id \in Queued(queue) /\ queue[i].id \in Printers
    BY <1>1, QueuedPrinters DEF Queued
  <1> HIDE DEF longer
  <1>6. \A i \in DOMAIN longer : i \in DOMAIN queue \/ i = Len(queue) + 1
    BY <1>4
  <1>7. \A i, j \in DOMAIN longer : longer[i].id = longer[j].id => i = j
    BY <1>2, <1>4, <1>5, <1>6 DEF Waiting
  <1>8. \A q \in Printers : new[q].phase = "queued" <=> q \in Queued(longer)
    BY <1>3, <1>4 DEF Waiting
  <1>9. ASSUME NEW i \in DOMAIN longer PROVE new[longer[i].id].file = longer[i].rel
    <2>1. CASE i \in DOMAIN queue
      <3>1. queue[i].id # p /\ queue[i].id \in Printers BY <1>5, <2>1
      <3> QED BY <1>3, <1>4, <2>1, <3>1 DEF Waiting
    <2>2. CASE i = Len(queue) + 1 BY <1>2, <1>3, <1>4, <2>2
    <2> QED BY <1>6, <2>1, <2>2
  <1>10. Waiting(longer, new) BY <1>3, <1>4, <1>7, <1>8, <1>9 DEF Waiting
  <1>11. RunnerInv(new) BY <1>3, RunnerTouched DEF Running
  <1> QED BY <1>10, <1>11 DEF longer, e, new

(* Where a printer stands in the queue, its record is queued; what is       *)
(* taken from the head of the queue is not in the rest of it.               *)
LEMMA Dequeued ==
    ASSUME NEW queue, NEW records, Waiting(queue, records), queue # <<>>,
           NEW new \in [Printers -> Records],
           new[Head(queue).id].phase # "queued",
           \A q \in Printers \ {Head(queue).id} : new[q] = records[q]
    PROVE  Waiting(Tail(queue), new)
  <1>1. queue \in Seq(Entries) BY DEF Waiting
  <1>2. /\ Tail(queue) \in Seq(Entries) /\ DOMAIN Tail(queue) = 1 .. (Len(queue) - 1)
        /\ Len(queue) \in Nat /\ 1 \in DOMAIN queue /\ Head(queue) = queue[1]
        /\ \A i \in DOMAIN Tail(queue) : i + 1 \in DOMAIN queue /\ Tail(queue)[i] = queue[i + 1]
    BY <1>1, HeadAndTail
  <1>3. Queued(Tail(queue)) = Queued(queue) \ {Head(queue).id}
    BY <1>1, TailQueued DEF Waiting
  <1>4. \A i \in DOMAIN queue : queue[i].id \in Printers
    BY <1>1, QueuedPrinters
  <1>5. \A i, j \in DOMAIN Tail(queue) : Tail(queue)[i].id = Tail(queue)[j].id => i = j
    <2> SUFFICES ASSUME NEW i \in DOMAIN Tail(queue), NEW j \in DOMAIN Tail(queue),
                        Tail(queue)[i].id = Tail(queue)[j].id
                 PROVE  i = j
      OBVIOUS
    <2>1. i + 1 = j + 1 BY <1>2 DEF Waiting
    <2> QED BY <1>2, <2>1
  <1>6. \A q \in Printers : new[q].phase = "queued" <=> q \in Queued(Tail(queue))
    BY <1>3 DEF Waiting
  <1>7. ASSUME NEW i \in DOMAIN Tail(queue)
        PROVE  new[Tail(queue)[i].id].file = Tail(queue)[i].rel
    <2>1. i + 1 # 1 /\ i + 1 \in DOMAIN queue /\ Tail(queue)[i] = queue[i + 1] BY <1>2
    <2>2. queue[i + 1].id # Head(queue).id BY <1>2, <2>1 DEF Waiting
    <2> QED BY <1>4, <2>1, <2>2 DEF Waiting
  <1> QED BY <1>2, <1>5, <1>6, <1>7 DEF Waiting

-----------------------------------------------------------------------------
(* The runner goes on, or ends.                                             *)

(* What a step of the runner or of the queue leaves behind. *)
Kept == Waiting(FW_QUEUE, FW_STATE) /\ RunnerInv(FW_STATE) /\ FW_STOP_REQUESTED \in BOOLEAN

(* A stop cancels every queued record and leaves none waiting. *)
LEMMA CancelledAll ==
    ASSUME NEW queue, NEW records, Waiting(queue, records), NoneRunning(records)
    PROVE  Waiting(<<>>, Stopped(queue, records)) /\ NoneRunning(Stopped(queue, records))
  <1> DEFINE new == Stopped(queue, records)
  <1>1. records \in [Printers -> Records] BY DEF Waiting
  <1>2. ASSUME NEW p \in Printers
        PROVE  /\ new[p] \in Records /\ new[p].phase # "queued"
               /\ new[p].phase \notin Running
    <2>1. records[p] \in Records BY <1>1
    <2>2. CASE p \in Queued(queue)
      <3>1. new[p] = [records[p] EXCEPT !.phase = "cancelled"] BY <2>2 DEF Stopped
      <3>2. [records[p] EXCEPT !.phase = "cancelled"] \in Records
            /\ [records[p] EXCEPT !.phase = "cancelled"].phase = "cancelled"
        BY <2>1 DEF Records, Settled
      <3> QED BY <3>1, <3>2 DEF Running
    <2>3. CASE p \notin Queued(queue)
      <3>1. new[p] = records[p] BY <2>3 DEF Stopped
      <3> QED BY <2>1, <2>3, <3>1 DEF Waiting, NoneRunning
    <2> QED BY <2>2, <2>3
  <1>3. new \in [Printers -> Records] BY <1>2 DEF Stopped
  <1>4. Queued(<<>>) = {} /\ DOMAIN <<>> = {} /\ <<>> \in Seq(Entries) BY DEF Queued
  <1> HIDE DEF new
  <1>5. Waiting(<<>>, new) BY <1>2, <1>3, <1>4 DEF Waiting
  <1>6. NoneRunning(new) BY <1>2 DEF NoneRunning
  <1> QED BY <1>5, <1>6 DEF new

(* From any agreeing queue with no deploy running, the loop's next round. *)
LEMMA RunnerGoesOn ==
    ASSUME NEW queue, NEW records, NEW stop \in BOOLEAN,
           Waiting(queue, records), NoneRunning(records), DrainNext(queue, records, stop)
    PROVE  Kept'
  <1>1. ASSUME NEW new, Waiting(<<>>, new), NoneRunning(new), DrainEnds(new)
        PROVE  Kept'
    BY <1>1 DEF DrainEnds, Kept, Waiting, RunnerInv, NoneRunning
  <1>2. CASE queue = <<>> /\ DrainEnds(records)
    BY <1>1, <1>2
  <1>3. CASE queue # <<>> /\ stop /\ DrainEnds(Stopped(queue, records))
    BY <1>1, <1>3, CancelledAll
  <1>4. CASE /\ queue # <<>> /\ ~stop
             /\ FW_RUNNING' = Head(queue).id
             /\ FW_QUEUE' = Tail(queue)
             /\ deploy' = [at |-> "check", rel |-> Head(queue).rel]
             /\ FW_STATE' = [records EXCEPT ![Head(queue).id].phase = "preparing"]
             /\ fwDraining' = TRUE /\ FW_STOP_REQUESTED' = stop
    <2> DEFINE p == Head(queue).id
    <2>1. queue \in Seq(Entries) /\ records \in [Printers -> Records] BY DEF Waiting
    <2>2. 1 \in DOMAIN queue /\ Head(queue) = queue[1] BY <1>4, <2>1, HeadAndTail
    <2>3. p \in Printers /\ Head(queue).rel \in Images BY <2>1, <2>2, QueuedPrinters
    <2>4. records[p].file = Head(queue).rel BY <2>2 DEF Waiting
    <2>5. "preparing" \in Running BY DEF Running
    <2>6. /\ FW_STATE' \in [Printers -> Records]
          /\ FW_STATE'[p].phase = "preparing" /\ FW_STATE'[p].file = records[p].file
          /\ \A q \in Printers \ {p} : FW_STATE'[q] = records[q]
      BY <1>4, <2>1, <2>3, <2>5, PhaseChange
    <2>7. Waiting(FW_QUEUE', FW_STATE') BY <1>4, <2>6, Dequeued
    <2>8. /\ deploy' \in [at : Points \ {"none"}, rel : Images] /\ deploy'.at = "check"
          /\ deploy'.rel = Head(queue).rel
      BY <1>4, <2>3 DEF Points
    <2>9. \A q \in Printers : FW_STATE'[q].phase \in Running <=> FW_RUNNING' = q
      BY <1>4, <2>5, <2>6 DEF NoneRunning
    <2> HIDE DEF p
    <2>10. RunnerInv(FW_STATE)'
      BY <1>4, <2>3, <2>4, <2>6, <2>8, <2>9 DEF RunnerInv, RunningRecords, p
    <2> QED BY <1>4, <2>7, <2>10 DEF Kept, Waiting
  <1> QED BY <1>2, <1>3, <1>4 DEF DrainNext

(* The same for a call made by a request, while the runner may be busy. *)
LEMMA DrainKeeps ==
    ASSUME NEW queue, NEW records, NEW stop \in BOOLEAN,
           Waiting(queue, records), RunnerInv(records),
           drainFirmwareQueue(queue, records, stop)
    PROVE  Kept'
  <1>1. CASE fwDraining = TRUE
    BY <1>1 DEF drainFirmwareQueue, Kept, Waiting, RunnerInv, RunningRecords, NoneRunning
  <1>2. CASE fwDraining = FALSE
    <2>1. NoneRunning(records) /\ DrainNext(queue, records, stop)
      BY <1>2 DEF drainFirmwareQueue, RunnerInv
    <2> QED BY <2>1, RunnerGoesOn
  <1> QED BY <1>1, <1>2 DEF RunnerInv

(* A deploy ends, however it went, and the loop goes on. *)
LEMMA DeployEnds ==
    ASSUME FirmwareInv, deploy.at # "none",
           NEW phase \in {"rebooting"} \cup Settled, Ends(phase)
    PROVE  Kept'
  <1>1. RunningRecords(FW_STATE, FW_RUNNING, deploy)
    BY DEF FirmwareInv, RunnerInv, NoDeploy
  <1>2. FW_STATE \in [Printers -> Records] /\ FW_RUNNING \in Printers
    BY <1>1 DEF FirmwareInv, Waiting, RunningRecords
  <1>3. phase # "queued" /\ phase \notin Running BY DEF Settled, Running
  <1> DEFINE new == Phase(FW_STATE, phase)
  <1>4. /\ new \in [Printers -> Records] /\ new[FW_RUNNING].phase = phase
        /\ \A q \in Printers \ {FW_RUNNING} : new[q] = FW_STATE[q]
    BY <1>2, PhaseChange DEF Phase
  <1>5. FW_RUNNING \notin Queued(FW_QUEUE)
    <2>1. FW_STATE[FW_RUNNING].phase \in Running BY <1>1 DEF RunningRecords
    <2> QED BY <1>2, <2>1 DEF FirmwareInv, Waiting, Running
  <1>6. DrainNext(FW_QUEUE, new, FW_STOP_REQUESTED) BY DEF Ends
  <1> HIDE DEF new
  <1>7. Waiting(FW_QUEUE, new) BY <1>2, <1>3, <1>4, <1>5, WaitingTouched DEF FirmwareInv
  <1>8. NoneRunning(new) BY <1>1, <1>3, <1>4 DEF NoneRunning, RunningRecords
  <1> QED BY <1>6, <1>7, <1>8, RunnerGoesOn DEF FirmwareInv

(* A deploy moves on, and its record shows the phase it is in. *)
LEMMA DeployGoes ==
    ASSUME FirmwareInv, deploy.at # "none", NEW at \in Points \ {"none"},
           NEW records, Goes(at, records),
           \/ /\ at \in {"upload", "verify", "flash"}
              /\ records = Phase(FW_STATE, at)
           \/ at = "beforeFlash" /\ records = FW_STATE
           \/ at = "resolve" /\ records = FW_STATE /\ deploy.at = "check"
    PROVE  Kept'
  <1>1. fwDraining = TRUE /\ RunningRecords(FW_STATE, FW_RUNNING, deploy)
    BY DEF FirmwareInv, RunnerInv, NoDeploy
  <1>2. FW_STATE \in [Printers -> Records] /\ FW_RUNNING \in Printers
    BY <1>1 DEF FirmwareInv, Waiting, RunningRecords
  <1>3. FW_STATE[FW_RUNNING].phase \in Running BY <1>1 DEF RunningRecords
  <1>4. FW_RUNNING \notin Queued(FW_QUEUE)
    BY <1>2, <1>3 DEF FirmwareInv, Waiting, Running
  <1>5. /\ deploy' \in [at : Points \ {"none"}, rel : Images]
        /\ deploy'.at = at /\ deploy'.rel = deploy.rel
    BY <1>1 DEF Goes, RunningRecords
  <1>6. /\ FW_STATE' = records /\ FW_RUNNING' = FW_RUNNING /\ FW_QUEUE' = FW_QUEUE
        /\ fwDraining' = TRUE /\ FW_STOP_REQUESTED' = FW_STOP_REQUESTED
    BY <1>1 DEF Goes
  <1>7. /\ Waiting(FW_QUEUE, records)
        /\ \A q \in Printers : records[q].phase \in Running <=> FW_RUNNING = q
        /\ at \in {"check", "resolve"} => records[FW_RUNNING].phase = "preparing"
        /\ at \in {"upload", "verify", "flash"} => records[FW_RUNNING].phase = at
        /\ records[FW_RUNNING].file = deploy.rel
    <2>1. CASE at \in {"upload", "verify", "flash"} /\ records = Phase(FW_STATE, at)
      <3>1. at \in Running /\ at # "queued" /\ at \notin {"check", "resolve"}
        BY <2>1 DEF Running
      <3>2. /\ records \in [Printers -> Records] /\ records[FW_RUNNING].phase = at
            /\ records[FW_RUNNING].file = FW_STATE[FW_RUNNING].file
            /\ \A q \in Printers \ {FW_RUNNING} : records[q] = FW_STATE[q]
        BY <1>2, <2>1, <3>1, PhaseChange DEF Phase
      <3>3. Waiting(FW_QUEUE, records)
        BY <1>2, <1>4, <3>1, <3>2, WaitingTouched DEF FirmwareInv
      <3> QED BY <1>1, <3>1, <3>2, <3>3 DEF RunningRecords
    <2>2. CASE at = "beforeFlash" /\ records = FW_STATE
      BY <1>1, <2>2 DEF FirmwareInv, RunningRecords
    <2>3. CASE at = "resolve" /\ records = FW_STATE /\ deploy.at = "check"
      BY <1>1, <2>3 DEF FirmwareInv, RunningRecords
    <2> QED BY <2>1, <2>2, <2>3
  <1>8. Waiting(FW_QUEUE, FW_STATE)' BY <1>6, <1>7
  <1>9. RunnerInv(FW_STATE)'
    BY <1>2, <1>5, <1>6, <1>7 DEF RunnerInv, RunningRecords
  <1> QED BY <1>6, <1>8, <1>9 DEF Kept, FirmwareInv

-----------------------------------------------------------------------------
(* A request goes on to its next printer, or ends and sees to the runner.   *)

LEMMA ProceedKeeps ==
    ASSUME FirmwareInv, NEW r \in Requests, request[r].at # "none",
           NEW wanted \in Wanted \cup {<<>>}, NEW accepted \in BOOLEAN,
           NEW queue, NEW records, Waiting(queue, records), RunnerInv(records),
           Proceed(r, wanted, accepted, queue, records)
    PROVE  FirmwareInv'
  <1> DEFINE left == StillToAsk(wanted, queue)
  <1>1. left \in Wanted \cup {<<>>} BY LeftToAsk
  <1>2. request \in [Requests -> RequestRecords] /\ request[r].rel \in Images
    BY DEF FirmwareInv, RequestsInv
  <1>3. ASSUME FW_QUEUE' = queue, FW_STATE' = records,
               UNCHANGED <<FW_RUNNING, FW_STOP_REQUESTED, fwDraining, deploy>>
        PROVE  Kept'
    BY <1>3 DEF Kept, FirmwareInv, Waiting, RunnerInv, RunningRecords, NoneRunning
  <1>4. CASE left # <<>>
    <2>1. request' = [request EXCEPT ![r].at = "probe", ![r].wanted = left,
                                     ![r].accepted = accepted]
      BY <1>4 DEF Proceed
    <2>2. Kept' BY <1>3, <1>4 DEF Proceed
    <2>3. request[r] \in RequestRecords BY <1>2
    <2>4. /\ request' \in [Requests -> RequestRecords]
          /\ request'[r].wanted = left /\ request'[r].rel = request[r].rel
          /\ \A q \in Requests \ {r} : request'[q] = request[q]
      BY <1>1, <1>2, <2>1, <2>3 DEF RequestRecords
    <2>5. RequestsInv'
      <3> HIDE DEF left
      <3> QED BY <1>1, <1>2, <1>4, <2>4 DEF RequestsInv, FirmwareInv
    <2> QED BY <2>2, <2>5 DEF Kept, FirmwareInv
  <1>5. CASE left = <<>>
    <2>1. request' = [request EXCEPT ![r] = NoRequest] BY <1>5 DEF Proceed
    <2>2. NoRequest \in RequestRecords /\ NoRequest.at = "none"
      BY DEF NoRequest, RequestRecords
    <2>3. RequestsInv' BY <1>2, <2>1, <2>2 DEF RequestsInv, FirmwareInv
    <2>4. CASE accepted
      <3>1. drainFirmwareQueue(queue, records, FALSE) BY <1>5, <2>4 DEF Proceed
      <3>2. Kept' BY <3>1, DrainKeeps
      <3> QED BY <2>3, <3>2 DEF Kept, FirmwareInv
    <2>5. CASE ~accepted
      <3>1. Kept' BY <1>3, <1>5, <2>5 DEF Proceed
      <3> QED BY <2>3, <3>1 DEF Kept, FirmwareInv
    <2> QED BY <2>4, <2>5
  <1> QED BY <1>4, <1>5

(* A rejection shows only on a printer that is busy with nothing. *)
LEMMA RejectedKeeps ==
    ASSUME NEW records, Waiting(FW_QUEUE, records), RunnerInv(records),
           NEW p \in Printers, NEW rel \in Images
    PROVE  /\ Waiting(FW_QUEUE, Rejected(p, rel, records))
           /\ RunnerInv(Rejected(p, rel, records))
  <1>1. CASE fwBusyWith(p) BY <1>1 DEF Rejected
  <1>2. CASE ~fwBusyWith(p)
    <2>1. "rejected" \in Settled BY DEF Settled
    <2>2. p \notin Queued(FW_QUEUE) /\ p # FW_RUNNING BY <1>2 DEF fwBusyWith
    <2>3. Rejected(p, rel, records) = fwSet(records, p, "rejected", rel)
      BY <1>2 DEF Rejected
    <2> QED BY <2>1, <2>2, <2>3, FreeSettled
  <1> QED BY <1>1, <1>2

(* What a request that is being served knows. *)
LEMMA BeingServed ==
    ASSUME FirmwareInv, NEW r \in Requests, request[r].at # "none"
    PROVE  /\ Asked(r) \in Printers /\ request[r].rel \in Images
           /\ Tail(request[r].wanted) \in Wanted \cup {<<>>}
           /\ request[r].accepted \in BOOLEAN
  <1>1. request[r].wanted \in Wanted /\ request[r].rel \in Images
    BY DEF FirmwareInv, RequestsInv
  <1>2. request[r].accepted \in BOOLEAN
    BY DEF FirmwareInv, RequestsInv, RequestRecords
  <1> QED BY <1>1, <1>2, WantedHead DEF Asked

-----------------------------------------------------------------------------
(* The actions, one after the other.                                        *)

LEMMA InitKeeps == Init => FirmwareInv
  <1> SUFFICES ASSUME Init PROVE FirmwareInv OBVIOUS
  <1>1. Queued(<<>>) = {} /\ DOMAIN <<>> = {} /\ <<>> \in Seq(Entries) BY DEF Queued
  <1>2. \A p \in Printers : FW_STATE[p].phase = "none" BY DEF Init, NoRecord
  <1>3. FW_STATE \in [Printers -> Records] BY DEF Init, NoRecord, Records
  <1>4. Waiting(FW_QUEUE, FW_STATE) BY <1>1, <1>2, <1>3 DEF Init, Waiting
  <1>5. RunnerInv(FW_STATE) BY <1>2 DEF Init, RunnerInv, NoneRunning, Running
  <1>6. NoRequest \in RequestRecords /\ NoRequest.at = "none"
    BY DEF NoRequest, RequestRecords
  <1>7. RequestsInv BY <1>6 DEF Init, RequestsInv
  <1> QED BY <1>4, <1>5, <1>7 DEF Init, FirmwareInv

(* A request arrives: it only parks. *)
LEMMA RequestBegins ==
    ASSUME FirmwareInv, NEW r \in Requests, NEW rel \in Images, NEW wanted \in Wanted,
           firmwareDeploy(r, rel, wanted)
    PROVE  FirmwareInv'
  <1> DEFINE left == StillToAsk(wanted, FW_QUEUE)
             new  == [at |-> "probe", rel |-> rel, wanted |-> left, accepted |-> FALSE]
  <1>1. left \in Wanted BY LeftToAsk DEF firmwareDeploy
  <1>2. request' = [request EXCEPT ![r] = new] BY DEF firmwareDeploy
  <1>3. new \in RequestRecords /\ new.wanted \in Wanted /\ new.rel \in Images
    BY <1>1 DEF RequestRecords
  <1> HIDE DEF new
  <1>4. RequestsInv' BY <1>2, <1>3 DEF FirmwareInv, RequestsInv
  <1>5. UNCHANGED <<FW_STATE, FW_QUEUE, FW_RUNNING, FW_STOP_REQUESTED, fwDraining, deploy>>
    BY DEF firmwareDeploy, runner
  <1> QED BY <1>4, <1>5
          DEF FirmwareInv, Waiting, RunnerInv, RunningRecords, NoneRunning

(* A probe answers a request: rejected, or asked for its device. *)
LEMMA ProbedKeeps ==
    ASSUME FirmwareInv, NEW r \in Requests, NEW machine, RequestProbed(r, machine)
    PROVE  FirmwareInv'
  <1> DEFINE p == Asked(r)
             seen == firmwareNoteObserved(p, machine)
  <1>1. request[r].at # "none" BY DEF RequestProbed
  <1>2. /\ p \in Printers /\ request[r].rel \in Images
        /\ Tail(request[r].wanted) \in Wanted \cup {<<>>} /\ request[r].accepted \in BOOLEAN
    BY <1>1, BeingServed
  <1>3. Waiting(FW_QUEUE, seen) /\ RunnerInv(seen)
    BY <1>2, ObservedKeeps DEF FirmwareInv
  <1>4. CASE firmwareDeployBlockedBy(p, machine)
    <2>1. Proceed(r, Tail(request[r].wanted), request[r].accepted, FW_QUEUE,
                  Rejected(p, request[r].rel, seen))
      BY <1>4 DEF RequestProbed
    <2>2. /\ Waiting(FW_QUEUE, Rejected(p, request[r].rel, seen))
          /\ RunnerInv(Rejected(p, request[r].rel, seen))
      BY <1>2, <1>3, RejectedKeeps
    <2> HIDE DEF seen, p
    <2> QED BY <1>1, <1>2, <2>1, <2>2, ProceedKeeps
  <1>5. CASE ~firmwareDeployBlockedBy(p, machine)
    <2>1. /\ request' = [request EXCEPT ![r].at = "device"] /\ FW_STATE' = seen
          /\ UNCHANGED <<FW_QUEUE, FW_RUNNING, FW_STOP_REQUESTED, fwDraining, deploy>>
      BY <1>5 DEF RequestProbed, runner
    <2> HIDE DEF seen
    <2>2. Waiting(FW_QUEUE, FW_STATE)' BY <1>3, <2>1
    <2>3. RunnerInv(FW_STATE)'
      BY <1>3, <2>1 DEF RunnerInv, RunningRecords, NoneRunning
    <2>4. request \in [Requests -> RequestRecords] BY DEF FirmwareInv, RequestsInv
    <2>5. request[r] \in RequestRecords BY <2>4
    <2>6. /\ request' \in [Requests -> RequestRecords]
          /\ request'[r].wanted = request[r].wanted /\ request'[r].rel = request[r].rel
          /\ \A q \in Requests \ {r} : request'[q] = request[q]
      BY <2>1, <2>4, <2>5 DEF RequestRecords
    <2>7. RequestsInv' BY <1>1, <2>6 DEF FirmwareInv, RequestsInv
    <2> QED BY <2>1, <2>2, <2>3, <2>7 DEF FirmwareInv
  <1> QED BY <1>4, <1>5

(* A request rejects, skips or claims, on what holds at this moment. *)
LEMMA ClaimKeeps ==
    ASSUME FirmwareInv, NEW r \in Requests, RequestClaims(r)
    PROVE  FirmwareInv'
  <1> DEFINE p == Asked(r)
             rel == request[r].rel
             rest == Tail(request[r].wanted)
             acc == request[r].accepted
  <1>1. request[r].at # "none" BY DEF RequestClaims
  <1>2. p \in Printers /\ rel \in Images /\ rest \in Wanted \cup {<<>>} /\ acc \in BOOLEAN
    BY <1>1, BeingServed
  <1>3. Waiting(FW_QUEUE, FW_STATE) /\ RunnerInv(FW_STATE) BY DEF FirmwareInv
  <1>4. \/ Proceed(r, rest, acc, FW_QUEUE, Rejected(p, rel, FW_STATE))
        \/ ~fwBusyWith(p) /\ Proceed(r, rest, acc, FW_QUEUE, fwSet(FW_STATE, p, "skipped", rel))
        \/ ~fwBusyWith(p) /\ Proceed(r, rest, TRUE, Append(FW_QUEUE, [id |-> p, rel |-> rel]),
                                      fwSet(FW_STATE, p, "queued", rel))
    BY DEF RequestClaims
  <1> HIDE DEF p, rel, rest, acc
  <1>5. CASE Proceed(r, rest, acc, FW_QUEUE, Rejected(p, rel, FW_STATE))
    <2>1. /\ Waiting(FW_QUEUE, Rejected(p, rel, FW_STATE))
          /\ RunnerInv(Rejected(p, rel, FW_STATE))
      BY <1>2, <1>3, RejectedKeeps
    <2> QED BY <1>1, <1>2, <1>5, <2>1, ProceedKeeps
  <1>6. CASE ~fwBusyWith(p) /\ Proceed(r, rest, acc, FW_QUEUE,
                                       fwSet(FW_STATE, p, "skipped", rel))
    <2>1. "skipped" \in Settled /\ p \notin Queued(FW_QUEUE) /\ p # FW_RUNNING
      BY <1>6 DEF Settled, fwBusyWith
    <2>2. /\ Waiting(FW_QUEUE, fwSet(FW_STATE, p, "skipped", rel))
          /\ RunnerInv(fwSet(FW_STATE, p, "skipped", rel))
      BY <1>2, <1>3, <2>1, FreeSettled
    <2> QED BY <1>1, <1>2, <1>6, <2>2, ProceedKeeps
  <1>7. CASE ~fwBusyWith(p) /\ Proceed(r, rest, TRUE, Append(FW_QUEUE, [id |-> p, rel |-> rel]),
                                       fwSet(FW_STATE, p, "queued", rel))
    <2>1. p \notin Queued(FW_QUEUE) /\ p # FW_RUNNING BY <1>7 DEF fwBusyWith
    <2>2. /\ Waiting(Append(FW_QUEUE, [id |-> p, rel |-> rel]), fwSet(FW_STATE, p, "queued", rel))
          /\ RunnerInv(fwSet(FW_STATE, p, "queued", rel))
      BY <1>2, <1>3, <2>1, Claimed
    <2> QED BY <1>1, <1>2, <1>7, <2>2, ProceedKeeps
  <1> QED BY <1>4, <1>5, <1>6, <1>7

(* Every step of the runner. *)
LEMMA DeployStepKeeps ==
    ASSUME FirmwareInv, DeployStep
    PROVE  FirmwareInv'
  <1>1. RequestsInv' BY DEF DeployStep, FirmwareInv, RequestsInv
  <1>2. ASSUME deploy.at # "none", Ends("failed") \/ Ends("updated") \/ Ends("rebooting")
        PROVE  Kept'
    BY <1>2, DeployEnds DEF Settled
  <1>3. ASSUME NEW at \in {"upload", "verify", "flash"}, deploy.at # "none",
               Goes(at, Phase(FW_STATE, at))
        PROVE  Kept'
    <2>1. at \in Points \ {"none"} BY DEF Points
    <2> QED BY <1>3, <2>1, DeployGoes
  <1>4. ASSUME deploy.at # "none", Goes("beforeFlash", FW_STATE)
        PROVE  Kept'
    <2>1. "beforeFlash" \in Points \ {"none"} BY DEF Points
    <2> QED BY <1>4, <2>1, DeployGoes
  <1>5. ASSUME NEW machine, DeployChecked(machine) PROVE Kept'
    <2>1. CASE Ends("failed") BY <1>2, <1>5, <2>1 DEF DeployChecked
    <2>2. CASE Goes("resolve", FW_STATE)
      <3>1. "resolve" \in Points \ {"none"} /\ deploy.at = "check"
        BY <1>5 DEF Points, DeployChecked
      <3> QED BY <2>2, <3>1, DeployGoes
    <2> QED BY <1>5, <2>1, <2>2 DEF DeployChecked
  <1>6. ASSUME NEW machine, DeployFlashes(machine) PROVE Kept'
    BY <1>2, <1>3, <1>6 DEF DeployFlashes
  <1>7. ASSUME DeployResolved PROVE Kept' BY <1>2, <1>3, <1>7 DEF DeployResolved
  <1>8. ASSUME DeployUploaded PROVE Kept' BY <1>2, <1>3, <1>4, <1>8 DEF DeployUploaded
  <1>9. ASSUME DeployVerified PROVE Kept' BY <1>2, <1>4, <1>9 DEF DeployVerified
  <1>10. ASSUME DeployFlashed PROVE Kept' BY <1>2, <1>10 DEF DeployFlashed
  <1>11. Kept' BY <1>5, <1>6, <1>7, <1>8, <1>9, <1>10 DEF DeployStep
  <1> QED BY <1>1, <1>11 DEF Kept, FirmwareInv

(* An old record is dropped. *)
LEMMA ExpiryKeeps ==
    ASSUME FirmwareInv, NEW p \in Printers, RecordExpires(p)
    PROVE  FirmwareInv'
  <1>1. FW_STATE \in [Printers -> Records] BY DEF FirmwareInv, Waiting
  <1>2. FW_STATE' = [FW_STATE EXCEPT ![p] = NoRecord] BY DEF RecordExpires
  <1>3. NoRecord \in Records /\ NoRecord.phase = "none" BY DEF NoRecord, Records
  <1>4. /\ FW_STATE' \in [Printers -> Records] /\ FW_STATE'[p].phase = "none"
        /\ \A q \in Printers \ {p} : FW_STATE'[q] = FW_STATE[q]
    BY <1>1, <1>2, <1>3
  <1>5. p \notin Queued(FW_QUEUE) /\ p # FW_RUNNING BY DEF RecordExpires, fwBusyWith
  <1>6. Waiting(FW_QUEUE, FW_STATE') BY <1>4, <1>5, WaitingTouched DEF FirmwareInv
  <1>7. RunnerInv(FW_STATE') BY <1>4, <1>5, RunnerTouched DEF FirmwareInv, Running
  <1>8. UNCHANGED <<FW_QUEUE, FW_RUNNING, FW_STOP_REQUESTED, fwDraining, deploy, request>>
    BY DEF RecordExpires, runner
  <1> QED BY <1>6, <1>7, <1>8
          DEF FirmwareInv, Waiting, RunnerInv, RunningRecords, NoneRunning, RequestsInv

(* A fleet poll observes a printer. *)
LEMMA FleetKeeps ==
    ASSUME FirmwareInv, NEW p \in Printers, NEW machine, FleetProbe(p, machine)
    PROVE  FirmwareInv'
  <1>1. FW_STATE' = firmwareNoteObserved(p, machine) BY DEF FleetProbe
  <1>2. Waiting(FW_QUEUE, FW_STATE') /\ RunnerInv(FW_STATE')
    BY <1>1, ObservedKeeps DEF FirmwareInv
  <1>3. UNCHANGED <<FW_QUEUE, FW_RUNNING, FW_STOP_REQUESTED, fwDraining, deploy, request>>
    BY DEF FleetProbe, runner
  <1> QED BY <1>2, <1>3
          DEF FirmwareInv, Waiting, RunnerInv, RunningRecords, NoneRunning, RequestsInv

(* The invariant is inductive. *)
LEMMA NextKeeps == FirmwareInv /\ [Next]_vars => FirmwareInv'
  <1> SUFFICES ASSUME FirmwareInv, [Next]_vars PROVE FirmwareInv' OBVIOUS
  <1>1. CASE \E r \in Requests, rel \in Images, wanted \in Wanted : firmwareDeploy(r, rel, wanted)
    BY <1>1, RequestBegins
  <1>2. CASE \E r \in Requests : RequestStep(r)
    BY <1>2, ProbedKeeps, ClaimKeeps DEF RequestStep
  <1>3. CASE DeployStep BY <1>3, DeployStepKeeps
  <1>4. CASE firmwareStop
    BY <1>4 DEF firmwareStop, FirmwareInv, Waiting, RunnerInv, RunningRecords,
                NoneRunning, RequestsInv
  <1>5. CASE \E p \in Printers :
               RecordExpires(p) \/ \E machine \in MachineStates : FleetProbe(p, machine)
    BY <1>5, ExpiryKeeps, FleetKeeps
  <1>6. CASE UNCHANGED vars
    BY <1>6 DEF vars, runner, FirmwareInv, Waiting, RunnerInv, RunningRecords,
                NoneRunning, RequestsInv
  <1> QED BY <1>1, <1>2, <1>3, <1>4, <1>5, <1>6 DEF Next

(* The queue, the records and the runner agree in every reachable state.    *)
THEOREM FirmwareInvariant == Spec => []FirmwareInv
  BY InitKeeps, NextKeeps, PTL DEF Spec

-----------------------------------------------------------------------------
(* What follows from it.                                                    *)

(* The state of a firmware deploy has its types. *)
THEOREM FirmwareTypes == Spec => []TypeOK
  <1>1. FirmwareInv => TypeOK
    <2> SUFFICES ASSUME FirmwareInv PROVE TypeOK OBVIOUS
    <2>1. FW_STATE \in [Printers -> Records] /\ FW_QUEUE \in Seq(Entries)
      BY DEF FirmwareInv, Waiting
    <2>2. FW_RUNNING \in Printers \cup {None} /\ fwDraining \in BOOLEAN
      BY DEF FirmwareInv, RunnerInv, RunningRecords
    <2>3. deploy \in [at : Points, rel : Images \cup {None}]
      <3>1. CASE deploy = NoDeploy BY <3>1 DEF NoDeploy, Points
      <3>2. CASE deploy \in [at : Points \ {"none"}, rel : Images] BY <3>2
      <3> QED BY <3>1, <3>2 DEF FirmwareInv, RunnerInv, RunningRecords
    <2> QED BY <2>1, <2>2, <2>3 DEF FirmwareInv, TypeOK, RequestsInv, RequestRecords
  <1> QED BY <1>1, FirmwareInvariant, PTL

(* However many requests name a printer at once, it is in the queue once at *)
(* most and never while it is being deployed to.                            *)
THEOREM NeverQueuedTwiceHolds == Spec => []NeverQueuedTwice
  <1>1. FirmwareInv => NeverQueuedTwice
    <2> SUFFICES ASSUME FirmwareInv PROVE NeverQueuedTwice OBVIOUS
    <2>1. CASE FW_RUNNING \in Printers
      <3>1. FW_STATE[FW_RUNNING].phase \in Running
        BY <2>1, FirmwareDeployAssumption DEF FirmwareInv, RunnerInv, RunningRecords
      <3> QED BY <2>1, <3>1 DEF FirmwareInv, Waiting, Running, NeverQueuedTwice
    <2>2. CASE FW_RUNNING = None
      BY <2>2, QueuedPrinters, FirmwareDeployAssumption
      DEF FirmwareInv, Waiting, NeverQueuedTwice
    <2> QED BY <2>1, <2>2 DEF FirmwareInv, RunnerInv, RunningRecords
  <1> QED BY <1>1, FirmwareInvariant, PTL

(* A record is queued exactly while its printer waits, and in a running     *)
(* phase, the right one, exactly while its printer is deployed to.          *)
THEOREM RecordsAreTrue == Spec => []RecordsTellTheTruth
  <1>1. FirmwareInv => RecordsTellTheTruth
    <2> SUFFICES ASSUME FirmwareInv, NEW p \in Printers
                 PROVE  /\ FW_STATE[p].phase = "queued" <=> p \in Queued(FW_QUEUE)
                        /\ FW_STATE[p].phase \in Running <=> FW_RUNNING = p
                        /\ FW_RUNNING = p => FW_STATE[p].phase =
                              CASE deploy.at \in {"check", "resolve"} -> "preparing"
                                [] deploy.at \in {"upload", "verify", "flash"} -> deploy.at
                                [] OTHER -> FW_STATE[p].phase
      BY DEF RecordsTellTheTruth
    <2>1. FW_STATE[p].phase = "queued" <=> p \in Queued(FW_QUEUE)
      BY DEF FirmwareInv, Waiting
    <2>2. CASE RunningRecords(FW_STATE, FW_RUNNING, deploy)
      BY <2>1, <2>2 DEF RunningRecords
    <2>3. CASE FW_RUNNING = None /\ NoneRunning(FW_STATE)
      BY <2>1, <2>3, FirmwareDeployAssumption DEF NoneRunning
    <2> QED BY <2>2, <2>3 DEF FirmwareInv, RunnerInv
  <1> QED BY <1>1, FirmwareInvariant, PTL

(* Each printer is given the image its own request named. *)
THEOREM OwnImageGiven == Spec => []OwnImage
  <1>1. FirmwareInv => OwnImage
    BY DEF FirmwareInv, Waiting, RunnerInv, RunningRecords, OwnImage
  <1> QED BY <1>1, FirmwareInvariant, PTL
=============================================================================
