--------------------------- MODULE FirmwareDeploy ---------------------------
(***************************************************************************)
(* The firmware deploy of server.js, lines 816-1295: requests that name     *)
(* printers and an image, one queue, one runner that deploys printer after  *)
(* printer, the record each printer's progress is shown from, and the stop. *)
(*                                                                          *)
(* Every await is a step boundary: several requests can be parked between   *)
(* their probes while the runner is in any phase of a deploy.  What runs    *)
(* without an await is one action.  An image stands for all that a queue    *)
(* entry carries of its request: the file, the actor and the verification.  *)
(***************************************************************************)
EXTENDS Naturals, Sequences

CONSTANTS
    Printers,      \* printers that can be deployed to
    InMaintenance, \* those an operator has put into maintenance mode
    Images,        \* images in the firmware folder
    Requests,      \* slots for deploy requests being served at once
    MaxWanted,     \* bound: printers one request names
    None

ASSUME FirmwareDeployAssumption ==
    InMaintenance \subseteq Printers /\ MaxWanted \in Nat /\ None \notin Printers

VARIABLES
    FW_STATE,   \* printer -> its record
    FW_QUEUE, FW_RUNNING, FW_STOP_REQUESTED, fwDraining,
    deploy,     \* where runFirmwareDeploy is, and the image it was given
    request     \* where each /api/firmware-deploy handler is parked

runner == <<FW_QUEUE, FW_RUNNING, FW_STOP_REQUESTED, fwDraining, deploy>>
vars   == <<FW_STATE, runner, request>>

(* What a machine may be found doing when it answers a probe: anything, at  *)
(* any time, since prints start and end at it and over the network without  *)
(* this code.  Printing stands for paused and for a fault: all three block. *)
MachineStates == {"standby", "printing", "offline"}
Running == {"preparing", "upload", "verify", "flash"}
Settled == {"updated", "failed", "skipped", "cancelled", "rejected"}
Records == [phase : {"none", "queued", "rebooting"} \cup Running \cup Settled,
            file  : Images \cup {None}]
Entries == [id : Printers, rel : Images]
Points  == {"none", "check", "resolve", "upload", "verify", "beforeFlash", "flash"}

NoDeploy  == [at |-> "none", rel |-> None]
NoRequest == [at |-> "none", rel |-> None, wanted |-> <<>>, accepted |-> FALSE]
NoRecord  == [phase |-> "none", file |-> None]

Wanted == UNION {[1..n -> Printers] : n \in 1..MaxWanted}

TypeOK ==
    /\ FW_STATE \in [Printers -> Records]
    /\ FW_QUEUE \in Seq(Entries)
    /\ FW_RUNNING \in Printers \cup {None}
    /\ FW_STOP_REQUESTED \in BOOLEAN /\ fwDraining \in BOOLEAN
    /\ deploy \in [at : Points, rel : Images \cup {None}]
    /\ request \in [Requests -> [at : {"none", "probe", "device"}, rel : Images \cup {None},
                                 wanted : Wanted \cup {<<>>}, accepted : BOOLEAN]]

Init ==
    /\ FW_STATE = [p \in Printers |-> NoRecord]
    /\ FW_QUEUE = <<>> /\ FW_RUNNING = None
    /\ FW_STOP_REQUESTED = FALSE /\ fwDraining = FALSE
    /\ deploy = NoDeploy
    /\ request = [r \in Requests |-> NoRequest]

-----------------------------------------------------------------------------
(* The questions the code asks *)

Queued(queue) == {queue[i].id : i \in DOMAIN queue}

fwBusyWith(p) == FW_RUNNING = p \/ p \in Queued(FW_QUEUE)

(* What the fleet shows instead of the machine's own state: the machine is  *)
(* taken to come back within the grace time.                                *)
firmwareCardState(p) ==
    CASE FW_STATE[p].phase = "rebooting" -> "rebooting"
      [] FW_STATE[p].phase # "rebooting" /\ FW_STATE[p].phase # "none" /\ fwBusyWith(p) -> "updating"
      [] OTHER -> "none"

Online(machine) == machine # "offline"

(* The state probeCached answers with, after firmwareNoteObserved. *)
probeCached(p, machine) ==
    IF firmwareCardState(p) = "updating" THEN "updating"
    ELSE IF p \in InMaintenance THEN "maintenance"
    ELSE machine

firmwareDeployBlockedBy(p, machine) ==
    ~Online(machine) \/ probeCached(p, machine) = "printing"

fwSet(records, p, phase, file) == [records EXCEPT ![p] = [phase |-> phase, file |-> file]]

(* A printer that answers has finished rebooting. *)
firmwareNoteObserved(p, machine) ==
    IF Online(machine) /\ FW_STATE[p].phase = "rebooting"
    THEN [FW_STATE EXCEPT ![p].phase = "updated"] ELSE FW_STATE
-----------------------------------------------------------------------------
(* drainFirmwareQueue, from the top of its loop to the next await: the     *)
(* queue and the records it starts from are given.                         *)

Stopped(queue, records) ==
    [p \in Printers |->
        IF p \in Queued(queue) THEN [records[p] EXCEPT !.phase = "cancelled"] ELSE records[p]]

DrainEnds(records) ==
    /\ FW_STATE' = records
    /\ FW_QUEUE' = <<>> /\ FW_RUNNING' = None /\ deploy' = NoDeploy
    /\ fwDraining' = FALSE /\ FW_STOP_REQUESTED' = FALSE

(* Mutants: the runner takes the entry for the printer; it carries on with  *)
(* the image of the deploy before.                                          *)
DrainEntry(queue, records, stop) ==
    \/ queue = <<>> /\ DrainEnds(records)
    \/ /\ queue # <<>>
       /\ FW_RUNNING' = Head(queue) /\ FW_QUEUE' = Tail(queue)
       /\ deploy' = [at |-> "check", rel |-> Head(queue).rel]
       /\ FW_STATE' = records /\ fwDraining' = TRUE /\ FW_STOP_REQUESTED' = stop

DrainSameImage(queue, records, stop) ==
    \/ (queue = <<>> \/ stop) /\ DrainEnds(Stopped(queue, records))
    \/ /\ queue # <<>> /\ ~stop
       /\ FW_RUNNING' = Head(queue).id /\ FW_QUEUE' = Tail(queue)
       /\ deploy' = [at |-> "check",
                     rel |-> IF deploy.rel # None THEN deploy.rel ELSE Head(queue).rel]
       /\ FW_STATE' = [records EXCEPT ![Head(queue).id].phase = "preparing"]
       /\ fwDraining' = TRUE /\ FW_STOP_REQUESTED' = stop

DrainNext(queue, records, stop) ==
    \/ queue = <<>> /\ DrainEnds(records)
    \/ queue # <<>> /\ stop /\ DrainEnds(Stopped(queue, records))
    \/ /\ queue # <<>> /\ ~stop
       /\ FW_RUNNING' = Head(queue).id
       /\ FW_QUEUE' = Tail(queue)
       /\ deploy' = [at |-> "check", rel |-> Head(queue).rel]
       /\ FW_STATE' = [records EXCEPT ![Head(queue).id].phase = "preparing"]
       /\ fwDraining' = TRUE /\ FW_STOP_REQUESTED' = stop

drainFirmwareQueue(queue, records, stop) ==
    IF fwDraining
    THEN /\ FW_QUEUE' = queue /\ FW_STATE' = records /\ FW_STOP_REQUESTED' = stop
         /\ UNCHANGED <<FW_RUNNING, fwDraining, deploy>>
    ELSE DrainNext(queue, records, stop)

-----------------------------------------------------------------------------
(* POST /api/firmware-deploy.  The image has been resolved and inspected.   *)

(* The printers still to ask: one that is busy at this moment is turned     *)
(* away without a record.                                                   *)
StillToAsk(wanted, queue) ==
    LET free  == {i \in DOMAIN wanted :
                    wanted[i] \notin Queued(queue) /\ wanted[i] # FW_RUNNING}
        first == CHOOSE i \in free : \A j \in free : i <= j
    IN  IF free = {} THEN <<>> ELSE SubSeq(wanted, first, Len(wanted))

(* From here to the probe of the next printer, or to the end of the request. *)
Proceed(r, wanted, accepted, queue, records) ==
    LET left == StillToAsk(wanted, queue)
    IN  IF left # <<>>
        THEN /\ request' = [request EXCEPT ![r].at = "probe", ![r].wanted = left,
                                           ![r].accepted = accepted]
             /\ FW_QUEUE' = queue /\ FW_STATE' = records
             /\ UNCHANGED <<FW_RUNNING, FW_STOP_REQUESTED, fwDraining, deploy>>
        ELSE /\ request' = [request EXCEPT ![r] = NoRequest]
             /\ IF accepted
                THEN drainFirmwareQueue(queue, records, FALSE)
                ELSE /\ FW_QUEUE' = queue /\ FW_STATE' = records
                     /\ UNCHANGED <<FW_RUNNING, FW_STOP_REQUESTED, fwDraining, deploy>>

firmwareDeploy(r, rel, wanted) ==
    /\ request[r].at = "none"
    /\ LET left == StillToAsk(wanted, FW_QUEUE)
       IN  /\ left # <<>>
           /\ request' = [request EXCEPT ![r] = [at |-> "probe", rel |-> rel, wanted |-> left,
                                                 accepted |-> FALSE]]
    /\ UNCHANGED <<FW_STATE, runner>>

(* A mutant: every rejection is shown, whatever is under way. *)
RejectedAlways(p, rel, records) == fwSet(records, p, "rejected", rel)

(* The record of a deploy that is under way is not overwritten. *)
Rejected(p, rel, records) ==
    IF fwBusyWith(p) THEN records ELSE fwSet(records, p, "rejected", rel)

Asked(r) == Head(request[r].wanted)

(* firmwareDeployBlockedBy has answered. *)
RequestProbed(r, machine) ==
    /\ request[r].at = "probe"
    /\ IF firmwareDeployBlockedBy(Asked(r), machine)
       THEN Proceed(r, Tail(request[r].wanted), request[r].accepted, FW_QUEUE,
                    Rejected(Asked(r), request[r].rel, firmwareNoteObserved(Asked(r), machine)))
       ELSE /\ request' = [request EXCEPT ![r].at = "device"]
            /\ FW_STATE' = firmwareNoteObserved(Asked(r), machine)
            /\ UNCHANGED runner

(* A mutant: the claim relies on the early answer. *)
ClaimUnchecked(r) ==
    /\ request[r].at = "device"
    /\ LET p == Asked(r)
       IN  Proceed(r, Tail(request[r].wanted), TRUE,
                   Append(FW_QUEUE, [id |-> p, rel |-> request[r].rel]),
                   fwSet(FW_STATE, p, "queued", request[r].rel))

(* getDeviceInfo has answered: the image contradicts the printer, or is on  *)
(* it already, or is to be deployed.  No await from here to the claim.      *)
RequestClaims(r) ==
    LET p == Asked(r)
        rel == request[r].rel
        Turn(accepted, queue, records) ==
            Proceed(r, Tail(request[r].wanted), accepted, queue, records)
    IN  /\ request[r].at = "device"
        /\ \/ Turn(request[r].accepted, FW_QUEUE, Rejected(p, rel, FW_STATE))
           \/ /\ ~fwBusyWith(p)
              /\ Turn(request[r].accepted, FW_QUEUE, fwSet(FW_STATE, p, "skipped", rel))
           \/ /\ ~fwBusyWith(p)
              /\ Turn(TRUE, Append(FW_QUEUE, [id |-> p, rel |-> rel]),
                      fwSet(FW_STATE, p, "queued", rel))

-----------------------------------------------------------------------------
(* runFirmwareDeploy *)

Phase(records, phase) == [records EXCEPT ![FW_RUNNING].phase = phase]

(* A mutant: a failure ends the runner. *)
EndsRunner(phase) ==
    IF phase = "failed"
    THEN /\ FW_STATE' = Phase(FW_STATE, phase)
         /\ FW_RUNNING' = None /\ deploy' = NoDeploy
         /\ fwDraining' = FALSE /\ FW_STOP_REQUESTED' = FALSE
         /\ UNCHANGED FW_QUEUE
    ELSE DrainNext(FW_QUEUE, Phase(FW_STATE, phase), FW_STOP_REQUESTED)

(* Recorded, and on to the next printer whatever the ending was. *)
Ends(phase) == DrainNext(FW_QUEUE, Phase(FW_STATE, phase), FW_STOP_REQUESTED)

Goes(at, records) ==
    /\ deploy' = [deploy EXCEPT !.at = at]
    /\ FW_STATE' = records
    /\ UNCHANGED <<FW_QUEUE, FW_RUNNING, FW_STOP_REQUESTED, fwDraining>>

DeployChecked(machine) ==
    /\ deploy.at = "check"
    /\ IF firmwareDeployBlockedBy(FW_RUNNING, machine) THEN Ends("failed")
       ELSE Goes("resolve", FW_STATE)

(* The image is no longer there, or its upload begins. *)
DeployResolved ==
    /\ deploy.at = "resolve"
    /\ Ends("failed") \/ Goes("upload", Phase(FW_STATE, "upload"))

(* The check may be turned off: then the last gate is next. *)
DeployUploaded ==
    /\ deploy.at = "upload"
    /\ \/ Ends("failed")
       \/ Goes("verify", Phase(FW_STATE, "verify"))
       \/ Goes("beforeFlash", FW_STATE)

DeployVerified ==
    /\ deploy.at = "verify"
    /\ Ends("failed") \/ Goes("beforeFlash", FW_STATE)

(* The last gate, and the flash it opens. *)
DeployFlashes(machine) ==
    /\ deploy.at = "beforeFlash"
    /\ IF firmwareDeployBlockedBy(FW_RUNNING, machine) THEN Ends("failed")
       ELSE Goes("flash", Phase(FW_STATE, "flash"))

DeployFlashed ==
    /\ deploy.at = "flash"
    /\ Ends("failed") \/ Ends("updated") \/ Ends("rebooting")

DeployStep ==
    /\ \/ \E machine \in MachineStates : DeployChecked(machine) \/ DeployFlashes(machine)
       \/ DeployResolved \/ DeployUploaded \/ DeployVerified \/ DeployFlashed
    /\ UNCHANGED request

-----------------------------------------------------------------------------
(* POST /api/firmware-stop, honoured between printers. *)
firmwareStop ==
    /\ FW_STOP_REQUESTED' = TRUE
    /\ UNCHANGED <<FW_STATE, FW_QUEUE, FW_RUNNING, fwDraining, deploy, request>>

(* A fleet poll, and the clean-up of old records. *)
FleetProbe(p, machine) ==
    /\ FW_STATE' = firmwareNoteObserved(p, machine)
    /\ UNCHANGED <<runner, request>>

RecordExpires(p) ==
    /\ FW_STATE[p].phase \in Settled /\ ~fwBusyWith(p)
    /\ FW_STATE' = [FW_STATE EXCEPT ![p] = NoRecord]
    /\ UNCHANGED <<runner, request>>

RequestStep(r) ==
    RequestClaims(r) \/ \E machine \in MachineStates : RequestProbed(r, machine)

Next ==
    \/ \E r \in Requests, rel \in Images, wanted \in Wanted : firmwareDeploy(r, rel, wanted)
    \/ \E r \in Requests : RequestStep(r)
    \/ DeployStep
    \/ firmwareStop
    \/ \E p \in Printers :
         RecordExpires(p) \/ \E machine \in MachineStates : FleetProbe(p, machine)

Spec == Init /\ [][Next]_vars

(* Every await is answered or times out; nobody need ask for anything.      *)
FairSpec == Spec /\ WF_vars(DeployStep) /\ \A r \in Requests : WF_vars(RequestStep(r))

-----------------------------------------------------------------------------
(* A printer is in the queue once at most, and not while it is being        *)
(* deployed to, however many requests name it at once: lines 1218-1226.     *)
NeverQueuedTwice ==
    /\ FW_RUNNING \notin Queued(FW_QUEUE)
    /\ \A i, j \in DOMAIN FW_QUEUE : FW_QUEUE[i].id = FW_QUEUE[j].id => i = j

(* The records tell the truth about the queue: a printer is shown queued    *)
(* while it waits, and in a running phase while its own deploy runs, and    *)
(* never otherwise; no other request's answer replaces the record, lines    *)
(* 1156-1165, and one printer at a time is being deployed to.               *)
RecordsTellTheTruth ==
    \A p \in Printers :
        /\ FW_STATE[p].phase = "queued" <=> p \in Queued(FW_QUEUE)
        /\ FW_STATE[p].phase \in Running <=> FW_RUNNING = p
        /\ FW_RUNNING = p => FW_STATE[p].phase =
              CASE deploy.at \in {"check", "resolve"} -> "preparing"
                [] deploy.at \in {"upload", "verify", "flash"} -> deploy.at
                [] OTHER -> FW_STATE[p].phase

(* The image a printer is given is the one its own request named, as its    *)
(* record shows it: lines 1246-1250.                                        *)
OwnImage ==
    /\ \A i \in DOMAIN FW_QUEUE : FW_STATE[FW_QUEUE[i].id].file = FW_QUEUE[i].rel
    /\ FW_RUNNING # None => FW_STATE[FW_RUNNING].file = deploy.rel

(* Every printer accepted for a deploy is deployed to or told why not,      *)
(* whatever becomes of the printers before it: lines 826-830.               *)
EveryJobEnds ==
    \A p \in Printers :
        FW_STATE[p].phase \in {"queued"} \cup Running
            ~> FW_STATE[p].phase \in Settled \cup {"rebooting", "none"}

(* The comment on lines 1024-1027: a print started since the deploy began   *)
(* makes the last gate abort it, with nothing written.                      *)
NeverFlashedMidPrint ==
    [][\A machine \in MachineStates :
          DeployFlashes(machine) /\ deploy'.at = "flash" => machine # "printing"]_vars
=============================================================================
