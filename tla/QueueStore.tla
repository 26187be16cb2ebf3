----------------------------- MODULE QueueStore -----------------------------
(***************************************************************************)
(* queue/QueueStore.js: how queue-data.json is written and read back.       *)
(*                                                                          *)
(* persist() writes a temporary file, copies the current file over the      *)
(* backup, and renames the temporary file over the current one.  Nothing in *)
(* the process interleaves with it, but the process can die, and an         *)
(* operation can fail, between and within these steps.  A file may also be  *)
(* damaged from outside (a full disk, a power cut, a foreign writer).       *)
(*                                                                          *)
(* A store's content is the number of the change that made it: 0 is the     *)
(* empty store {}, and later changes have larger numbers.                   *)
(***************************************************************************)
EXTENDS Naturals

CONSTANTS
    MaxVersion,   \* bound: changes made to the store
    MaxDamage     \* bound: files damaged from outside

ASSUME QueueStoreAssumption == MaxVersion \in Nat /\ MaxDamage \in Nat

VARIABLES
    primary, bak, tmp,          \* PRIMARY_PATH, BAK_PATH, TMP_PATH
    store,                      \* the authoritative memory
    storeDegraded,
    queueStoreRecoveryRequired,
    running,                    \* has load() run since the process started?
    step, candidate, kind,      \* where persist() is, and with what
    version,                    \* number of the newest change
    acked,                      \* history: newest content a save reported ok
    ackedBefore,                \* history: the content saved before that one
    damage,                     \* history: files damaged so far
    setAside                    \* history: were files renamed to .corrupt-*?

files == <<primary, bak, tmp>>
call  == <<step, candidate, kind>>
saves == <<acked, ackedBefore>>
vars  == <<files, store, storeDegraded, queueStoreRecoveryRequired, running,
           call, version, saves, damage, setAside>>

Empty    == 0
Versions == 0..MaxVersion
Absent   == [is |-> "absent"]
Corrupt  == [is |-> "corrupt"]
Holding(v) == [is |-> "store", v |-> v]
Files    == {Absent, Corrupt} \cup {Holding(v) : v \in Versions}

Kinds == {"intent", "observed", "retry", "reset"}

TypeOK ==
    /\ {primary, bak, tmp} \subseteq Files
    /\ {store, candidate, version, acked, ackedBefore} \subseteq Versions
    /\ {storeDegraded, queueStoreRecoveryRequired, running, setAside} \subseteq BOOLEAN
    /\ step \in {"none", "write", "backup", "rename"}
    /\ kind \in Kinds
    /\ damage \in 0..MaxDamage

(* Before the first start, nothing is on disk. *)
Init ==
    /\ primary = Absent /\ bak = Absent /\ tmp = Absent
    /\ store = Empty /\ candidate = Empty /\ version = 0 /\ acked = Empty /\ ackedBefore = Empty
    /\ storeDegraded = FALSE /\ queueStoreRecoveryRequired = FALSE
    /\ running = FALSE /\ setAside = FALSE
    /\ step = "none" /\ kind = "intent" /\ damage = 0

Idle == running /\ step = "none"

-----------------------------------------------------------------------------
(* load *)

Readable(f) == f.is = "store"

loadPrimary ==
    /\ Readable(primary)
    /\ store' = primary.v
    /\ UNCHANGED <<primary, bak, queueStoreRecoveryRequired, setAside>>

(* No file: a first run. *)
loadNothing ==
    /\ primary = Absent
    /\ store' = Empty
    /\ UNCHANGED <<primary, bak, queueStoreRecoveryRequired, setAside>>

loadBackup ==
    /\ primary = Corrupt /\ Readable(bak)
    /\ store' = bak.v
    /\ UNCHANGED <<primary, bak, queueStoreRecoveryRequired, setAside>>

(* Both unreadable: set aside, as far as that works, until a reset. *)
loadRecovery ==
    /\ primary = Corrupt /\ ~Readable(bak)
    /\ store' = Empty
    /\ queueStoreRecoveryRequired' = TRUE
    /\ primary' \in {Absent, primary}
    /\ bak' \in {Absent, bak}
    /\ setAside' = TRUE

load ==
    /\ ~running
    /\ running' = TRUE
    /\ tmp' \in {Absent, tmp}
    /\ loadPrimary \/ loadNothing \/ loadBackup \/ loadRecovery
    /\ UNCHANGED <<storeDegraded, call, version, saves, damage>>

-----------------------------------------------------------------------------
(* The calls that end in persist(). *)

Call(k, v) == step' = "write" /\ kind' = k /\ candidate' = v

NewVersion == version < MaxVersion /\ version' = version + 1

Blocked == queueStoreRecoveryRequired \/ storeDegraded

(* applyIntent, applyBulkIntent, claimNextForDispatch, confirmManualBedClear. *)
applyIntent ==
    /\ Idle /\ ~Blocked
    /\ NewVersion /\ Call("intent", version')
    /\ UNCHANGED <<files, store, storeDegraded, queueStoreRecoveryRequired, running,
                   saves, damage, setAside>>

(* An empty store has no printer anything could be observed of. *)
applyObserved ==
    /\ Idle /\ ~queueStoreRecoveryRequired
    /\ NewVersion /\ Call("observed", version')
    /\ store' = version'
    /\ UNCHANGED <<files, storeDegraded, queueStoreRecoveryRequired, running,
                   saves, damage, setAside>>

retrySave ==
    /\ Idle
    /\ Call("retry", store)
    /\ UNCHANGED <<files, store, storeDegraded, queueStoreRecoveryRequired, running,
                   version, saves, damage, setAside>>

(* The store an admin asked to be empty is a change like another. *)
acknowledgeReset ==
    /\ Idle
    /\ NewVersion /\ Call("reset", version')
    /\ store' = version'
    /\ queueStoreRecoveryRequired' = FALSE
    /\ UNCHANGED <<files, storeDegraded, running, saves, damage, setAside>>

-----------------------------------------------------------------------------
(* persist *)

Frame == UNCHANGED <<queueStoreRecoveryRequired, running, version, damage, setAside>>

(* A mutant: no round-trip check, and what does not serialise is written. *)
UncheckedWrite ==
    /\ step = "write"
    /\ tmp' \in {Holding(candidate), [is |-> "undefined"]}
    /\ step' = "backup"
    /\ UNCHANGED <<primary, bak, store, storeDegraded, candidate, kind, saves>> /\ Frame

WriteTemporary ==
    /\ step = "write"
    /\ tmp' = Holding(candidate)
    /\ step' = "backup"
    /\ UNCHANGED <<primary, bak, store, storeDegraded, candidate, kind, saves>> /\ Frame

(* Mutants: the current file is moved, not copied; a backup is made once. *)
MoveBackup ==
    /\ step = "backup"
    /\ bak' = IF primary = Absent THEN bak ELSE primary
    /\ primary' = Absent
    /\ step' = "rename"
    /\ UNCHANGED <<tmp, store, storeDegraded, candidate, kind, saves>> /\ Frame

BackupOnce ==
    /\ step = "backup"
    /\ bak' = IF bak = Absent THEN primary ELSE bak
    /\ step' = "rename"
    /\ UNCHANGED <<primary, tmp, store, storeDegraded, candidate, kind, saves>> /\ Frame

(* A current file that does not parse is copied like any other. *)
CopyBackup ==
    /\ step = "backup"
    /\ bak' = IF primary = Absent THEN bak ELSE primary
    /\ step' = "rename"
    /\ UNCHANGED <<primary, tmp, store, storeDegraded, candidate, kind, saves>> /\ Frame

(* A mutant: an intent that was saved is not applied. *)
RenameOnly ==
    /\ step = "rename"
    /\ primary' = tmp /\ tmp' = Absent
    /\ storeDegraded' = FALSE
    /\ acked' = candidate /\ ackedBefore' = acked
    /\ step' = "none"
    /\ UNCHANGED <<bak, store, candidate, kind>> /\ Frame

RenameAndCommit ==
    /\ step = "rename"
    /\ primary' = tmp /\ tmp' = Absent
    /\ store' = IF kind = "intent" THEN candidate ELSE store
    /\ storeDegraded' = FALSE
    /\ acked' = candidate /\ ackedBefore' = acked
    /\ step' = "none"
    /\ UNCHANGED <<bak, candidate, kind>> /\ Frame

(* What the step under way may leave when it fails or is cut off. *)
CutOff ==
    /\ tmp' \in (IF step = "write" THEN {tmp, Corrupt, Absent} ELSE {tmp})
    /\ bak' \in (IF step = "backup" /\ primary # Absent THEN {bak, Corrupt} ELSE {bak})
    /\ UNCHANGED primary

(* A mutant: a failed save is not remembered. *)
FailsQuietly ==
    /\ step # "none"
    /\ CutOff
    /\ step' = "none"
    /\ UNCHANGED <<store, storeDegraded, candidate, kind, saves>> /\ Frame

(* The transient retries have been used up: markDegraded. *)
persistFails ==
    /\ step # "none"
    /\ CutOff
    /\ storeDegraded' = TRUE
    /\ step' = "none"
    /\ UNCHANGED <<store, candidate, kind, saves>> /\ Frame

-----------------------------------------------------------------------------
(* The process dies; what it knew is gone. *)
Crash ==
    /\ running
    /\ CutOff
    /\ running' = FALSE
    /\ storeDegraded' = FALSE /\ queueStoreRecoveryRequired' = FALSE
    /\ step' = "none"
    /\ UNCHANGED <<store, candidate, kind, version, saves, damage, setAside>>

Damage ==
    /\ step = "none" /\ damage < MaxDamage
    /\ \/ primary # Absent /\ primary' = Corrupt /\ UNCHANGED bak
       \/ bak # Absent /\ bak' = Corrupt /\ UNCHANGED primary
    /\ damage' = damage + 1
    /\ UNCHANGED <<tmp, store, storeDegraded, queueStoreRecoveryRequired, running, call,
                   version, saves, setAside>>

persist == WriteTemporary \/ CopyBackup \/ RenameAndCommit \/ persistFails

Next ==
    \/ load \/ applyIntent \/ applyObserved \/ retrySave \/ acknowledgeReset
    \/ persist \/ Crash \/ Damage

Spec == Init /\ [][Next]_vars

-----------------------------------------------------------------------------
(* What a restart would load. *)
Loadable ==
    IF Readable(primary) THEN primary.v
    ELSE IF primary = Corrupt /\ Readable(bak) THEN bak.v
    ELSE Empty

(* While no file is damaged from outside, a restart at any moment loads the *)
(* newest content a save has reported ok, whatever step of whatever save    *)
(* the process died in and whatever failed before: lines 113-139 and 143.   *)
AckedSurvives == damage = 0 => Loadable = acked

(* Memory and disk differ only while a save is under way or storeDegraded   *)
(* holds, so a blockedReason of null means that what the queue acts on is   *)
(* what a restart would act on: lines 178-182 and every caller of persist.  *)
DivergenceIsFlagged ==
    running /\ damage = 0 /\ store # Loadable => storeDegraded \/ step # "none"

(* The file-level store does what the rest of SnapCon takes it to do: until *)
(* a file is damaged from outside, every step is a step of DurableStore or  *)
(* a stutter.                                                               *)
Durable == INSTANCE DurableStore WITH
    memory <- store,
    saved  <- Loadable

ImplementsDurableStore ==
    Durable!Init /\ [][damage' = 0 => [Durable!Next]_(Durable!vars)]_vars

(* What the backup is for: when one file has been damaged, at any moment,   *)
(* a start comes up with the newest saved content, or the one saved before  *)
(* it, or asks for a reset; never with anything older, and never empty.     *)
OneDamageLosesOneSave ==
    [][load /\ damage <= 1 /\ ~setAside =>
         store' \in {acked, ackedBefore} \/ queueStoreRecoveryRequired']_vars

(* The comment on lines 157-160: the two files unreadable, the queue never  *)
(* comes back empty as if nothing had happened.                             *)
NeverSilentlyEmpty ==
    [][load /\ acked # Empty /\ store' = Empty => queueStoreRecoveryRequired']_vars
=============================================================================
