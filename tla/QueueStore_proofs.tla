-------------------------- MODULE QueueStore_proofs --------------------------
(***************************************************************************)
(* Proofs about QueueStore, for any number of changes.  The invariants are  *)
(* about the time before a file is damaged from outside, as the properties  *)
(* themselves are.                                                          *)
(*                                                                          *)
(* The argument.  The current file is only ever replaced by a rename of a   *)
(* temporary file written whole (TmpIsWhole), so it always holds the last   *)
(* content a save reported (OnDisk).  What a save is about to write is what *)
(* is in memory, unless the change is an intent, which enters memory after  *)
(* the rename (CallsAgree); so memory can differ from disk only before the  *)
(* rename or after a failure (MemoryAgrees).                                *)
(***************************************************************************)
EXTENDS QueueStore, TLAPS

Counted ==
    damage = 0 => /\ acked <= version /\ store <= version
                  /\ step # "none" => candidate <= version

OnDisk ==
    damage = 0 => \/ primary = Absent /\ acked = Empty
                  \/ primary = Holding(acked)

TmpIsWhole == step \in {"backup", "rename"} => tmp = Holding(candidate)

CallsAgree ==
    /\ step # "none" => running
    /\ step # "none" /\ kind # "intent" => candidate = store

MemoryAgrees ==
    running /\ damage = 0 /\ step = "none" /\ ~storeDegraded => store = acked

(* No save puts back an older content. *)
OnlyForward ==
    /\ running /\ damage = 0 => store >= acked
    /\ step # "none" /\ damage = 0 => candidate >= acked

StoreInv ==
    Counted /\ OnDisk /\ TmpIsWhole /\ CallsAgree /\ MemoryAgrees /\ OnlyForward

-----------------------------------------------------------------------------
(* Type correctness. *)

LEMMA FileTypes ==
    /\ Absent \in Files /\ Corrupt \in Files
    /\ \A v \in Versions : Holding(v) \in Files
    /\ \A f \in Files : Readable(f) => f.v \in Versions
    /\ Versions \subseteq Nat /\ Empty \in Versions
  <1>1. Versions \subseteq Nat /\ Empty \in Versions
    BY QueueStoreAssumption DEF Versions, Empty
  <1>2. \A v \in Versions : Holding(v) \in Files
    BY DEF Files
  <1>3. ASSUME NEW f \in Files, Readable(f) PROVE f.v \in Versions
    <2>1. f # Absent /\ f # Corrupt BY <1>3 DEF Absent, Corrupt, Readable
    <2>2. PICK v \in Versions : f = Holding(v) BY <2>1 DEF Files
    <2> QED BY <2>2 DEF Holding
  <1> QED BY <1>1, <1>2, <1>3 DEF Files

(* The counters of a state are numbers. *)
LEMMA Numbers ==
    TypeOK => {version, store, candidate, acked, damage} \subseteq Nat
  <1> SUFFICES ASSUME TypeOK PROVE {version, store, candidate, acked, damage} \subseteq Nat
    OBVIOUS
  <1>1. damage \in Nat BY QueueStoreAssumption DEF TypeOK
  <1>2. {version, store, candidate, acked} \subseteq Versions BY DEF TypeOK
  <1> QED BY <1>1, <1>2, FileTypes

LEMMA CutOffTypes == TypeOK /\ CutOff => {primary', bak', tmp'} \subseteq Files
  BY FileTypes DEF TypeOK, CutOff

LEMMA LoadTypes == TypeOK /\ load => TypeOK'
  <1> SUFFICES ASSUME TypeOK, load PROVE TypeOK'
    OBVIOUS
  <1>1. primary' \in Files /\ bak' \in Files /\ store' \in Versions
        /\ queueStoreRecoveryRequired' \in BOOLEAN /\ setAside' \in BOOLEAN
    <2>1. CASE loadPrimary BY <2>1, FileTypes DEF loadPrimary, TypeOK
    <2>2. CASE loadNothing BY <2>2, FileTypes DEF loadNothing, TypeOK
    <2>3. CASE loadBackup BY <2>3, FileTypes DEF loadBackup, TypeOK
    <2>4. CASE loadRecovery BY <2>4, FileTypes DEF loadRecovery, TypeOK
    <2> QED BY <2>1, <2>2, <2>3, <2>4 DEF load
  <1>2. tmp' \in Files BY FileTypes DEF load, TypeOK
  <1> QED BY <1>1, <1>2 DEF load, TypeOK, call, saves

LEMMA CallTypes ==
    TypeOK /\ (applyIntent \/ applyObserved \/ retrySave \/ acknowledgeReset) => TypeOK'
  <1> SUFFICES ASSUME TypeOK, applyIntent \/ applyObserved \/ retrySave \/ acknowledgeReset
               PROVE  TypeOK'
    OBVIOUS
  <1>1. NewVersion => version' \in Versions
    BY QueueStoreAssumption DEF NewVersion, Versions, TypeOK
  <1>2. CASE applyIntent
    BY <1>1, <1>2 DEF applyIntent, TypeOK, Call, Kinds, files, saves
  <1>3. CASE applyObserved
    BY <1>1, <1>3 DEF applyObserved, TypeOK, Call, Kinds, files, saves
  <1>4. CASE retrySave
    BY <1>4 DEF retrySave, TypeOK, Call, Kinds, files, saves
  <1>5. CASE acknowledgeReset
    BY <1>1, <1>5 DEF acknowledgeReset, TypeOK, Call, Kinds, files, saves
  <1> QED BY <1>2, <1>3, <1>4, <1>5

LEMMA PersistTypes == TypeOK /\ (persist \/ Crash) => TypeOK'
  <1> SUFFICES ASSUME TypeOK, persist \/ Crash PROVE TypeOK'
    OBVIOUS
  <1>1. CASE WriteTemporary
    BY <1>1, FileTypes DEF WriteTemporary, TypeOK, Frame, saves
  <1>2. CASE CopyBackup
    BY <1>2 DEF CopyBackup, TypeOK, Frame, saves
  <1>3. CASE RenameAndCommit
    BY <1>3, FileTypes DEF RenameAndCommit, TypeOK, Frame
  <1>4. CASE persistFails
    BY <1>4, CutOffTypes DEF persistFails, TypeOK, Frame, saves
  <1>5. CASE Crash
    BY <1>5, CutOffTypes DEF Crash, TypeOK, saves
  <1> QED BY <1>1, <1>2, <1>3, <1>4, <1>5 DEF persist

LEMMA DamageTypes == TypeOK /\ Damage => TypeOK'
  <1> SUFFICES ASSUME TypeOK, Damage PROVE TypeOK'
    OBVIOUS
  <1>1. damage' \in 0..MaxDamage
    BY QueueStoreAssumption DEF TypeOK, Damage
  <1>2. primary' \in Files /\ bak' \in Files BY FileTypes DEF TypeOK, Damage
  <1> QED BY <1>1, <1>2 DEF Damage, TypeOK, call, saves

(* Type correctness of the store's files, memory and flags: every content   *)
(* that is read back is one that was written, lines 84-93 and 113-172.      *)
THEOREM StoreTypes == Spec => []TypeOK
  <1>1. Init => TypeOK
    <2>1. 0 \in Versions /\ 0 \in 0..MaxDamage
      BY QueueStoreAssumption DEF Versions
    <2> QED BY <2>1, FileTypes DEF Init, TypeOK, Kinds, Empty
  <1>2. TypeOK /\ [Next]_vars => TypeOK'
    <2>1. TypeOK /\ UNCHANGED vars => TypeOK'
      BY DEF TypeOK, vars, files, call, saves
    <2> QED BY <2>1, LoadTypes, CallTypes, PersistTypes, DamageTypes DEF Next
  <1> QED BY <1>1, <1>2, PTL DEF Spec

-----------------------------------------------------------------------------
(* The current file is always what the last save reported. *)

(* What OnDisk says in terms of what a restart loads. *)
LEMMA LoadableIsAcked ==
    ASSUME OnDisk, damage = 0
    PROVE  Loadable = acked /\ primary # Corrupt
  <1>1. CASE primary = Absent /\ acked = Empty
    BY <1>1 DEF Loadable, Readable, Absent, Corrupt, Empty
  <1>2. CASE primary = Holding(acked)
    BY <1>2 DEF Loadable, Readable, Holding, Corrupt
  <1> QED BY <1>1, <1>2 DEF OnDisk

LEMMA StoreInvInit == Init => StoreInv
  BY DEF Init, StoreInv, Counted, OnDisk, TmpIsWhole, CallsAgree, MemoryAgrees,
         OnlyForward, Empty

LEMMA LoadKeepsStoreInv == TypeOK /\ StoreInv /\ load => StoreInv'
  <1> SUFFICES ASSUME TypeOK, StoreInv, load PROVE StoreInv'
    OBVIOUS
  <1> USE DEF StoreInv
  <1>1. /\ step = "none" /\ step' = "none" /\ running'
        /\ UNCHANGED <<version, acked, damage, candidate, kind>>
    BY DEF load, CallsAgree, call, saves
  <1>2. damage = 0 => store' = acked /\ primary' = primary
    <2> SUFFICES ASSUME damage = 0 PROVE store' = acked /\ primary' = primary
      OBVIOUS
    <2>1. Loadable = acked /\ primary # Corrupt
      BY LoadableIsAcked
    <2>2. CASE loadPrimary BY <2>1, <2>2 DEF loadPrimary, Loadable
    <2>3. CASE loadNothing
      BY <2>1, <2>3 DEF loadNothing, Loadable, Readable, Absent, Corrupt
    <2>4. CASE loadBackup BY <2>1, <2>4 DEF loadBackup
    <2>5. CASE loadRecovery BY <2>1, <2>5 DEF loadRecovery
    <2> QED BY <2>2, <2>3, <2>4, <2>5 DEF load
  <1> QED
    BY <1>1, <1>2, Numbers
    DEF Counted, OnDisk, TmpIsWhole, CallsAgree, MemoryAgrees, OnlyForward, TypeOK

LEMMA CallsKeepStoreInv ==
    TypeOK /\ StoreInv /\ (applyIntent \/ applyObserved \/ retrySave \/ acknowledgeReset)
    => StoreInv'
  <1> SUFFICES ASSUME TypeOK, StoreInv,
                      applyIntent \/ applyObserved \/ retrySave \/ acknowledgeReset
               PROVE  StoreInv'
    OBVIOUS
  <1> USE DEF StoreInv, Counted, OnDisk, TmpIsWhole, CallsAgree, MemoryAgrees, OnlyForward,
              Idle, Call, NewVersion, files, saves
  <1>1. CASE applyIntent BY <1>1, Numbers DEF applyIntent
  <1>2. CASE applyObserved BY <1>2, Numbers DEF applyObserved
  <1>3. CASE retrySave BY <1>3, Numbers DEF retrySave
  <1>4. CASE acknowledgeReset BY <1>4, Numbers DEF acknowledgeReset
  <1> QED BY <1>1, <1>2, <1>3, <1>4

(* Only the rename changes the current file. *)
LEMMA PersistKeepsStoreInv == TypeOK /\ StoreInv /\ (persist \/ Crash) => StoreInv'
  <1> SUFFICES ASSUME TypeOK, StoreInv, persist \/ Crash PROVE StoreInv'
    OBVIOUS
  <1> USE DEF StoreInv, Counted, OnDisk, TmpIsWhole, CallsAgree, MemoryAgrees, OnlyForward,
              Frame, saves
  <1>1. CASE WriteTemporary BY <1>1, Numbers DEF WriteTemporary
  <1>2. CASE CopyBackup BY <1>2, Numbers DEF CopyBackup
  <1>3. CASE RenameAndCommit
    BY <1>3, Numbers DEF RenameAndCommit
  <1>4. CASE persistFails BY <1>4, Numbers DEF persistFails, CutOff
  <1>5. CASE Crash BY <1>5, Numbers DEF Crash, CutOff
  <1> QED BY <1>1, <1>2, <1>3, <1>4, <1>5 DEF persist

LEMMA DamageKeepsStoreInv == TypeOK /\ StoreInv /\ Damage => StoreInv'
  BY Numbers
  DEF StoreInv, Counted, OnDisk, TmpIsWhole, CallsAgree, MemoryAgrees, OnlyForward,
      Damage, call, saves

LEMMA StoreInvHolds == Spec => []StoreInv
  <1>1. TypeOK /\ StoreInv /\ [Next]_vars => StoreInv'
    <2>1. StoreInv /\ UNCHANGED vars => StoreInv'
      BY DEF StoreInv, Counted, OnDisk, TmpIsWhole, CallsAgree, MemoryAgrees,
             OnlyForward, vars, files, call, saves
    <2> QED
      BY <2>1, LoadKeepsStoreInv, CallsKeepStoreInv, PersistKeepsStoreInv,
         DamageKeepsStoreInv DEF Next
  <1> QED BY <1>1, StoreInvInit, StoreTypes, PTL DEF Spec

(* Whatever step of whatever save the process dies or fails in, a restart   *)
(* loads the newest content a save reported ok: persist and load.           *)
THEOREM AckedContentSurvives == Spec => []AckedSurvives
  <1>1. StoreInv => AckedSurvives
    BY LoadableIsAcked DEF StoreInv, AckedSurvives
  <1> QED BY <1>1, StoreInvHolds, PTL

(* Unless storeDegraded says otherwise, what the queue acts on between two  *)
(* saves is what a restart would act on: blockedReason and markDegraded.    *)
THEOREM DivergenceIsAlwaysFlagged == Spec => []DivergenceIsFlagged
  <1>1. StoreInv => DivergenceIsFlagged
    BY LoadableIsAcked DEF StoreInv, MemoryAgrees, DivergenceIsFlagged
  <1> QED BY <1>1, StoreInvHolds, PTL

-----------------------------------------------------------------------------
(* The store implements DurableStore while nothing damages its files. *)

LEMMA InitIsDurable == Init => Durable!Init
  BY DEF Init, Durable!Init, Loadable, Readable, Absent, Corrupt, Empty

(* The states of the refinement: the invariants, and no damage. *)
Sound == TypeOK /\ StoreInv /\ damage = 0 /\ damage' = 0

LEMMA LoadableBothWays ==
    ASSUME Sound, StoreInv'
    PROVE  Loadable = acked /\ Loadable' = acked' /\ primary # Corrupt
  <1>1. Loadable = acked /\ primary # Corrupt
    BY LoadableIsAcked DEF Sound, StoreInv
  <1>2. (OnDisk /\ damage = 0 => Loadable = acked)'
    BY LoadableIsAcked, PTL
  <1> QED BY <1>1, <1>2 DEF Sound, StoreInv

(* A start takes the saved copy into memory. *)
LEMMA LoadRefines == Sound /\ StoreInv' /\ load => Durable!Start
  <1> SUFFICES ASSUME Sound, StoreInv', load PROVE Durable!Start
    OBVIOUS
  <1>1. Loadable = acked /\ Loadable' = acked' /\ primary # Corrupt
    BY LoadableBothWays
  <1>2. acked' = acked /\ ~running /\ running' BY DEF load, saves
  <1>3. store' = Loadable
    <2>1. CASE loadPrimary BY <2>1 DEF loadPrimary, Loadable
    <2>2. CASE loadNothing BY <2>2 DEF loadNothing, Loadable, Readable, Absent, Corrupt
    <2>3. CASE loadBackup BY <2>3, <1>1 DEF loadBackup
    <2>4. CASE loadRecovery BY <2>4, <1>1 DEF loadRecovery
    <2> QED BY <2>1, <2>2, <2>3, <2>4 DEF load
  <1> QED BY <1>1, <1>2, <1>3 DEF Durable!Start, Sound, TypeOK

(* An intent or a retry changes nothing yet; what was observed, and a       *)
(* reset, enter memory before they are saved.                               *)
LEMMA CallsRefine ==
    Sound /\ StoreInv' /\ TypeOK'
    /\ (applyIntent \/ applyObserved \/ retrySave \/ acknowledgeReset)
    => Durable!Next \/ UNCHANGED Durable!vars
  <1> SUFFICES ASSUME Sound, StoreInv', TypeOK',
                      applyIntent \/ applyObserved \/ retrySave \/ acknowledgeReset
               PROVE  Durable!Next \/ UNCHANGED Durable!vars
    OBVIOUS
  <1>1. Loadable = acked /\ Loadable' = acked' BY LoadableBothWays
  <1>2. acked' = acked /\ UNCHANGED running
    BY DEF applyIntent, applyObserved, retrySave, acknowledgeReset, saves
  <1>3. CASE applyIntent \/ retrySave
    BY <1>1, <1>2, <1>3 DEF applyIntent, retrySave, Durable!vars
  <1>4. CASE applyObserved \/ acknowledgeReset
    <2>1. store' \in Versions /\ running BY <1>4 DEF applyObserved, acknowledgeReset, Idle, TypeOK
    <2>2. store' > store
      BY <1>4, Numbers
      DEF applyObserved, acknowledgeReset, NewVersion, Sound, StoreInv, Counted
    <2>3. Durable!Observe(store') BY <1>1, <1>2, <2>1, <2>2 DEF Durable!Observe
    <2> QED BY <2>1, <2>3 DEF Durable!Next
  <1> QED BY <1>3, <1>4

(* Only the rename saves, and it saves the whole store at once. *)
LEMMA PersistRefines ==
    Sound /\ StoreInv' /\ (persist \/ Crash) => Durable!Next \/ UNCHANGED Durable!vars
  <1> SUFFICES ASSUME Sound, StoreInv', persist \/ Crash
               PROVE  Durable!Next \/ UNCHANGED Durable!vars
    OBVIOUS
  <1>1. Loadable = acked /\ Loadable' = acked' BY LoadableBothWays
  <1>2. CASE WriteTemporary \/ CopyBackup \/ persistFails
    BY <1>1, <1>2 DEF WriteTemporary, CopyBackup, persistFails, Frame, saves, Durable!vars
  <1>3. CASE RenameAndCommit
    <2>1. running /\ candidate >= acked
      BY <1>3 DEF RenameAndCommit, Sound, StoreInv, CallsAgree, OnlyForward
    <2>2. store' = candidate /\ acked' = candidate
      BY <1>3 DEF RenameAndCommit, Sound, StoreInv, CallsAgree
    <2>3. candidate \in Versions BY DEF Sound, TypeOK
    <2>4. Durable!Save(candidate)
      BY <1>1, <1>3, <2>1, <2>2 DEF Durable!Save, RenameAndCommit, Frame
    <2> QED BY <2>3, <2>4 DEF Durable!Next
  <1>4. CASE Crash
    BY <1>1, <1>4 DEF Crash, saves, Durable!Next, Durable!Die
  <1> QED BY <1>2, <1>3, <1>4 DEF persist

LEMMA StepRefines ==
    TypeOK /\ TypeOK' /\ StoreInv /\ StoreInv' /\ [Next]_vars
    => [damage' = 0 => [Durable!Next]_(Durable!vars)]_vars
  <1> SUFFICES ASSUME TypeOK, TypeOK', StoreInv, StoreInv', Next, damage' = 0
               PROVE  [Durable!Next]_(Durable!vars)
    OBVIOUS
  <1>1. ~Damage BY Numbers DEF Damage
  <1>2. Sound
    BY <1>1
    DEF Sound, Next, load, applyIntent, applyObserved, retrySave, acknowledgeReset,
        persist, WriteTemporary, CopyBackup, RenameAndCommit, persistFails, Frame, Crash
  <1>3. CASE load BY <1>2, <1>3, LoadRefines DEF Durable!Next
  <1>4. CASE applyIntent \/ applyObserved \/ retrySave \/ acknowledgeReset
    BY <1>2, <1>4, CallsRefine
  <1>5. CASE persist \/ Crash BY <1>2, <1>5, PersistRefines
  <1> QED BY <1>1, <1>3, <1>4, <1>5 DEF Next

(* The three-step save over three files, with crashes and failures between  *)
(* and within its steps, implements the store whose saves are atomic.       *)
THEOREM StoreImplementsDurable == Spec => ImplementsDurableStore
  BY StepRefines, InitIsDurable, StoreTypes, StoreInvHolds, PTL
  DEF Spec, ImplementsDurableStore
=============================================================================
