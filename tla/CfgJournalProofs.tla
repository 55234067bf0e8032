-------------------------- MODULE CfgJournalProofs --------------------------
(* Theorems about CfgJournal, for every value of its constants. *)
EXTENDS CfgJournal, WellFoundedInduction, FiniteSetTheorems, TLAPS

-----------------------------------------------------------------------------
(* The operators the scan is built from.                                   *)

\* A non-empty set of indices of the journal has a largest one.
LEMMA MaxOfIndices ==
  ASSUME NEW n \in Nat, NEW S \in SUBSET (0 .. n), S # {}
  PROVE  Max(S) \in S /\ \A y \in S : Max(S) >= y
<1> DEFINE Below == {m \in Nat : n - m \in S}
<1>1. Below \in SUBSET Nat /\ Below # {}
  <2>1. PICK x \in S : TRUE
    OBVIOUS
  <2>2. n - x \in Nat /\ n - (n - x) = x
    OBVIOUS
  <2> QED
    BY <2>2
<1>2. \E m \in Below : \A y \in Below : ~(<<y, m>> \in OpToRel(<, Nat))
  BY <1>1, NatLessThanWellFounded, WFMin
<1>3. PICK m \in Below : \A y \in Below : ~(y < m)
  BY <1>1, <1>2 DEF OpToRel
<1>4. n - m \in S /\ \A y \in S : n - m >= y
  <2>1. n - m \in S /\ m \in Nat
    OBVIOUS
  <2>2. ASSUME NEW y \in S PROVE n - m >= y
    <3>1. n - y \in Nat /\ n - (n - y) = y
      OBVIOUS
    <3>2. n - y \in Below
      BY <3>1
    <3>3. ~(n - y < m)
      BY <3>2, <1>3
    <3> HIDE DEF Below
    <3> QED
      BY <3>1, <3>3, <2>1
  <2> QED
    BY <2>1, <2>2
<1> HIDE DEF Below
<1> QED
  BY <1>4 DEF Max

\* What the scan of cfg_init finds: indices of valid records, none behind the
\* last slot in use, and nothing but erased slots behind that one.
LEMMA ScanFacts ==
  ASSUME NEW recs \in [Slots -> Record \cup {BLANK, TORN}]
  PROVE  /\ ScanUsed(recs) \in 0 .. CFG_RECORDS
         /\ ScanLast(recs) \in [TYPES -> 0 .. CFG_RECORDS]
         /\ \A i \in Slots : i > ScanUsed(recs) => recs[i] = BLANK
         /\ \A t \in TYPES : /\ ScanLast(recs)[t] <= ScanUsed(recs)
                             /\ ScanLast(recs)[t] # 0 => recs[ScanLast(recs)[t]] \in Record
<1>1. CFG_RECORDS \in Nat
  BY SizesAssumption
<1>2. ASSUME NEW S \in SUBSET Slots
      PROVE  /\ Max({0} \cup S) \in {0} \cup S
             /\ \A y \in {0} \cup S : Max({0} \cup S) >= y
             /\ Max({0} \cup S) \in 0 .. CFG_RECORDS
  <2>1. {0} \cup S \in SUBSET (0 .. CFG_RECORDS) /\ {0} \cup S # {}
    BY <1>1 DEF Slots
  <2> QED
    BY <1>1, <2>1, MaxOfIndices
<1>3. NonBlank(recs) \in SUBSET Slots
  BY DEF NonBlank
<1> DEFINE Of(t) == {i \in NonBlank(recs) : recs[i] \in Record /\ recs[i].type = t}
<1>4. \A t \in TYPES : Of(t) \in SUBSET Slots /\ ScanLast(recs)[t] = Max({0} \cup Of(t))
  BY <1>3 DEF ScanLast
<1>5. ScanUsed(recs) \in 0 .. CFG_RECORDS
  BY <1>2, <1>3 DEF ScanUsed
<1>6. ScanLast(recs) \in [TYPES -> 0 .. CFG_RECORDS]
  BY <1>2, <1>4 DEF ScanLast
<1>7. ASSUME NEW i \in Slots, i > ScanUsed(recs) PROVE recs[i] = BLANK
  <2>1. \A y \in NonBlank(recs) : ScanUsed(recs) >= y
    BY <1>2, <1>3 DEF ScanUsed
  <2>2. i \notin NonBlank(recs)
    BY <1>5, <1>7, <2>1, <1>1 DEF Slots
  <2> QED
    BY <2>2 DEF NonBlank
<1>8. ASSUME NEW t \in TYPES
      PROVE  /\ ScanLast(recs)[t] <= ScanUsed(recs)
             /\ ScanLast(recs)[t] # 0 => recs[ScanLast(recs)[t]] \in Record
  <2>1. ScanLast(recs)[t] \in {0} \cup Of(t)
    BY <1>2, <1>4
  <2>2. \A y \in {0} \cup NonBlank(recs) : ScanUsed(recs) >= y
    BY <1>2, <1>3 DEF ScanUsed
  <2>3. ScanUsed(recs) >= ScanLast(recs)[t]
    BY <2>1, <2>2
  <2>4. ScanLast(recs)[t] <= ScanUsed(recs)
    BY <2>3, <1>5, <1>6
  <2> QED
    BY <2>1, <2>4
<1> QED
  BY <1>5, <1>6, <1>7, <1>8

LEMMA ImageType ==
  ASSUME NEW snap \in Snapshot
  PROVE  Image(snap) \in [Slots -> Record \cup {BLANK, TORN}]
<1> SUFFICES ASSUME NEW i \in Slots
             PROVE  Image(snap)[i] \in Record \cup {BLANK, TORN}
  BY DEF Image
<1> DEFINE Here(t) == snap[t] # NONE /\ Rank(snap, t) = i
<1>1. CASE \E t \in TYPES : Here(t)
  <2> DEFINE t == CHOOSE u \in TYPES : Here(u)
  <2>1. t \in TYPES /\ snap[t] # NONE
    BY <1>1
  <2>2. snap[t] \in VALUES
    BY <2>1 DEF Snapshot
  <2>3. Image(snap)[i] = [type |-> t, val |-> snap[t]]
    BY <1>1 DEF Image
  <2> QED
    BY <2>1, <2>2, <2>3 DEF Record
<1>2. CASE ~ \E t \in TYPES : Here(t)
  BY <1>2 DEF Image
<1> QED
  BY <1>1, <1>2

LEMMA EmptySnapshotType == EmptySnapshot \in Snapshot
  BY DEF EmptySnapshot, Snapshot

-----------------------------------------------------------------------------
(* Flash contents after an operation that did not finish.                  *)

LEMMA ErasedTypes ==
  /\ ErasedBackup \in Backups
  /\ ErasedStamp \in [gen : 0 .. GEN_MAX, commit : BOOLEAN]
  /\ [i \in Slots |-> BLANK] \in [Slots -> Record \cup {BLANK, TORN}]
  BY SizesAssumption, EmptySnapshotType DEF ErasedBackup, ErasedStamp, Backups

LEMMA PartlyErasedSlotsType ==
  ASSUME FlashOK, NEW s \in PartlyErasedSlots
  PROVE  s \in [Slots -> Record \cup {BLANK, TORN}]
  BY DEF PartlyErasedSlots, FlashOK

\* A stamp being erased is the old one or an invalid one.
LEMMA PartlyErasedStampFacts ==
  ASSUME FlashOK, NEW s \in PartlyErasedStamp
  PROVE  /\ s \in [gen : 0 .. GEN_MAX, commit : BOOLEAN]
         /\ s.commit => s.gen = 0 \/ s.gen = primary_generation
<1>1. PICK g \in {stamp.gen, 0}, c \in {stamp.commit, FALSE} : s = [gen |-> g, commit |-> c]
  BY DEF PartlyErasedStamp
<1>2. g \in 0 .. GEN_MAX
  BY <1>1, SizesAssumption DEF FlashOK
<1>3. c \in BOOLEAN
  BY <1>1 DEF FlashOK
<1>4. s.commit => s.gen = 0 \/ s.gen = primary_generation
  BY <1>1 DEF primary_generation
<1> QED
  BY <1>1, <1>2, <1>3, <1>4

\* A backup being erased has no generation and no commit word it did not have.
LEMMA PartlyErasedBackupFacts ==
  ASSUME FlashOK, NEW b \in PartlyErasedBackup
  PROVE  /\ b \in Backups
         /\ b.gen = 0 \/ b.gen = backup.gen
         /\ b.commit => backup.commit
<1>1. PICK g \in {backup.gen, 0}, d \in {backup.data, TORN, EmptySnapshot},
           c \in {backup.commit, FALSE}, r \in {backup.retired, FALSE} :
             b = [gen |-> g, sum |-> backup.sum, data |-> d, commit |-> c, retired |-> r]
  BY DEF PartlyErasedBackup
<1>2. g \in 0 .. GEN_MAX
  BY <1>1, SizesAssumption DEF FlashOK, Backups
<1>3. d \in Snapshot \cup {TORN}
  BY <1>1, EmptySnapshotType DEF FlashOK, Backups
<1>4. backup.sum \in Snapshot /\ c \in BOOLEAN /\ r \in BOOLEAN
  BY <1>1 DEF FlashOK, Backups
<1>5. b.gen = g /\ b.commit = c
  BY <1>1
<1>6. b \in Backups
  BY <1>1, <1>2, <1>3, <1>4 DEF Backups
<1> QED
  BY <1>1, <1>5, <1>6

LEMMA PartlyWrittenType ==
  ASSUME FlashOK, NEW image \in [Slots -> Record \cup {BLANK, TORN}],
         NEW s \in PartlyWrittenSlots(image)
  PROVE  s \in [Slots -> Record \cup {BLANK, TORN}]
  BY DEF PartlyWrittenSlots, FlashOK

LEMMA PrimaryGenerationType == FlashOK => primary_generation \in 0 .. GEN_MAX
  BY SizesAssumption DEF FlashOK, primary_generation

-----------------------------------------------------------------------------
(* How a call ends.  Each lemma gives the whole invariant after the step,  *)
(* from what the step did to the flash.                                    *)

LEMMA ChargeType ==
  ASSUME DisturbancesOK, NEW rc, Charge(rc)
  PROVE  DisturbancesOK'
  BY SizesAssumption DEF Charge, DisturbancesOK

LEMMA PowerOffInv ==
  ASSUME FlashOK', DisturbancesOK', (Quiet \/ backup_needed)', PowerOff
  PROVE  JournalInv'
<1>1. 0 \in 0 .. CFG_RECORDS
  BY SizesAssumption
<1>2. RamOK'
  BY <1>1 DEF PowerOff, RamOK
<1>3. ControlOK'
  BY EmptySnapshotType DEF PowerOff, ControlOK, Callers
<1>4. BackupInv'
  BY DEF PowerOff, BackupInv, CompactSteps, RestoreSteps
<1>5. CacheInv'
  BY DEF PowerOff, CacheInv, CompactSteps
<1> QED
  BY <1>2, <1>3, <1>4, <1>5 DEF JournalInv, TypeOK

\* A call that returns without touching the RAM state.
LEMMA ReturnInv ==
  ASSUME FlashOK', DisturbancesOK', RamOK, UNCHANGED <<ram, slots>>, Quiet',
         pc \in CompactSteps, BackupInv, CacheInv, Return
  PROVE  JournalInv'
<1>1. RamOK'
  BY DEF RamOK, ram
<1>2. ControlOK'
  BY EmptySnapshotType DEF Return, ControlOK, Callers
<1>3. ~recovery_pending
  BY DEF BackupInv, CompactSteps
<1>4. BackupInv'
  BY <1>3 DEF Return, BackupInv, CompactSteps, RestoreSteps, ram
<1>5. CacheInv'
  BY <1>3 DEF Return, CacheInv, CompactSteps, ram, RecordsBase
<1> QED
  BY <1>1, <1>2, <1>4, <1>5 DEF JournalInv, TypeOK

LEMMA FinishInitInv ==
  ASSUME FlashOK', DisturbancesOK', ControlOK, NEW who \in Callers, NEW lost \in BOOLEAN,
         lost => backup_needed', ~lost => Quiet',
         who = "write" => request \in Record,
         FinishInit(who, lost)
  PROVE  JournalInv'
<1> DEFINE recs == IF lost THEN Image(backup'.data) ELSE slots'
<1>1. recs \in [Slots -> Record \cup {BLANK, TORN}]
  <2>1. CASE lost
    <3>1. backup'.data \in Snapshot
      BY <2>1 DEF FlashOK, Backups, backup_needed, backup_valid
    <3> QED
      BY <2>1, <3>1, ImageType
  <2>2. CASE ~lost
    BY <2>2 DEF FlashOK
  <2> QED
    BY <2>1, <2>2
<1>2. used_records' = ScanUsed(recs) /\ last_of_type' = ScanLast(recs)
  BY DEF FinishInit
<1>3. recs = RecordsBase'
  BY DEF FinishInit, RecordsBase
<1>4. ~lost => recs = slots'
  OBVIOUS
<1> HIDE DEF recs
<1>5. RamOK'
  BY <1>1, <1>2, ScanFacts DEF FinishInit, RamOK
<1>6. ControlOK'
  BY EmptySnapshotType DEF FinishInit, ControlOK, Return, Callers
<1>7. pc' \in {"idle", "append"} /\ (lost => pc' = "idle") /\ recovery_pending' = lost
  BY DEF FinishInit, Return
<1>8. BackupInv'
  BY <1>7 DEF BackupInv, CompactSteps, RestoreSteps
<1>9. CacheInv'
  <2>1. records_base' = IF recovery_pending' THEN "backup" ELSE "primary"
    BY DEF FinishInit
  <2>2. \A t \in TYPES : /\ last_of_type'[t] <= used_records'
                         /\ last_of_type'[t] # 0 => RecordsBase'[last_of_type'[t]] \in Record
    BY <1>1, <1>2, <1>3, ScanFacts
  <2>3. ~recovery_pending' => \A i \in Slots : i > used_records' => slots'[i] = BLANK
    BY <1>1, <1>2, <1>4, <1>7, ScanFacts
  <2>4. caller' = "write" => request' \in Record
    BY DEF FinishInit, Return
  <2>5. pc' = "append" => caller' = "write" /\ used_records' < CFG_RECORDS
    BY DEF FinishInit, Return
  <2> QED
    BY <2>1, <2>2, <2>3, <2>4, <2>5 DEF CacheInv
<1> QED
  BY <1>5, <1>6, <1>8, <1>9 DEF JournalInv, TypeOK

LEMMA BeginInitInv ==
  ASSUME FlashOK', DisturbancesOK', RamOK, ControlOK, NEW who \in Callers,
         (Quiet \/ backup_needed)', who = "write" => request \in Record,
         BeginInit(who)
  PROVE  JournalInv'
<1>1. CASE backup_needed'
  <2>1. backup'.data \in Snapshot
    BY <1>1 DEF FlashOK, Backups, backup_needed, backup_valid
  <2>2. RamOK' /\ ControlOK'
    BY <1>1, <2>1 DEF BeginInit, RamOK, ControlOK, RestoreSteps
  <2>3. pc' = "erasePrimary" /\ recovery_pending' = FALSE
    BY <1>1 DEF BeginInit
  <2>4. BackupInv'
    BY <1>1, <2>3 DEF BackupInv, CompactSteps, RestoreSteps
  <2>5. CacheInv'
    BY <1>1, <2>3 DEF BeginInit, CacheInv, CompactSteps
  <2> QED
    BY <2>2, <2>4, <2>5 DEF JournalInv, TypeOK
<1>2. CASE ~backup_needed'
  BY <1>2, FinishInitInv DEF BeginInit
<1> QED
  BY <1>1, <1>2

LEMMA RestoreStepEnds ==
  ASSUME FlashOK', DisturbancesOK', ControlOK, CacheInv, (Quiet \/ backup_needed)',
         NEW rc, rc # "ok", NEW next, RestoreStep(rc, next)
  PROVE  JournalInv'
<1>1. CASE rc = "fail"
  <2>1. FinishInit(caller, backup_needed') /\ caller \in Callers
    BY <1>1 DEF RestoreStep, ControlOK
  <2>2. backup_needed' \in BOOLEAN
    BY DEF backup_needed
  <2>3. caller = "write" => request \in Record
    BY DEF CacheInv
  <2> QED
    BY <2>1, <2>2, <2>3, FinishInitInv
<1>2. CASE rc = "cut"
  BY <1>2, PowerOffInv DEF RestoreStep
<1> QED
  BY <1>1, <1>2 DEF RestoreStep

LEMMA RestoreStepGoesOn ==
  ASSUME FlashOK', RamOK, ControlOK, CacheInv, NEW next \in RestoreSteps, RestoreStep("ok", next),
         ~recovery_pending
  PROVE  RamOK' /\ ControlOK' /\ CacheInv' /\ pc' = next /\ ~recovery_pending'
         /\ snapshot' = snapshot
<1>1. pc' = next /\ UNCHANGED <<ram, caller, snapshot, request>>
  BY DEF RestoreStep
<1>2. RamOK' /\ ControlOK'
  BY <1>1 DEF RamOK, ControlOK, ram
<1>3. CacheInv'
  BY <1>1 DEF CacheInv, ram, RestoreSteps, CompactSteps
<1> QED
  BY <1>1, <1>2, <1>3 DEF ram

-----------------------------------------------------------------------------
(* restore_backup, one lemma per flash operation.                          *)

LEMMA ErasePrimaryInv ==
  ASSUME JournalInv, ErasePrimary
  PROVE  JournalInv'
<1> USE DEF JournalInv, TypeOK
<1>1. PICK rc \in Outcomes :
        /\ Charge(rc)
        /\ slots' \in IF rc = "ok" THEN {[i \in Slots |-> BLANK]} ELSE PartlyErasedSlots
        /\ stamp' \in IF rc = "ok" THEN {ErasedStamp} ELSE PartlyErasedStamp
        /\ UNCHANGED backup
        /\ RestoreStep(rc, "writeRecords")
  BY DEF ErasePrimary
<1>2. pc = "erasePrimary" /\ backup_needed /\ ~recovery_pending
  BY DEF ErasePrimary, BackupInv, RestoreSteps
<1>3. FlashOK' /\ DisturbancesOK'
  BY <1>1, ChargeType, ErasedTypes, PartlyErasedSlotsType, PartlyErasedStampFacts DEF FlashOK
<1>4. primary_generation' = 0 \/ primary_generation' = primary_generation
  BY <1>1, PartlyErasedStampFacts DEF primary_generation, ErasedStamp, Outcomes
<1>5. backup_needed'
  <2>1. backup.gen \in Nat /\ backup.gen > 0
    BY <1>2 DEF FlashOK, Backups, backup_needed, backup_valid
  <2> QED
    BY <1>1, <1>2, <1>4, <2>1 DEF backup_needed, backup_valid
<1>6. CASE rc = "ok"
  <2>1. RamOK' /\ ControlOK' /\ CacheInv' /\ pc' = "writeRecords" /\ ~recovery_pending'
    BY <1>1, <1>2, <1>3, <1>6, RestoreStepGoesOn DEF RestoreSteps
  <2>2. stamp' = ErasedStamp
    BY <1>1, <1>6
  <2>3. BackupInv'
    BY <1>5, <2>1, <2>2 DEF BackupInv, CompactSteps, RestoreSteps
  <2> QED
    BY <1>3, <2>1, <2>3
<1>7. CASE rc # "ok"
  BY <1>1, <1>3, <1>5, <1>7, RestoreStepEnds
<1> QED
  BY <1>6, <1>7

LEMMA WriteRecordsInv ==
  ASSUME JournalInv, WriteRecords
  PROVE  JournalInv'
<1> USE DEF JournalInv, TypeOK
<1>1. PICK rc \in Outcomes :
        /\ Charge(rc)
        /\ slots' \in IF rc = "ok" THEN {Image(snapshot)} ELSE PartlyWrittenSlots(Image(snapshot))
        /\ UNCHANGED <<stamp, backup>>
        /\ RestoreStep(rc, "writeStamp")
  BY DEF WriteRecords
<1>2. pc = "writeRecords" /\ backup_needed /\ ~recovery_pending /\ stamp = ErasedStamp
  BY DEF WriteRecords, BackupInv, RestoreSteps
<1>3. FlashOK' /\ DisturbancesOK'
  <2>1. Image(snapshot) \in [Slots -> Record \cup {BLANK, TORN}]
    BY ImageType DEF ControlOK
  <2> QED
    BY <1>1, <2>1, ChargeType, PartlyWrittenType DEF FlashOK
<1>4. backup_needed'
  BY <1>1, <1>2 DEF backup_needed, backup_valid, primary_generation
<1>5. CASE rc = "ok"
  <2>1. RamOK' /\ ControlOK' /\ CacheInv' /\ pc' = "writeStamp" /\ ~recovery_pending'
    BY <1>1, <1>2, <1>3, <1>5, RestoreStepGoesOn DEF RestoreSteps
  <2>2. BackupInv'
    BY <1>1, <1>2, <1>4, <2>1 DEF BackupInv, CompactSteps, RestoreSteps
  <2> QED
    BY <1>3, <2>1, <2>2
<1>6. CASE rc # "ok"
  BY <1>1, <1>3, <1>4, <1>6, RestoreStepEnds
<1> QED
  BY <1>5, <1>6

LEMMA WriteStampInv ==
  ASSUME JournalInv, WriteStamp
  PROVE  JournalInv'
<1> USE DEF JournalInv, TypeOK
<1>1. PICK rc \in Outcomes :
        /\ Charge(rc)
        /\ stamp' \in {[stamp EXCEPT !.gen = g] :
                         g \in {backup.gen} \cup IF rc = "ok" THEN {} ELSE {0}}
        /\ UNCHANGED <<slots, backup>>
        /\ RestoreStep(rc, "commitStamp")
  BY DEF WriteStamp
<1>2. pc = "writeStamp" /\ backup_needed /\ ~recovery_pending /\ stamp = ErasedStamp
  BY DEF WriteStamp, BackupInv, RestoreSteps
<1>3. PICK g \in {backup.gen} \cup IF rc = "ok" THEN {} ELSE {0} :
        stamp' = [gen |-> g, commit |-> FALSE]
  BY <1>1, <1>2 DEF ErasedStamp
<1>4. FlashOK' /\ DisturbancesOK'
  <2>1. g \in 0 .. GEN_MAX
    BY <1>3, SizesAssumption DEF FlashOK, Backups
  <2> QED
    BY <1>1, <1>3, <2>1, ChargeType DEF FlashOK
<1>5. backup_needed'
  BY <1>1, <1>2, <1>3 DEF backup_needed, backup_valid, primary_generation, ErasedStamp
<1>6. CASE rc = "ok"
  <2>1. RamOK' /\ ControlOK' /\ CacheInv' /\ pc' = "commitStamp" /\ ~recovery_pending'
    BY <1>1, <1>2, <1>4, <1>6, RestoreStepGoesOn DEF RestoreSteps
  <2>2. stamp' = [gen |-> backup'.gen, commit |-> FALSE]
    BY <1>1, <1>3, <1>6
  <2>3. BackupInv'
    BY <1>5, <2>1, <2>2 DEF BackupInv, CompactSteps, RestoreSteps
  <2> QED
    BY <1>4, <2>1, <2>3
<1>7. CASE rc # "ok"
  BY <1>1, <1>4, <1>5, <1>7, RestoreStepEnds
<1> QED
  BY <1>6, <1>7

LEMMA CommitStampInv ==
  ASSUME JournalInv, CommitStamp
  PROVE  JournalInv'
<1> USE DEF JournalInv, TypeOK
<1>1. PICK rc \in Outcomes :
        /\ Charge(rc)
        /\ stamp' \in {[stamp EXCEPT !.commit = c] :
                         c \in {TRUE} \cup IF rc = "ok" THEN {} ELSE {FALSE}}
        /\ UNCHANGED <<slots, backup>>
        /\ RestoreStep(rc, "retire")
  BY DEF CommitStamp
<1>2. /\ pc = "commitStamp" /\ backup_needed /\ ~recovery_pending
      /\ stamp = [gen |-> backup.gen, commit |-> FALSE]
  BY DEF CommitStamp, BackupInv, RestoreSteps
<1>3. \/ stamp' = [gen |-> backup.gen, commit |-> TRUE]
      \/ rc # "ok" /\ stamp' = stamp
  BY <1>1, <1>2
<1>4. FlashOK' /\ DisturbancesOK'
  <2>1. stamp' \in [gen : 0 .. GEN_MAX, commit : BOOLEAN]
    <3>1. backup.gen \in 0 .. GEN_MAX /\ stamp \in [gen : 0 .. GEN_MAX, commit : BOOLEAN]
      BY DEF FlashOK, Backups
    <3>2. [gen |-> backup.gen, commit |-> TRUE] \in [gen : 0 .. GEN_MAX, commit : BOOLEAN]
      BY <3>1
    <3>3. stamp' = [gen |-> backup.gen, commit |-> TRUE] \/ stamp' = stamp
      BY <1>3
    <3> QED
      BY <3>1, <3>2, <3>3, Zenon
  <2> QED
    BY <1>1, <2>1, ChargeType DEF FlashOK
<1>5. stamp' = [gen |-> backup.gen, commit |-> TRUE] => Quiet'
  BY <1>1 DEF Quiet, primary_generation, FlashOK, Backups
<1>6. stamp' = stamp => backup_needed'
  BY <1>1, <1>2 DEF backup_needed, backup_valid, primary_generation
<1>7. CASE rc = "ok"
  <2>1. RamOK' /\ ControlOK' /\ CacheInv' /\ pc' = "retire" /\ ~recovery_pending'
    BY <1>1, <1>2, <1>4, <1>7, RestoreStepGoesOn DEF RestoreSteps
  <2>2. Quiet'
    BY <1>3, <1>5, <1>7
  <2>3. BackupInv'
    BY <2>1, <2>2 DEF BackupInv, CompactSteps, RestoreSteps
  <2> QED
    BY <1>4, <2>1, <2>3
<1>8. CASE rc # "ok"
  <2>1. (Quiet \/ backup_needed)'
    BY <1>3, <1>5, <1>6
  <2> QED
    BY <1>1, <1>4, <1>8, <2>1, RestoreStepEnds
<1> QED
  BY <1>7, <1>8

LEMMA RetireBackupInv ==
  ASSUME JournalInv, RetireBackup
  PROVE  JournalInv'
<1> USE DEF JournalInv, TypeOK
<1>1. PICK rc \in Outcomes :
        /\ Charge(rc)
        /\ backup' \in {[backup EXCEPT !.retired = r] :
                          r \in {TRUE} \cup IF rc = "ok" THEN {} ELSE {FALSE}}
        /\ UNCHANGED <<slots, stamp>>
        /\ \/ rc = "ok" /\ FinishInit(caller, FALSE)
           \/ rc # "ok" /\ RestoreStep(rc, "retire")
  BY DEF RetireBackup
<1>2. pc = "retire" /\ ~recovery_pending /\ Quiet
  BY DEF RetireBackup, BackupInv
<1>3. FlashOK' /\ DisturbancesOK'
  BY <1>1, ChargeType DEF FlashOK, Backups
<1>4. Quiet'
  BY <1>1, <1>2 DEF Quiet, primary_generation, FlashOK, Backups
<1>5. caller \in Callers /\ (caller = "write" => request \in Record)
  BY DEF ControlOK, CacheInv
<1>6. CASE rc = "ok"
  BY <1>1, <1>3, <1>4, <1>5, <1>6, FinishInitInv
<1>7. CASE rc # "ok"
  BY <1>1, <1>3, <1>4, <1>7, RestoreStepEnds
<1> QED
  BY <1>6, <1>7

-----------------------------------------------------------------------------
(* cfg_compact, one lemma per flash operation.                             *)

LEMMA CompactStepEnds ==
  ASSUME JournalInv, FlashOK', DisturbancesOK', Quiet', pc \in CompactSteps,
         NEW rc, rc # "ok", NEW next, CompactStep(rc, next)
  PROVE  JournalInv'
<1> USE DEF JournalInv, TypeOK
<1>1. CASE Return /\ UNCHANGED ram
  BY <1>1, ReturnInv DEF CompactStep
<1>2. CASE PowerOff
  BY <1>2, PowerOffInv
<1> QED
  BY <1>1, <1>2 DEF CompactStep

LEMMA CompactStepGoesOn ==
  ASSUME JournalInv, pc \in CompactSteps, NEW next \in CompactSteps, CompactStep("ok", next)
  PROVE  RamOK' /\ ControlOK' /\ CacheInv' /\ pc' = next /\ ~recovery_pending'
         /\ snapshot' = snapshot /\ ~recovery_pending
<1> USE DEF JournalInv, TypeOK
<1>1. /\ pc' = next /\ UNCHANGED <<ram, caller, snapshot, request>>
      /\ UNCHANGED <<slots, stamp>>
  BY DEF CompactStep
<1>2. ~recovery_pending
  BY DEF BackupInv, CompactSteps
<1>3. RamOK' /\ ControlOK'
  BY <1>1 DEF RamOK, ControlOK, ram
<1>4. CacheInv'
  BY <1>1, <1>2 DEF CacheInv, ram, CompactSteps, RecordsBase
<1> QED
  BY <1>1, <1>2, <1>3, <1>4 DEF ram

LEMMA EraseBackupInv ==
  ASSUME JournalInv, EraseBackup
  PROVE  JournalInv'
<1> USE DEF JournalInv, TypeOK
<1>1. PICK rc \in Outcomes :
        /\ Charge(rc)
        /\ backup' \in IF rc = "ok" THEN {ErasedBackup} ELSE PartlyErasedBackup
        /\ CompactStep(rc, "writeHeader")
  BY DEF EraseBackup
<1>2. pc = "eraseBackup" /\ pc \in CompactSteps
  BY DEF EraseBackup, CompactSteps
<1>3. Quiet /\ primary_generation < GEN_MAX - 1 /\ UNCHANGED <<slots, stamp>>
  BY <1>1, <1>2 DEF BackupInv, CompactStep
<1>4. FlashOK' /\ DisturbancesOK'
  BY <1>1, <1>3, ChargeType, ErasedTypes, PartlyErasedBackupFacts DEF FlashOK
<1>5. Quiet'
  <2>1. CASE rc = "ok"
    BY <1>1, <2>1 DEF Quiet, ErasedBackup
  <2>2. CASE rc # "ok"
    <3>1. backup'.gen = 0 \/ backup'.gen = backup.gen
      BY <1>1, <2>2, PartlyErasedBackupFacts
    <3>2. backup'.commit => backup.commit
      BY <1>1, <2>2, PartlyErasedBackupFacts
    <3>3. primary_generation' = primary_generation
      BY <1>3 DEF primary_generation
    <3>4. primary_generation \in Nat
      BY PrimaryGenerationType, SizesAssumption
    <3> QED
      BY <1>3, <3>1, <3>2, <3>3, <3>4 DEF Quiet
  <2> QED
    BY <2>1, <2>2
<1>6. CASE rc = "ok"
  <2>1. RamOK' /\ ControlOK' /\ CacheInv' /\ pc' = "writeHeader" /\ ~recovery_pending'
    BY <1>1, <1>2, <1>6, CompactStepGoesOn DEF CompactSteps
  <2>2. ~backup'.commit /\ ~backup'.retired
    BY <1>1, <1>6 DEF ErasedBackup
  <2>3. primary_generation' < GEN_MAX - 1
    BY <1>3 DEF primary_generation
  <2>4. BackupInv'
    BY <1>5, <2>1, <2>2, <2>3 DEF BackupInv, CompactSteps, RestoreSteps
  <2> QED
    BY <1>4, <2>1, <2>4
<1>7. CASE rc # "ok"
  BY <1>1, <1>2, <1>4, <1>5, <1>7, CompactStepEnds
<1> QED
  BY <1>6, <1>7

LEMMA WriteHeaderInv ==
  ASSUME JournalInv, WriteHeader
  PROVE  JournalInv'
<1> USE DEF JournalInv, TypeOK
<1>1. PICK rc \in Outcomes :
        /\ Charge(rc)
        /\ backup' \in {[backup EXCEPT !.gen = g, !.sum = snapshot] :
                          g \in {primary_generation + 1} \cup IF rc = "ok" THEN {} ELSE {0}}
        /\ CompactStep(rc, "writeData")
  BY DEF WriteHeader
<1>2. pc = "writeHeader" /\ pc \in CompactSteps
  BY DEF WriteHeader, CompactSteps
<1>3. /\ primary_generation < GEN_MAX - 1 /\ UNCHANGED <<slots, stamp>>
      /\ ~backup.commit /\ ~backup.retired
  BY <1>1, <1>2 DEF BackupInv, CompactStep
<1>4. PICK g \in {primary_generation + 1} \cup IF rc = "ok" THEN {} ELSE {0} :
        backup' = [backup EXCEPT !.gen = g, !.sum = snapshot]
  BY <1>1
<1>5. g \in 0 .. GEN_MAX
  BY <1>3, <1>4, PrimaryGenerationType, SizesAssumption
<1>6. FlashOK' /\ DisturbancesOK'
  <2>1. backup' \in Backups
    BY <1>4, <1>5 DEF FlashOK, Backups, ControlOK
  <2> QED
    BY <1>1, <1>3, <2>1, ChargeType DEF FlashOK
<1>7. backup'.gen = g /\ backup'.sum = snapshot /\ ~backup'.commit /\ ~backup'.retired
  BY <1>3, <1>4 DEF FlashOK, Backups
<1>8. Quiet'
  BY <1>7 DEF Quiet
<1>9. CASE rc = "ok"
  <2>1. /\ RamOK' /\ ControlOK' /\ CacheInv' /\ pc' = "writeData" /\ ~recovery_pending'
        /\ snapshot' = snapshot
    BY <1>1, <1>2, <1>9, CompactStepGoesOn DEF CompactSteps
  <2>2. primary_generation' = primary_generation
    BY <1>3 DEF primary_generation
  <2>3. backup'.gen = primary_generation' + 1 /\ backup'.sum = snapshot'
    BY <1>4, <1>7, <1>9, <2>1, <2>2
  <2>4. BackupInv'
    BY <1>3, <1>7, <1>8, <2>1, <2>2, <2>3 DEF BackupInv, CompactSteps, RestoreSteps
  <2> QED
    BY <1>6, <2>1, <2>4
<1>10. CASE rc # "ok"
  BY <1>1, <1>2, <1>6, <1>8, <1>10, CompactStepEnds
<1> QED
  BY <1>9, <1>10

LEMMA WriteDataInv ==
  ASSUME JournalInv, WriteData
  PROVE  JournalInv'
<1> USE DEF JournalInv, TypeOK
<1>1. PICK rc \in Outcomes :
        /\ Charge(rc)
        /\ backup' \in {[backup EXCEPT !.data = d] :
                          d \in {snapshot} \cup IF rc = "ok" THEN {} ELSE {TORN, EmptySnapshot}}
        /\ CompactStep(rc, "writeCommit")
  BY DEF WriteData
<1>2. pc = "writeData" /\ pc \in CompactSteps
  BY DEF WriteData, CompactSteps
<1>3. /\ primary_generation < GEN_MAX - 1 /\ UNCHANGED <<slots, stamp>>
      /\ ~backup.commit /\ ~backup.retired
      /\ backup.gen = primary_generation + 1 /\ backup.sum = snapshot
  BY <1>1, <1>2 DEF BackupInv, CompactStep
<1>4. PICK d \in {snapshot} \cup IF rc = "ok" THEN {} ELSE {TORN, EmptySnapshot} :
        backup' = [backup EXCEPT !.data = d]
  BY <1>1
<1>5. d \in Snapshot \cup {TORN}
  BY <1>4, EmptySnapshotType DEF ControlOK
<1>6. FlashOK' /\ DisturbancesOK'
  <2>1. backup' \in Backups
    BY <1>4, <1>5 DEF FlashOK, Backups
  <2> QED
    BY <1>1, <1>3, <2>1, ChargeType DEF FlashOK
<1>7. /\ backup'.gen = backup.gen /\ backup'.sum = backup.sum /\ backup'.data = d
      /\ ~backup'.commit /\ ~backup'.retired
  BY <1>3, <1>4 DEF FlashOK, Backups
<1>8. Quiet'
  BY <1>7 DEF Quiet
<1>9. CASE rc = "ok"
  <2>1. /\ RamOK' /\ ControlOK' /\ CacheInv' /\ pc' = "writeCommit" /\ ~recovery_pending'
        /\ snapshot' = snapshot
    BY <1>1, <1>2, <1>9, CompactStepGoesOn DEF CompactSteps
  <2>2. primary_generation' = primary_generation
    BY <1>3 DEF primary_generation
  <2>3. backup'.data = snapshot'
    BY <1>4, <1>7, <1>9, <2>1
  <2>4. BackupInv'
    BY <1>3, <1>7, <1>8, <2>1, <2>2, <2>3 DEF BackupInv, CompactSteps, RestoreSteps
  <2> QED
    BY <1>6, <2>1, <2>4
<1>10. CASE rc # "ok"
  BY <1>1, <1>2, <1>6, <1>8, <1>10, CompactStepEnds
<1> QED
  BY <1>9, <1>10

LEMMA WriteCommitInv ==
  ASSUME JournalInv, WriteCommit
  PROVE  JournalInv'
<1> USE DEF JournalInv, TypeOK
<1>1. PICK rc \in Outcomes :
        /\ Charge(rc)
        /\ backup' \in {[backup EXCEPT !.commit = c] :
                          c \in {TRUE} \cup IF rc = "ok" THEN {} ELSE {FALSE}}
        /\ UNCHANGED <<slots, stamp>>
        /\ \/ rc = "ok" /\ BeginInit(caller)
           \/ rc = "fail" /\ CommitFailed
           \/ rc = "cut" /\ PowerOff
  BY DEF WriteCommit
<1>2. pc = "writeCommit" /\ pc \in CompactSteps
  BY DEF WriteCommit, CompactSteps
<1>3. /\ primary_generation < GEN_MAX - 1 /\ ~backup.commit /\ ~backup.retired
      /\ backup.gen = primary_generation + 1 /\ backup.sum = snapshot /\ backup.data = snapshot
  BY <1>2 DEF BackupInv, CompactSteps
<1>4. PICK c \in BOOLEAN : backup' = [backup EXCEPT !.commit = c]
  BY <1>1
<1>5. FlashOK' /\ DisturbancesOK'
  BY <1>1, <1>4, ChargeType DEF FlashOK, Backups
<1>6. /\ backup'.gen = backup.gen /\ backup'.sum = backup.sum /\ backup'.data = backup.data
      /\ backup'.commit = c /\ backup'.retired = backup.retired
      /\ primary_generation' = primary_generation
  BY <1>1, <1>4 DEF FlashOK, Backups, primary_generation
<1>7. (Quiet \/ backup_needed)'
  <2>1. CASE c
    <3>1. primary_generation \in Nat /\ GEN_MAX \in Nat
      BY PrimaryGenerationType, SizesAssumption
    <3>2. backup'.gen \notin {0, GEN_MAX} /\ backup'.gen > primary_generation'
      BY <1>3, <1>6, <3>1
    <3> QED
      BY <1>3, <1>6, <2>1, <3>2 DEF backup_needed, backup_valid
  <2>2. CASE ~c
    BY <1>6, <2>2 DEF Quiet
  <2> QED
    BY <2>1, <2>2
<1>8. caller \in Callers /\ (caller = "write" => request \in Record)
  BY DEF ControlOK, CacheInv
<1>9. CASE BeginInit(caller)
  BY <1>5, <1>7, <1>8, <1>9, BeginInitInv
<1>10. CASE CommitFailed
  <2>1. CASE backup_valid' /\ BeginInit("rejected")
    BY <1>5, <1>7, <2>1, BeginInitInv DEF Callers
  <2>2. CASE ~backup_valid' /\ Return /\ UNCHANGED ram
    <3>1. Quiet'
      BY <1>7, <2>2 DEF backup_needed
    <3> QED
      BY <1>1, <1>2, <1>5, <2>2, <3>1, ReturnInv
  <2> QED
    BY <1>10, <2>1, <2>2 DEF CommitFailed
<1>11. CASE PowerOff
  BY <1>5, <1>7, <1>11, PowerOffInv
<1> QED
  BY <1>1, <1>9, <1>10, <1>11

-----------------------------------------------------------------------------
(* The calls themselves, and the rest of the firmware.                     *)

\* What the readers see is a well-formed store.
LEMMA ViewType ==
  ASSUME JournalInv, pc \in {"idle", "append"} \cup CompactSteps
  PROVE  View \in Snapshot
<1> SUFFICES ASSUME NEW t \in TYPES PROVE ValueAt(RecordsBase, last_of_type[t]) \in VALUES \cup {NONE}
  BY DEF View, Snapshot
<1>1. last_of_type[t] # 0 => RecordsBase[last_of_type[t]] \in Record
  BY DEF JournalInv, CacheInv
<1> QED
  BY <1>1 DEF ValueAt, Record

LEMMA BeginCompactInv ==
  ASSUME JournalInv, pc = "idle", ~recovery_pending, NEW who \in Callers,
         BeginCompact(who), request' \in Record \cup {NONE}, who = "write" => request' \in Record
  PROVE  JournalInv'
<1> USE DEF JournalInv, TypeOK
<1>1. /\ pc' = "eraseBackup" /\ caller' = who /\ snapshot' = View
      /\ UNCHANGED <<flash, ram, disturbances>> /\ primary_generation < GEN_MAX - 1
  BY DEF BeginCompact
<1>2. FlashOK' /\ RamOK' /\ DisturbancesOK'
  BY <1>1 DEF FlashOK, RamOK, DisturbancesOK, flash, ram
<1>3. ControlOK'
  BY <1>1, ViewType DEF ControlOK, CompactSteps
<1>4. Quiet /\ Quiet' /\ primary_generation' = primary_generation
  BY <1>1 DEF BackupInv, Quiet, flash, primary_generation
<1>5. BackupInv'
  BY <1>1, <1>4 DEF BackupInv, CompactSteps, RestoreSteps, ram
<1>6. CacheInv'
  BY <1>1 DEF CacheInv, CompactSteps, ram, flash, RecordsBase
<1> QED
  BY <1>2, <1>3, <1>5, <1>6

LEMMA CompactInv ==
  ASSUME JournalInv, Compact
  PROVE  JournalInv'
<1> USE DEF JournalInv, TypeOK
<1>1. pc = "idle" /\ UNCHANGED request
  BY DEF Compact
<1>2. CASE recovery_pending /\ UNCHANGED <<flash, disturbances>> /\ BeginInit("compact")
  <2>1. FlashOK' /\ DisturbancesOK'
    BY <1>2 DEF FlashOK, DisturbancesOK, flash
  <2>2. backup_needed'
    BY <1>2 DEF BackupInv, backup_needed, backup_valid, primary_generation, flash
  <2> QED
    BY <1>2, <2>1, <2>2, BeginInitInv DEF Callers
<1>3. CASE ~recovery_pending /\ BeginCompact("compact")
  BY <1>1, <1>3, BeginCompactInv DEF ControlOK, Callers
<1> QED
  BY <1>2, <1>3 DEF Compact

LEMMA WriteRecordInv ==
  ASSUME JournalInv, NEW t \in TYPES, NEW v \in VALUES, WriteRecord(t, v)
  PROVE  JournalInv'
<1> USE DEF JournalInv, TypeOK
<1>1. pc = "idle" /\ ~recovery_pending /\ request' \in Record
  BY DEF WriteRecord, Record
<1>2. CASE /\ used_records < CFG_RECORDS
           /\ pc' = "append" /\ caller' = "write"
           /\ UNCHANGED <<flash, ram, snapshot, disturbances>>
  <2>1. FlashOK' /\ RamOK' /\ DisturbancesOK'
    BY <1>2 DEF FlashOK, RamOK, DisturbancesOK, flash, ram
  <2>2. ControlOK'
    BY <1>1, <1>2 DEF ControlOK, Callers
  <2>3. Quiet'
    BY <1>1, <1>2 DEF BackupInv, Quiet, flash, primary_generation
  <2>4. BackupInv'
    BY <1>1, <1>2, <2>3 DEF BackupInv, CompactSteps, RestoreSteps, ram
  <2>5. CacheInv'
    BY <1>1, <1>2 DEF CacheInv, CompactSteps, ram, flash, RecordsBase
  <2> QED
    BY <2>1, <2>2, <2>4, <2>5
<1>3. CASE BeginCompact("write")
  BY <1>1, <1>3, BeginCompactInv DEF Callers
<1> QED
  BY <1>2, <1>3 DEF WriteRecord

LEMMA AppendInv ==
  ASSUME JournalInv, Append
  PROVE  JournalInv'
<1> USE DEF JournalInv, TypeOK
<1> DEFINE slot == used_records + 1
<1>1. /\ pc = "append" /\ ~recovery_pending /\ records_base = "primary"
      /\ request \in Record /\ used_records < CFG_RECORDS
      /\ UNCHANGED <<stamp, backup>>
  BY DEF Append, BackupInv, CacheInv
<1>2. PICK rc \in Outcomes, r \in {request, BLANK, TORN} :
        /\ Charge(rc)
        /\ rc = "ok" => r = request
        /\ slots' = [slots EXCEPT ![slot] = r]
        /\ \/ /\ rc = "ok" /\ Return
              /\ used_records' = slot
              /\ last_of_type' = [last_of_type EXCEPT ![request.type] = slot]
              /\ UNCHANGED <<erase_allowed, recovery_pending, records_base>>
           \/ rc = "fail" /\ Return /\ BurnSlot
           \/ rc = "cut" /\ PowerOff
  BY DEF Append
<1>3. slot \in Slots /\ slot \in 0 .. CFG_RECORDS
  BY <1>1, SizesAssumption DEF RamOK, Slots
<1>4. FlashOK' /\ DisturbancesOK'
  BY <1>1, <1>2, ChargeType DEF FlashOK
<1>5. Quiet'
  BY <1>1 DEF BackupInv, Quiet, primary_generation
<1>6. CASE rc = "cut"
  BY <1>2, <1>4, <1>5, <1>6, PowerOffInv
<1>7. CASE rc # "cut"
  <2>1. /\ Return /\ used_records' = slot
        /\ UNCHANGED <<erase_allowed, recovery_pending, records_base>>
    BY <1>2, <1>7 DEF BurnSlot
  <2>2. \/ last_of_type' = last_of_type
        \/ last_of_type' = [last_of_type EXCEPT ![request.type] = slot] /\ slots'[slot] = request
    BY <1>2, <1>3, <1>7 DEF BurnSlot, FlashOK
  <2>3. RamOK'
    BY <1>3, <2>1, <2>2 DEF RamOK
  <2>4. ControlOK'
    BY <2>1, EmptySnapshotType DEF Return, ControlOK, Callers
  <2>5. BackupInv'
    BY <1>1, <1>5, <2>1 DEF Return, BackupInv, CompactSteps, RestoreSteps
  <2>6. RecordsBase = slots /\ RecordsBase' = slots'
    BY <1>1, <2>1 DEF RecordsBase
  <2>7. ASSUME NEW t \in TYPES
        PROVE  /\ last_of_type'[t] <= used_records'
               /\ last_of_type'[t] # 0 => slots'[last_of_type'[t]] \in Record
    <3>1. /\ last_of_type[t] <= used_records /\ last_of_type[t] \in 0 .. CFG_RECORDS
          /\ last_of_type[t] # 0 => slots[last_of_type[t]] \in Record
      BY <1>1, <2>6 DEF CacheInv, RamOK
    <3>2. used_records \in Nat
      BY SizesAssumption DEF RamOK
    <3>3. \/ last_of_type'[t] = last_of_type[t]
          \/ last_of_type'[t] = slot /\ slots'[slot] = request
      BY <2>2 DEF RamOK
    <3>4. CASE last_of_type'[t] = last_of_type[t]
      <4>1. last_of_type[t] # slot
        BY <3>1, <3>2
      <4>2. last_of_type[t] # 0 => slots'[last_of_type[t]] = slots[last_of_type[t]]
        BY <1>2, <3>1, <4>1 DEF FlashOK, Slots
      <4> QED
        BY <2>1, <3>1, <3>2, <3>4, <4>2
    <3>5. CASE last_of_type'[t] = slot /\ slots'[slot] = request
      BY <1>1, <2>1, <3>2, <3>5
    <3> QED
      BY <3>3, <3>4, <3>5
  <2>8. ASSUME NEW i \in Slots, i > used_records' PROVE slots'[i] = BLANK
    <3>1. used_records \in Nat /\ i \in Nat
      BY SizesAssumption DEF RamOK, Slots
    <3>2. i # slot /\ i > used_records
      BY <2>1, <2>8, <3>1
    <3>3. slots[i] = BLANK
      BY <1>1, <3>2 DEF CacheInv
    <3> QED
      BY <1>2, <3>2, <3>3 DEF FlashOK
  <2>9. CacheInv'
    BY <1>1, <2>1, <2>6, <2>7, <2>8 DEF CacheInv, Return
  <2> QED
    BY <1>4, <2>3, <2>4, <2>5, <2>9
<1> QED
  BY <1>6, <1>7

LEMMA SetEraseAllowedInv ==
  ASSUME JournalInv, SetEraseAllowed
  PROVE  JournalInv'
<1> USE DEF JournalInv, TypeOK
<1>1. /\ pc = "idle" /\ erase_allowed' = ~erase_allowed
      /\ UNCHANGED <<flash, control, used_records, last_of_type, recovery_pending, records_base,
                     disturbances>>
  BY DEF SetEraseAllowed
<1>2. FlashOK' /\ ControlOK' /\ DisturbancesOK'
  BY <1>1 DEF FlashOK, ControlOK, DisturbancesOK, flash, control
<1>3. RamOK'
  BY <1>1 DEF RamOK
<1>4. BackupInv'
  BY <1>1 DEF BackupInv, Quiet, backup_needed, backup_valid, primary_generation, flash, control
<1>5. CacheInv'
  BY <1>1 DEF CacheInv, RecordsBase, flash, control
<1> QED
  BY <1>2, <1>3, <1>4, <1>5

\* A reset finds the flash quiet or its backup complete, wherever it strikes.
LEMMA FlashIsRecoverable ==
  ASSUME JournalInv
  PROVE  Quiet \/ backup_needed
  BY DEF JournalInv, TypeOK, ControlOK, BackupInv, RestoreSteps

LEMMA ResetInv ==
  ASSUME JournalInv, Reset
  PROVE  JournalInv'
<1>1. UNCHANGED flash /\ PowerOff /\ Charge("cut")
  BY DEF Reset
<1>2. FlashOK' /\ DisturbancesOK'
  BY <1>1, ChargeType DEF JournalInv, TypeOK, FlashOK, flash
<1>3. (Quiet \/ backup_needed)'
  BY <1>1, FlashIsRecoverable DEF flash, Quiet, backup_needed, backup_valid, primary_generation
<1> QED
  BY <1>1, <1>2, <1>3, PowerOffInv

LEMMA PowerOnInv ==
  ASSUME JournalInv, PowerOn
  PROVE  JournalInv'
<1>1. UNCHANGED <<flash, disturbances>> /\ BeginInit("boot")
  BY DEF PowerOn
<1>2. FlashOK' /\ DisturbancesOK'
  BY <1>1 DEF JournalInv, TypeOK, FlashOK, DisturbancesOK, flash
<1>3. (Quiet \/ backup_needed)'
  BY <1>1, FlashIsRecoverable DEF flash, Quiet, backup_needed, backup_valid, primary_generation
<1> QED
  BY <1>1, <1>2, <1>3, BeginInitInv DEF JournalInv, TypeOK, Callers

-----------------------------------------------------------------------------
(* The theorems.                                                           *)

\* The blank board satisfies the invariant.
LEMMA InitInv == Init => JournalInv
<1> SUFFICES ASSUME Init PROVE JournalInv
  OBVIOUS
<1>1. FlashOK
  BY ErasedTypes DEF Init, FlashOK
<1>2. 0 \in 0 .. CFG_RECORDS /\ 0 \in 0 .. MAX_DISTURBANCES
  BY SizesAssumption
<1>3. RamOK /\ DisturbancesOK
  BY <1>2 DEF Init, RamOK, DisturbancesOK
<1>4. ControlOK
  BY EmptySnapshotType DEF Init, ControlOK, Callers
<1>5. BackupInv
  BY DEF Init, BackupInv, Quiet, ErasedBackup, CompactSteps, RestoreSteps
<1>6. CacheInv
  BY DEF Init, CacheInv, CompactSteps
<1> QED
  BY <1>1, <1>3, <1>4, <1>5, <1>6 DEF JournalInv, TypeOK

\* Every flash operation, finished, failed or cut, keeps it.
LEMMA FlashStepInv ==
  ASSUME JournalInv, FlashStep
  PROVE  JournalInv'
  BY ErasePrimaryInv, WriteRecordsInv, WriteStampInv, CommitStampInv, RetireBackupInv,
     EraseBackupInv, WriteHeaderInv, WriteDataInv, WriteCommitInv, AppendInv
  DEF FlashStep

\* The stuttering step.
LEMMA StutterInv ==
  ASSUME JournalInv, UNCHANGED vars
  PROVE  JournalInv'
<1>1. UNCHANGED <<slots, stamp, backup, used_records, last_of_type, erase_allowed,
                  recovery_pending, records_base, pc, caller, snapshot, request, disturbances>>
  BY DEF vars, flash, ram, control
<1> QED
  BY <1>1 DEF JournalInv, TypeOK, FlashOK, RamOK, ControlOK, DisturbancesOK, BackupInv, CacheInv,
              Quiet, backup_needed, backup_valid, primary_generation, RecordsBase

LEMMA NextInv ==
  ASSUME JournalInv, [Next]_vars
  PROVE  JournalInv'
<1>1. CASE FlashStep
  BY <1>1, FlashStepInv
<1>2. CASE Compact
  BY <1>2, CompactInv
<1>3. CASE \E t \in TYPES, v \in VALUES : WriteRecord(t, v)
  BY <1>3, WriteRecordInv
<1>4. CASE SetEraseAllowed
  BY <1>4, SetEraseAllowedInv
<1>5. CASE Reset
  BY <1>5, ResetInv
<1>6. CASE PowerOn
  BY <1>6, PowerOnInv
<1>7. CASE UNCHANGED vars
  BY <1>7, StutterInv
<1> QED
  BY <1>1, <1>2, <1>3, <1>4, <1>5, <1>6, <1>7 DEF Next

\* The inductive invariant of the journal holds in every reachable state,
\* whatever flash operations fail and wherever resets strike.
THEOREM JournalInvariant == Spec => []JournalInv
<1>1. Init => JournalInv
  BY InitInv
<1>2. JournalInv /\ [Next]_vars => JournalInv'
  BY NextInv
<1> QED
  BY <1>1, <1>2, PTL DEF Spec

\* Every variable of the journal stays within its type.
THEOREM JournalTypes == Spec => []TypeOK
<1>1. JournalInv => TypeOK
  BY DEF JournalInv
<1> QED
  BY <1>1, JournalInvariant, PTL

\* A boot never replays a snapshot older than an append it would undo.
THEOREM NoStaleReplayTheorem == Spec => []NoStaleReplay
<1>1. JournalInv => NoStaleReplay
  <2> SUFFICES ASSUME JournalInv, pc \in {"idle", "append"}, ~recovery_pending, backup_needed
               PROVE  FALSE
    BY DEF NoStaleReplay
  <2>1. backup.commit /\ backup.gen <= primary_generation /\ backup.gen > primary_generation
    BY DEF JournalInv, BackupInv, Quiet, backup_needed, backup_valid
  <2>2. backup.gen \in Nat /\ primary_generation \in Nat
    BY PrimaryGenerationType, SizesAssumption DEF JournalInv, TypeOK, FlashOK, Backups
  <2> QED
    BY <2>1, <2>2
<1> QED
  BY <1>1, JournalInvariant, PTL

\* An append is always programmed into an erased slot.
THEOREM TailIsBlankTheorem == Spec => []TailIsBlank
<1>1. JournalInv => TailIsBlank
  BY DEF JournalInv, CacheInv, TailIsBlank
<1> QED
  BY <1>1, JournalInvariant, PTL

\* The generation the next boot adopts, when nothing outranks the primary,
\* and when the backup does; first in this state, then in the next.
LEMMA EpochCases ==
  ASSUME JournalInv
  PROVE  /\ Quiet => Epoch = primary_generation
         /\ backup_needed => Epoch = backup.gen
         /\ primary_generation \in Nat /\ backup.gen \in Nat
         /\ Quiet \/ backup_needed
<1>1. backup.gen \in Nat /\ primary_generation \in Nat
  BY PrimaryGenerationType, SizesAssumption DEF JournalInv, TypeOK, FlashOK, Backups
<1>2. Quiet => ~backup_needed
  BY <1>1 DEF Quiet, backup_needed, backup_valid
<1> QED
  BY <1>1, <1>2, FlashIsRecoverable DEF Epoch

LEMMA EpochCasesNext ==
  ASSUME JournalInv'
  PROVE  /\ Quiet' => Epoch' = primary_generation'
         /\ backup_needed' => Epoch' = backup'.gen /\ backup'.gen > primary_generation'
         /\ primary_generation' \in Nat /\ backup'.gen \in Nat
         /\ Quiet' \/ backup_needed'
<1>1. backup'.gen \in Nat /\ stamp'.gen \in Nat
  BY SizesAssumption DEF JournalInv, TypeOK, FlashOK, Backups
<1>2. primary_generation' \in Nat
  BY <1>1 DEF primary_generation
<1>3. Quiet' => ~backup_needed'
  BY <1>1, <1>2 DEF Quiet, backup_needed, backup_valid
<1>4. backup_needed' => backup'.gen > primary_generation'
  BY DEF backup_needed
<1>5. Quiet' \/ backup_needed'
  BY DEF JournalInv, TypeOK, ControlOK, BackupInv, RestoreSteps
<1> QED
  BY <1>1, <1>2, <1>3, <1>4, <1>5 DEF Epoch

\* While the backup is being moved into the primary it stays as it is.
LEMMA EpochWhileRestoring ==
  ASSUME JournalInv, JournalInv', backup_needed, UNCHANGED backup
  PROVE  Epoch' >= Epoch
<1>1. Epoch = backup.gen /\ backup.commit
  BY EpochCases DEF backup_needed, backup_valid
<1>2. CASE Quiet'
  BY <1>1, <1>2, EpochCasesNext DEF Quiet
<1>3. CASE backup_needed'
  BY <1>1, <1>3, EpochCasesNext
<1> QED
  BY <1>2, <1>3, EpochCasesNext

\* At all other times the stamp stays as it is.
LEMMA EpochWhileQuiet ==
  ASSUME JournalInv, JournalInv', Quiet, UNCHANGED stamp
  PROVE  Epoch' >= Epoch
<1>1. Epoch = primary_generation /\ primary_generation' = primary_generation
  BY EpochCases DEF primary_generation
<1> QED
  BY <1>1, EpochCasesNext

\* No step, failing or cut short, lets an older generation win.
THEOREM EpochTheorem == Spec => EpochNeverRegresses
<1>1. JournalInv /\ JournalInv' /\ [Next]_vars => [Epoch' >= Epoch]_vars
  <2> SUFFICES ASSUME JournalInv, JournalInv', Next PROVE Epoch' >= Epoch
    OBVIOUS
  <2>1. CASE ErasePrimary \/ WriteRecords \/ WriteStamp \/ CommitStamp
    <3>1. pc \in RestoreSteps \ {"retire"} /\ UNCHANGED backup
      BY <2>1 DEF ErasePrimary, WriteRecords, WriteStamp, CommitStamp, RestoreSteps
    <3> QED
      BY <3>1, EpochWhileRestoring DEF JournalInv, BackupInv
  <2>2. CASE \/ RetireBackup \/ EraseBackup \/ WriteHeader \/ WriteData \/ WriteCommit \/ Append
    <3>1. pc \in {"append", "retire"} \cup CompactSteps
      BY <2>2 DEF RetireBackup, EraseBackup, WriteHeader, WriteData, WriteCommit, Append,
                  CompactSteps
    <3>2. Quiet
      BY <3>1 DEF JournalInv, BackupInv, CompactSteps
    <3>3. UNCHANGED stamp
      BY <2>2 DEF RetireBackup, EraseBackup, WriteHeader, WriteData, WriteCommit, Append,
                  CompactStep
    <3> QED
      BY <3>2, <3>3, EpochWhileQuiet
  <2>3. CASE \/ Compact \/ SetEraseAllowed \/ Reset \/ PowerOn
             \/ \E t \in TYPES, v \in VALUES : WriteRecord(t, v)
    <3>1. UNCHANGED <<stamp, backup>>
      BY <2>3 DEF Compact, SetEraseAllowed, Reset, PowerOn, WriteRecord, BeginCompact, flash
    <3> QED
      BY <3>1, EpochCases, EpochWhileQuiet, EpochWhileRestoring
  <2> QED
    BY <2>1, <2>2, <2>3 DEF Next, FlashStep
<1> QED
  BY <1>1, JournalInvariant, PTL DEF Spec, EpochNeverRegresses

-----------------------------------------------------------------------------
(* Reading the journal: what a scan finds, and that it finds a snapshot again. *)

\* Where the records of one type stand, whatever their values.
OfType(recs, t) == {i \in Slots : recs[i] \in Record /\ recs[i].type = t}

\* What a reader gets for a type is the record of that type nearest the end of
\* the journal, and nothing when there is none.
LEMMA ContentsFacts ==
  ASSUME NEW recs \in [Slots -> Record \cup {BLANK, TORN}], NEW t \in TYPES
  PROVE  /\ ScanLast(recs)[t] \in {0} \cup OfType(recs, t)
         /\ \A i \in OfType(recs, t) : ScanLast(recs)[t] >= i
         /\ ScanLast(recs)[t] = Max({0} \cup OfType(recs, t))
         /\ Contents(recs)[t] = ValueAt(recs, ScanLast(recs)[t])
         /\ Contents(recs) = [u \in TYPES |-> ValueAt(recs, ScanLast(recs)[u])]
<1>1. CFG_RECORDS \in Nat
  BY SizesAssumption
<1>2. {0} \cup OfType(recs, t) \in SUBSET (0 .. CFG_RECORDS) /\ {0} \cup OfType(recs, t) # {}
  BY <1>1 DEF OfType, Slots
<1>3. {i \in NonBlank(recs) : recs[i] \in Record /\ recs[i].type = t} = OfType(recs, t)
  BY MarksAssumption DEF NonBlank, OfType
<1>4. ScanLast(recs)[t] = Max({0} \cup OfType(recs, t))
  BY <1>3 DEF ScanLast
<1>5. Contents(recs) = [u \in TYPES |-> ValueAt(recs, ScanLast(recs)[u])]
  BY DEF Contents
<1>6. /\ Max({0} \cup OfType(recs, t)) \in {0} \cup OfType(recs, t)
      /\ \A y \in {0} \cup OfType(recs, t) : Max({0} \cup OfType(recs, t)) >= y
  BY <1>1, <1>2, MaxOfIndices
<1> QED
  BY <1>4, <1>5, <1>6, Zenon

LEMMA ContentsType ==
  ASSUME NEW recs \in [Slots -> Record \cup {BLANK, TORN}]
  PROVE  Contents(recs) \in Snapshot
<1> SUFFICES ASSUME NEW t \in TYPES PROVE Contents(recs)[t] \in VALUES \cup {NONE}
  BY DEF Contents, Snapshot
<1>1. PICK i \in {0} \cup OfType(recs, t) : Contents(recs)[t] = ValueAt(recs, i)
  BY ContentsFacts
<1> QED
  BY <1>1 DEF ValueAt, OfType, Record

\* Records of other types, torn and erased slots make no difference to a type.
LEMMA ContentsSame ==
  ASSUME NEW recs \in [Slots -> Record \cup {BLANK, TORN}],
         NEW other \in [Slots -> Record \cup {BLANK, TORN}], NEW t \in TYPES,
         OfType(other, t) = OfType(recs, t), \A i \in OfType(recs, t) : other[i] = recs[i]
  PROVE  Contents(other)[t] = Contents(recs)[t]
<1>1. PICK i \in {0} \cup OfType(recs, t) :
        Contents(recs)[t] = ValueAt(recs, i) /\ i = Max({0} \cup OfType(recs, t))
  BY ContentsFacts
<1>2. PICK j \in {0} \cup OfType(other, t) :
        Contents(other)[t] = ValueAt(other, j) /\ j = Max({0} \cup OfType(other, t))
  BY ContentsFacts
<1>3. j = i
  BY <1>1, <1>2
<1> QED
  BY <1>1, <1>2, <1>3 DEF ValueAt

\* The record of a type with none behind it is the one the readers get.
LEMMA NewestWins ==
  ASSUME NEW recs \in [Slots -> Record \cup {BLANK, TORN}], NEW i \in Slots, recs[i] \in Record,
         \A j \in OfType(recs, recs[i].type) : j <= i
  PROVE  Contents(recs)[recs[i].type] = recs[i].val
<1>1. PICK t \in TYPES : t = recs[i].type
  BY DEF Record
<1>2. i \in OfType(recs, t)
  BY <1>1 DEF OfType
<1>3. PICK j \in {0} \cup OfType(recs, t) :
        Contents(recs)[t] = ValueAt(recs, j) /\ \A k \in OfType(recs, t) : j >= k
  BY ContentsFacts
<1>4. j = i
  <2>1. j >= i /\ i \in Nat /\ i > 0
    BY <1>2, <1>3, SizesAssumption DEF Slots
  <2>2. j # 0
    BY <2>1
  <2>3. j \in OfType(recs, t) /\ j \in Nat
    BY <1>3, <2>2, SizesAssumption DEF OfType, Slots
  <2> QED
    BY <1>1, <2>1, <2>3
<1> QED
  BY <1>1, <1>3, <1>4, SizesAssumption DEF ValueAt, Slots

LEMMA AbsentType ==
  ASSUME NEW recs \in [Slots -> Record \cup {BLANK, TORN}], NEW t \in TYPES, OfType(recs, t) = {}
  PROVE  Contents(recs)[t] = NONE
  BY ContentsFacts DEF ValueAt

\* Two types of a snapshot never share a slot of its image.
LEMMA RankFacts ==
  ASSUME NEW snap \in Snapshot, NEW t \in TYPES, snap[t] # NONE
  PROVE  /\ Rank(snap, t) \in Slots
         /\ \A u \in TYPES : snap[u] # NONE /\ Rank(snap, u) = Rank(snap, t) => u = t
<1> DEFINE Upto(u) == {w \in 1 .. u : snap[w] # NONE}
<1>1. CFG_TYPES \in Nat /\ CFG_RECORDS \in Nat /\ CFG_TYPES <= CFG_RECORDS
  BY SizesAssumption
<1>2. IsFiniteSet(1 .. CFG_TYPES) /\ Cardinality(1 .. CFG_TYPES) = CFG_TYPES
  <2>1. 1 \in Int /\ CFG_TYPES \in Int /\ (1 > CFG_TYPES => CFG_TYPES = 0)
    BY <1>1
  <2> QED
    BY <1>1, <2>1, FS_Interval
<1>3. ASSUME NEW u \in TYPES
      PROVE  /\ IsFiniteSet(Upto(u)) /\ Cardinality(Upto(u)) \in Nat
             /\ Cardinality(Upto(u)) <= CFG_TYPES /\ Rank(snap, u) = Cardinality(Upto(u))
  <2>1. Upto(u) \in SUBSET (1 .. CFG_TYPES)
    BY <1>1 DEF TYPES
  <2>2. IsFiniteSet(Upto(u)) /\ Cardinality(Upto(u)) <= CFG_TYPES
    BY <1>2, <2>1, FS_Subset, ZenonT(30)
  <2>3. Cardinality(Upto(u)) \in Nat
    BY <2>2, FS_CardinalityType
  <2> QED
    BY <2>2, <2>3 DEF Rank
<1>4. ASSUME NEW u \in TYPES, NEW w \in TYPES, u < w, snap[w] # NONE
      PROVE  Rank(snap, u) < Rank(snap, w)
  <2>1. w \in Upto(w) /\ w \notin Upto(u)
    BY <1>1, <1>4 DEF TYPES
  <2>2. Upto(u) \in SUBSET Upto(w)
    BY <1>1, <1>4 DEF TYPES
  <2>3. Upto(u) # Upto(w)
    BY <2>1
  <2> HIDE DEF Upto
  <2>4. Cardinality(Upto(u)) <= Cardinality(Upto(w)) /\ Cardinality(Upto(u)) # Cardinality(Upto(w))
    BY <1>3, <2>2, <2>3, FS_Subset
  <2> QED
    BY <1>3, <2>4
<1>5. Rank(snap, t) \in Slots
  <2>1. t \in Upto(t)
    BY <1>1 DEF TYPES
  <2> HIDE DEF Upto
  <2>2. Cardinality(Upto(t)) # 0
    BY <1>3, <2>1, FS_EmptySet
  <2> QED
    BY <1>1, <1>3, <2>2 DEF Slots
<1>6. ASSUME NEW u \in TYPES, snap[u] # NONE, Rank(snap, u) = Rank(snap, t) PROVE u = t
  <2> HIDE DEF Upto
  <2>1. u < t \/ t < u \/ u = t
    BY <1>1 DEF TYPES
  <2>2. Rank(snap, u) \in Nat /\ Rank(snap, t) \in Nat
    BY <1>3
  <2>3. ~(Rank(snap, u) < Rank(snap, t)) /\ ~(Rank(snap, t) < Rank(snap, u))
    BY <1>6, <2>2
  <2> QED
    BY <1>4, <1>6, <2>1, <2>3
<1> QED
  BY <1>5, <1>6

\* Reading back the image of a snapshot gives the snapshot: what compaction and
\* restore_backup rest on.
LEMMA ImageReadsBack ==
  ASSUME NEW snap \in Snapshot
  PROVE  Contents(Image(snap)) = snap
<1> DEFINE Here(i, t) == snap[t] # NONE /\ Rank(snap, t) = i
<1>1. Image(snap) \in [Slots -> Record \cup {BLANK, TORN}]
  BY ImageType
<1>2. ASSUME NEW i \in Slots, NEW t \in TYPES, Here(i, t)
      PROVE  Image(snap)[i] = [type |-> t, val |-> snap[t]]
  <2>1. (CHOOSE u \in TYPES : Here(i, u)) = t
    BY <1>2, RankFacts
  <2> QED
    BY <1>2, <2>1 DEF Image
<1>3. ASSUME NEW i \in Slots, NEW t \in TYPES, i \in OfType(Image(snap), t)
      PROVE  Here(i, t)
  <2>1. Image(snap)[i] # BLANK /\ Image(snap)[i].type = t
    BY <1>3, MarksAssumption DEF OfType
  <2>2. PICK u \in TYPES : Here(i, u)
    BY <2>1 DEF Image
  <2>3. Image(snap)[i] = [type |-> u, val |-> snap[u]]
    BY <1>2, <2>2
  <2> QED
    BY <2>1, <2>2, <2>3
<1> HIDE DEF Here
<1>4. ASSUME NEW t \in TYPES PROVE Contents(Image(snap))[t] = snap[t]
  <2>1. CASE snap[t] = NONE
    <3>1. OfType(Image(snap), t) = {}
      BY <1>3, <2>1 DEF OfType, Here
    <3> QED
      BY <1>1, <2>1, <3>1, AbsentType
  <2>2. CASE snap[t] # NONE
    <3>1. PICK i \in Slots : i = Rank(snap, t)
      BY <2>2, RankFacts
    <3>2. Image(snap)[i] = [type |-> t, val |-> snap[t]]
      BY <1>2, <2>2, <3>1 DEF Here
    <3>3. snap[t] \in VALUES
      BY <2>2 DEF Snapshot
    <3>4. Image(snap)[i] \in Record /\ Image(snap)[i].type = t /\ Image(snap)[i].val = snap[t]
      BY <3>2, <3>3 DEF Record
    <3>5. \A j \in OfType(Image(snap), t) : j = i
      BY <1>3, <3>1 DEF OfType, Here
    <3>6. \A j \in OfType(Image(snap), Image(snap)[i].type) : j <= i
      BY <3>1, <3>4, <3>5, SizesAssumption DEF Slots
    <3>7. Contents(Image(snap))[Image(snap)[i].type] = Image(snap)[i].val
      BY <1>1, <3>4, <3>6, NewestWins
    <3> QED
      BY <3>4, <3>7
  <2> QED
    BY <2>1, <2>2
<1>5. Contents(Image(snap)) \in Snapshot
  BY <1>1, ContentsType
<1> QED
  BY <1>4, <1>5 DEF Snapshot

-----------------------------------------------------------------------------
(* The journal implements the plain store.                                 *)

\* What the RAM copies of a compaction hold, and that the backup the readers
\* fall back to is the store they saw.
StoreInv ==
  /\ recovery_pending => View = backup.data
  /\ pc \in CompactSteps => snapshot = View
  /\ pc \in RestoreSteps \ {"retire"} => snapshot = backup.data
  /\ pc \in {"writeStamp", "commitStamp"} => slots = Image(snapshot)

\* A step of the journal is a step of the plain store, or none.
StoreStep == [Store!Next]_(Store!storeVars)

LEMMA StoreSteps ==
  /\ Durable' = Durable /\ Seen' = Seen => StoreStep
  /\ Durable' = Durable /\ Seen' = Durable => StoreStep
  /\ Durable' = Seen /\ Seen' = Seen => StoreStep
  /\ \A t \in TYPES, v \in VALUES :
       /\ Durable' = [Durable EXCEPT ![t] = v]
       /\ \/ Seen' = [Seen EXCEPT ![t] = v]
          \/ Seen' = Seen
          \/ Seen' = Durable'
       => StoreStep
  BY DEF StoreStep, Store!Next, Store!storeVars, Store!Write, Store!Settle, Store!Restart

-----------------------------------------------------------------------------
(* How a call ends: the readers see the durable store again.               *)

LEMMA PowerOffStore ==
  ASSUME PowerOff
  PROVE  StoreInv' /\ Seen' = Durable'
<1>1. pc' = "off" /\ recovery_pending' = FALSE
  BY DEF PowerOff
<1> QED
  BY <1>1 DEF StoreInv, Seen, CompactSteps, RestoreSteps

LEMMA FinishInitStore ==
  ASSUME FlashOK', NEW who, NEW lost \in BOOLEAN, lost <=> backup_needed', FinishInit(who, lost)
  PROVE  StoreInv' /\ Seen' = Durable'
<1> DEFINE recs == IF lost THEN Image(backup'.data) ELSE slots'
<1>1. lost => backup'.data \in Snapshot
  BY DEF FlashOK, Backups, backup_needed, backup_valid
<1>2. recs \in [Slots -> Record \cup {BLANK, TORN}]
  BY <1>1, ImageType DEF FlashOK
<1>3. /\ recs = RecordsBase' /\ last_of_type' = ScanLast(recs)
      /\ pc' \in {"idle", "append"} /\ recovery_pending' = lost
  BY DEF FinishInit, RecordsBase, Return
<1>4. Contents(recs) = Durable'
  BY <1>1, ImageReadsBack DEF Durable
<1> HIDE DEF recs
<1>5. View' = Contents(recs)
  BY <1>3 DEF View, Contents
<1>6. recovery_pending' => View' = backup'.data
  BY <1>3, <1>4, <1>5 DEF Durable
<1> QED
  BY <1>3, <1>4, <1>5, <1>6 DEF StoreInv, Seen, CompactSteps, RestoreSteps

LEMMA BeginInitStore ==
  ASSUME FlashOK', NEW who, BeginInit(who)
  PROVE  StoreInv' /\ Seen' = Durable'
<1>1. CASE backup_needed'
  <2>1. pc' = "erasePrimary" /\ snapshot' = backup'.data /\ recovery_pending' = FALSE
    BY <1>1 DEF BeginInit
  <2> QED
    BY <2>1 DEF StoreInv, Seen, CompactSteps, RestoreSteps
<1>2. CASE ~backup_needed'
  BY <1>2, FinishInitStore DEF BeginInit
<1> QED
  BY <1>1, <1>2

\* restore_backup does not change what the next boot adopts, and the readers
\* have nothing else.
LEMMA RestoreEndsStore ==
  ASSUME FlashOK', pc \in RestoreSteps, Durable' = Durable,
         NEW rc, rc # "ok", NEW next, RestoreStep(rc, next)
  PROVE  StoreInv' /\ StoreStep
<1>1. backup_needed' \in BOOLEAN
  BY DEF backup_needed
<1>2. StoreInv' /\ Seen' = Durable'
  BY <1>1, PowerOffStore, FinishInitStore DEF RestoreStep
<1> QED
  BY <1>2, StoreSteps

LEMMA RestoreGoesOnStore ==
  ASSUME pc \in RestoreSteps, Durable' = Durable, ~recovery_pending,
         NEW next \in RestoreSteps, RestoreStep("ok", next)
  PROVE  /\ pc' = next /\ snapshot' = snapshot /\ recovery_pending' = recovery_pending
         /\ StoreStep
<1>1. pc' = next /\ snapshot' = snapshot /\ recovery_pending' = recovery_pending
  BY DEF RestoreStep, ram
<1>2. Seen = Durable /\ Seen' = Durable'
  BY <1>1 DEF Seen, RestoreSteps, CompactSteps
<1> QED
  BY <1>1, <1>2, StoreSteps

\* With the primary in use and the backup sector quiet, the store is what the
\* journal holds.
LEMMA QuietFacts ==
  ASSUME JournalInv, Quiet
  PROVE  ~backup_needed /\ Durable = Contents(slots)
  BY EpochCases DEF Durable, Quiet, backup_needed, backup_valid

LEMMA ViewKept ==
  ASSUME CacheInv, ~recovery_pending, UNCHANGED <<slots, ram>>
  PROVE  View' = View /\ recovery_pending' = recovery_pending
  BY DEF CacheInv, View, RecordsBase, ram

\* A step of cfg_compact before the commit word.
LEMMA CompactStepStore ==
  ASSUME JournalInv, StoreInv, pc \in CompactSteps, ~backup_needed',
         NEW rc \in Outcomes, NEW next \in CompactSteps, CompactStep(rc, next)
  PROVE  StoreInv' /\ StoreStep
<1>1. ~recovery_pending /\ Quiet /\ UNCHANGED <<slots, stamp>>
  BY DEF JournalInv, BackupInv, CompactSteps, CompactStep
<1>2. Durable = Contents(slots) /\ Durable' = Contents(slots')
  BY <1>1, QuietFacts DEF Durable
<1>3. Durable' = Durable
  BY <1>1, <1>2
<1>4. CASE PowerOff
  BY <1>3, <1>4, PowerOffStore, StoreSteps
<1>5. CASE UNCHANGED ram /\ ((pc' = next /\ UNCHANGED snapshot) \/ Return)
  <2>1. View' = View /\ ~recovery_pending'
    BY <1>1, <1>5, ViewKept DEF JournalInv
  <2>2. pc' = "idle" \/ (pc' \in CompactSteps /\ snapshot' = snapshot)
    BY <1>5 DEF Return
  <2>3. Seen' = View' /\ Seen = View
    BY <2>2 DEF Seen
  <2>4. StoreInv'
    BY <2>1, <2>2 DEF StoreInv, CompactSteps, RestoreSteps
  <2> QED
    BY <1>3, <2>1, <2>3, <2>4, StoreSteps
<1> QED
  BY <1>4, <1>5 DEF CompactStep

-----------------------------------------------------------------------------
(* restore_backup.                                                         *)

LEMMA ErasePrimaryStore ==
  ASSUME JournalInv, StoreInv, JournalInv', ErasePrimary
  PROVE  StoreInv' /\ StoreStep
<1>1. PICK rc \in Outcomes :
        /\ stamp' \in IF rc = "ok" THEN {ErasedStamp} ELSE PartlyErasedStamp
        /\ UNCHANGED backup
        /\ RestoreStep(rc, "writeRecords")
  BY DEF ErasePrimary
<1>2. /\ pc = "erasePrimary" /\ pc \in RestoreSteps /\ backup_needed /\ ~recovery_pending
      /\ snapshot = backup.data
  BY DEF ErasePrimary, JournalInv, BackupInv, RestoreSteps, StoreInv
<1>3. FlashOK /\ FlashOK'
  BY DEF JournalInv, TypeOK
<1>4. primary_generation' = 0 \/ primary_generation' = primary_generation
  BY <1>1, <1>3, PartlyErasedStampFacts DEF primary_generation, ErasedStamp, Outcomes
<1>5. backup_needed'
  <2>1. backup.gen \in Nat /\ backup.gen > 0
    BY <1>2, <1>3 DEF FlashOK, Backups, backup_needed, backup_valid
  <2> QED
    BY <1>1, <1>2, <1>4, <2>1 DEF backup_needed, backup_valid
<1>6. Durable' = Durable
  BY <1>1, <1>2, <1>5 DEF Durable
<1>7. CASE rc = "ok"
  <2>1. /\ pc' = "writeRecords" /\ snapshot' = snapshot /\ ~recovery_pending'
        /\ StoreStep
    BY <1>1, <1>2, <1>6, <1>7, RestoreGoesOnStore DEF RestoreSteps
  <2> QED
    BY <1>1, <1>2, <2>1 DEF StoreInv, RestoreSteps, CompactSteps
<1>8. CASE rc # "ok"
  BY <1>1, <1>2, <1>3, <1>6, <1>8, RestoreEndsStore
<1> QED
  BY <1>7, <1>8

LEMMA WriteRecordsStore ==
  ASSUME JournalInv, StoreInv, JournalInv', WriteRecords
  PROVE  StoreInv' /\ StoreStep
<1>1. PICK rc \in Outcomes :
        /\ rc = "ok" => slots' = Image(snapshot)
        /\ UNCHANGED <<stamp, backup>>
        /\ RestoreStep(rc, "writeStamp")
  BY DEF WriteRecords
<1>2. /\ pc = "writeRecords" /\ pc \in RestoreSteps /\ backup_needed /\ ~recovery_pending
      /\ snapshot = backup.data
  BY DEF WriteRecords, JournalInv, BackupInv, RestoreSteps, StoreInv
<1>3. FlashOK'
  BY DEF JournalInv, TypeOK
<1>4. Durable' = Durable
  BY <1>1, <1>2 DEF Durable, backup_needed, backup_valid, primary_generation
<1>5. CASE rc = "ok"
  <2>1. pc' = "writeStamp" /\ snapshot' = snapshot /\ ~recovery_pending' /\ StoreStep
    BY <1>1, <1>2, <1>4, <1>5, RestoreGoesOnStore DEF RestoreSteps
  <2>2. slots' = Image(snapshot') /\ snapshot' = backup'.data
    BY <1>1, <1>2, <1>5, <2>1
  <2> QED
    BY <2>1, <2>2 DEF StoreInv, RestoreSteps, CompactSteps
<1>6. CASE rc # "ok"
  BY <1>1, <1>2, <1>3, <1>4, <1>6, RestoreEndsStore
<1> QED
  BY <1>5, <1>6

LEMMA WriteStampStore ==
  ASSUME JournalInv, StoreInv, JournalInv', WriteStamp
  PROVE  StoreInv' /\ StoreStep
<1>1. PICK rc \in Outcomes :
        /\ \E g \in {backup.gen, 0} : stamp' = [stamp EXCEPT !.gen = g]
        /\ UNCHANGED <<slots, backup>>
        /\ RestoreStep(rc, "commitStamp")
  BY DEF WriteStamp
<1>2. /\ pc = "writeStamp" /\ pc \in RestoreSteps /\ backup_needed /\ ~recovery_pending
      /\ stamp = ErasedStamp /\ snapshot = backup.data /\ slots = Image(snapshot)
  BY DEF WriteStamp, JournalInv, BackupInv, RestoreSteps, StoreInv
<1>3. FlashOK'
  BY DEF JournalInv, TypeOK
<1>4. backup_needed'
  BY <1>1, <1>2 DEF backup_needed, backup_valid, primary_generation, ErasedStamp
<1>5. Durable' = Durable
  BY <1>1, <1>2, <1>4 DEF Durable
<1>6. CASE rc = "ok"
  <2>1. pc' = "commitStamp" /\ snapshot' = snapshot /\ ~recovery_pending' /\ StoreStep
    BY <1>1, <1>2, <1>5, <1>6, RestoreGoesOnStore DEF RestoreSteps
  <2>2. slots' = Image(snapshot') /\ snapshot' = backup'.data
    BY <1>1, <1>2, <2>1
  <2> QED
    BY <2>1, <2>2 DEF StoreInv, RestoreSteps, CompactSteps
<1>7. CASE rc # "ok"
  BY <1>1, <1>2, <1>3, <1>5, <1>7, RestoreEndsStore
<1> QED
  BY <1>6, <1>7

\* The commit word of the stamp hands the store over from the backup to the
\* primary, which by then holds the same records.
LEMMA CommitStampStore ==
  ASSUME JournalInv, StoreInv, JournalInv', CommitStamp
  PROVE  StoreInv' /\ StoreStep
<1>1. PICK rc \in Outcomes : UNCHANGED <<slots, backup>> /\ RestoreStep(rc, "retire")
  BY DEF CommitStamp
<1>2. /\ pc = "commitStamp" /\ pc \in RestoreSteps /\ backup_needed /\ ~recovery_pending
      /\ snapshot = backup.data /\ slots = Image(snapshot)
  BY DEF CommitStamp, JournalInv, BackupInv, RestoreSteps, StoreInv
<1>3. FlashOK' /\ snapshot \in Snapshot
  BY DEF JournalInv, TypeOK, ControlOK
<1>4. Contents(slots') = backup'.data
  BY <1>1, <1>2, <1>3, ImageReadsBack
<1>5. Durable' = Durable
  BY <1>1, <1>2, <1>4 DEF Durable
<1>6. CASE rc = "ok"
  <2>1. pc' = "retire" /\ ~recovery_pending' /\ StoreStep
    BY <1>1, <1>2, <1>5, <1>6, RestoreGoesOnStore DEF RestoreSteps
  <2> QED
    BY <2>1 DEF StoreInv, RestoreSteps, CompactSteps
<1>7. CASE rc # "ok"
  BY <1>1, <1>2, <1>3, <1>5, <1>7, RestoreEndsStore
<1> QED
  BY <1>6, <1>7

LEMMA RetireBackupStore ==
  ASSUME JournalInv, StoreInv, JournalInv', RetireBackup
  PROVE  StoreInv' /\ StoreStep
<1>1. PICK rc \in Outcomes :
        /\ \E r \in BOOLEAN : backup' = [backup EXCEPT !.retired = r]
        /\ UNCHANGED <<slots, stamp>>
        /\ \/ rc = "ok" /\ FinishInit(caller, FALSE)
           \/ rc # "ok" /\ RestoreStep(rc, "retire")
  BY DEF RetireBackup
<1>2. pc = "retire" /\ pc \in RestoreSteps /\ Quiet
  BY DEF RetireBackup, JournalInv, BackupInv, RestoreSteps
<1>3. FlashOK /\ FlashOK'
  BY DEF JournalInv, TypeOK
<1>4. Quiet'
  BY <1>1, <1>2, <1>3 DEF Quiet, primary_generation, FlashOK, Backups
<1>5. ~backup_needed /\ Durable = Contents(slots)
  BY <1>2, QuietFacts
<1>6. ~backup_needed'
  BY <1>4, EpochCasesNext DEF Quiet, backup_needed, backup_valid
<1>7. Durable' = Durable
  BY <1>1, <1>5, <1>6 DEF Durable
<1>8. CASE rc = "ok"
  <2>1. StoreInv' /\ Seen' = Durable'
    BY <1>1, <1>3, <1>6, <1>8, FinishInitStore
  <2> QED
    BY <1>7, <2>1, StoreSteps
<1>9. CASE rc # "ok"
  BY <1>1, <1>2, <1>3, <1>7, <1>9, RestoreEndsStore
<1> QED
  BY <1>8, <1>9

-----------------------------------------------------------------------------
(* cfg_compact.                                                            *)

LEMMA CompactionStore ==
  ASSUME JournalInv, StoreInv, JournalInv', EraseBackup \/ WriteHeader \/ WriteData
  PROVE  StoreInv' /\ StoreStep
<1>1. /\ pc \in CompactSteps /\ Quiet /\ FlashOK
      /\ pc \in {"writeHeader", "writeData"} => ~backup.commit
  BY DEF EraseBackup, WriteHeader, WriteData, CompactSteps, JournalInv, TypeOK, BackupInv
<1>2. PICK rc \in Outcomes, next \in CompactSteps : CompactStep(rc, next)
  BY DEF EraseBackup, WriteHeader, WriteData, CompactSteps
<1>3. primary_generation' = primary_generation /\ primary_generation \in Nat
  BY <1>2, EpochCases DEF CompactStep, primary_generation
<1>4. CASE EraseBackup
  <2>1. backup' = ErasedBackup \/ backup' \in PartlyErasedBackup
    BY <1>4 DEF EraseBackup
  <2>2. ASSUME backup' = ErasedBackup PROVE ~backup_needed'
    BY <2>2 DEF ErasedBackup, backup_needed, backup_valid
  <2>3. ASSUME backup' \in PartlyErasedBackup PROVE ~backup_needed'
    <3>1. (backup'.gen = 0 \/ backup'.gen = backup.gen) /\ (backup'.commit => backup.commit)
      BY <1>1, <2>3, PartlyErasedBackupFacts
    <3>2. backup.gen \in Nat
      BY EpochCases
    <3> QED
      BY <1>1, <1>3, <3>1, <3>2 DEF Quiet, backup_needed, backup_valid
  <2>4. ~backup_needed'
    BY <2>1, <2>2, <2>3
  <2> QED
    BY <1>1, <1>2, <2>4, CompactStepStore
<1>5. CASE WriteHeader \/ WriteData
  <2>1. ~backup.commit
    BY <1>1, <1>5 DEF WriteHeader, WriteData
  <2>2. \/ \E g : backup' = [backup EXCEPT !.gen = g, !.sum = snapshot]
        \/ \E d : backup' = [backup EXCEPT !.data = d]
    BY <1>5 DEF WriteHeader, WriteData
  <2>3. backup'.commit = backup.commit
    BY <1>1, <2>2 DEF FlashOK, Backups
  <2>4. ~backup_needed'
    BY <2>1, <2>3 DEF backup_needed, backup_valid
  <2> QED
    BY <1>1, <1>2, <2>4, CompactStepStore
<1> QED
  BY <1>4, <1>5

\* The commit word of the backup makes what the readers see durable, at once
\* and as a whole.
LEMMA WriteCommitStore ==
  ASSUME JournalInv, StoreInv, JournalInv', WriteCommit
  PROVE  StoreInv' /\ StoreStep
<1>1. PICK rc \in Outcomes :
        /\ \E c \in BOOLEAN : backup' = [backup EXCEPT !.commit = c] /\ (rc = "ok" => c)
        /\ UNCHANGED <<slots, stamp>>
        /\ \/ rc = "ok" /\ BeginInit(caller)
           \/ rc = "fail" /\ CommitFailed
           \/ rc = "cut" /\ PowerOff
  BY DEF WriteCommit
<1>2. PICK c \in BOOLEAN : backup' = [backup EXCEPT !.commit = c] /\ (rc = "ok" => c)
  BY <1>1
<1>3. pc = "writeCommit" /\ pc \in CompactSteps
  BY DEF WriteCommit, CompactSteps
<1>4. /\ primary_generation < GEN_MAX - 1 /\ ~backup.retired /\ ~recovery_pending /\ Quiet
      /\ backup.gen = primary_generation + 1 /\ backup.sum = snapshot /\ backup.data = snapshot
  BY <1>3 DEF JournalInv, BackupInv, CompactSteps
<1>5. FlashOK /\ FlashOK' /\ primary_generation \in Nat /\ GEN_MAX \in Nat
  BY EpochCases, SizesAssumption DEF JournalInv, TypeOK
<1>6. /\ backup'.gen = backup.gen /\ backup'.sum = backup.sum /\ backup'.data = backup.data
      /\ backup'.commit = c /\ backup'.retired = backup.retired
      /\ primary_generation' = primary_generation
  BY <1>1, <1>2, <1>5 DEF FlashOK, Backups, primary_generation
<1>7. Seen = View /\ snapshot = View
  BY <1>3 DEF Seen, StoreInv
<1>8. CASE c
  <2>1. backup'.gen \notin {0, GEN_MAX} /\ backup'.gen > primary_generation'
    BY <1>4, <1>5, <1>6
  <2>2. backup_needed' /\ backup_valid'
    BY <1>4, <1>6, <1>8, <2>1 DEF backup_needed, backup_valid
  <2>3. Durable' = Seen
    BY <1>4, <1>6, <1>7, <2>2 DEF Durable
  <2>4. StoreInv' /\ Seen' = Durable'
    BY <1>1, <1>5, <2>2, BeginInitStore, PowerOffStore DEF CommitFailed
  <2> QED
    BY <2>3, <2>4, StoreSteps
<1>9. CASE ~c
  <2>1. ~backup_needed' /\ ~backup_valid'
    BY <1>6, <1>9 DEF backup_needed, backup_valid
  <2>2. Durable' = Durable
    BY <1>1, <1>4, <2>1, QuietFacts DEF Durable
  <2>3. CASE PowerOff
    BY <2>2, <2>3, PowerOffStore, StoreSteps
  <2>4. CASE Return /\ UNCHANGED ram
    <3>1. View' = View /\ ~recovery_pending' /\ pc' = "idle"
      BY <1>1, <1>4, <2>4, ViewKept DEF JournalInv, Return
    <3>2. Seen' = Seen
      BY <1>7, <3>1 DEF Seen
    <3>3. StoreInv'
      BY <3>1 DEF StoreInv, CompactSteps, RestoreSteps
    <3> QED
      BY <2>2, <3>2, <3>3, StoreSteps
  <2> QED
    BY <1>1, <1>2, <1>9, <2>1, <2>3, <2>4 DEF CommitFailed
<1> QED
  BY <1>8, <1>9

-----------------------------------------------------------------------------
(* write_record.                                                           *)

\* What a write adds to a journal with nothing behind the slot: the value, when
\* the slot took the record, and nothing when it is torn or still erased.
LEMMA AppendedContents ==
  ASSUME NEW recs \in [Slots -> Record \cup {BLANK, TORN}], NEW s \in Slots,
         \A i \in Slots : i >= s => recs[i] = BLANK,
         NEW after \in [Slots -> Record \cup {BLANK, TORN}],
         \A i \in Slots : i # s => after[i] = recs[i]
  PROVE  \A t \in TYPES : Contents(after)[t] = IF after[s] \in Record /\ after[s].type = t
                                              THEN after[s].val ELSE Contents(recs)[t]
<1>1. recs[s] = BLANK /\ BLANK \notin Record
  BY MarksAssumption, SizesAssumption DEF Slots
<1>2. ASSUME NEW t \in TYPES, ~(after[s] \in Record /\ after[s].type = t)
      PROVE  Contents(after)[t] = Contents(recs)[t]
  <2>1. OfType(after, t) = OfType(recs, t)
    BY <1>1, <1>2 DEF OfType
  <2>2. \A i \in OfType(recs, t) : after[i] = recs[i]
    BY <1>1 DEF OfType
  <2> QED
    BY <2>1, <2>2, ContentsSame
<1>3. ASSUME NEW t \in TYPES, after[s] \in Record, after[s].type = t
      PROVE  Contents(after)[t] = after[s].val
  <2>1. \A j \in OfType(after, t) : j <= s
    <3>1. SUFFICES ASSUME NEW j \in Slots, after[j] \in Record PROVE j <= s
      BY DEF OfType
    <3>2. j \in Nat /\ s \in Nat
      BY SizesAssumption DEF Slots
    <3>3. j # s => recs[j] # BLANK
      BY <1>1, <3>1
    <3> QED
      BY <3>2, <3>3
  <2> QED
    BY <1>3, <2>1, NewestWins
<1> QED
  BY <1>2, <1>3

LEMMA AppendStore ==
  ASSUME JournalInv, StoreInv, JournalInv', Append
  PROVE  StoreInv' /\ StoreStep
<1> DEFINE slot == used_records + 1
<1>1. /\ pc = "append" /\ ~recovery_pending /\ records_base = "primary"
      /\ request \in Record /\ used_records < CFG_RECORDS /\ Quiet
      /\ UNCHANGED <<stamp, backup>>
  BY DEF Append, JournalInv, BackupInv, CacheInv
<1>2. PICK rc \in Outcomes, r \in {request, BLANK, TORN} :
        /\ rc = "ok" => r = request
        /\ slots' = [slots EXCEPT ![slot] = r]
        /\ \/ /\ rc = "ok" /\ Return
              /\ last_of_type' = [last_of_type EXCEPT ![request.type] = slot]
              /\ UNCHANGED <<erase_allowed, recovery_pending, records_base>>
           \/ rc = "fail" /\ Return /\ BurnSlot
           \/ rc = "cut" /\ PowerOff
  BY DEF Append
<1>3. used_records \in Nat /\ slot \in Slots /\ slot = used_records + 1
  BY <1>1, SizesAssumption DEF JournalInv, TypeOK, RamOK, Slots
<1> HIDE DEF slot
<1>4. slots \in [Slots -> Record \cup {BLANK, TORN}] /\ last_of_type \in [TYPES -> 0 .. CFG_RECORDS]
  BY DEF JournalInv, TypeOK, FlashOK, RamOK
<1>5. \A i \in Slots : i >= slot => slots[i] = BLANK
  <2>1. \A i \in Slots : i > used_records => slots[i] = BLANK
    BY <1>1 DEF JournalInv, CacheInv
  <2> QED
    BY <1>3, <2>1, SizesAssumption DEF Slots
<1>6. request.type \in TYPES /\ request.val \in VALUES /\ BLANK \notin Record /\ TORN \notin Record
  BY <1>1, MarksAssumption DEF Record
<1>7. Durable = Contents(slots) /\ Durable' = Contents(slots')
  <2>1. ~backup_needed /\ Durable = Contents(slots)
    BY <1>1, QuietFacts
  <2>2. ~backup_needed'
    BY <1>1, <2>1 DEF backup_needed, backup_valid, primary_generation
  <2> QED
    BY <2>1, <2>2 DEF Durable
<1>8. /\ r # request => Durable' = Durable
      /\ r = request => Durable' = [Durable EXCEPT ![request.type] = request.val]
  <2>1. slots' \in [Slots -> Record \cup {BLANK, TORN}] /\ slots'[slot] = r
        /\ \A i \in Slots : i # slot => slots'[i] = slots[i]
    BY <1>1, <1>2, <1>3, <1>4
  <2>2. \A t \in TYPES : Contents(slots')[t] = IF slots'[slot] \in Record /\ slots'[slot].type = t
                                               THEN slots'[slot].val ELSE Contents(slots)[t]
    BY <1>3, <1>4, <1>5, <2>1, AppendedContents
  <2>3. r # request => r \notin Record
    BY <1>2, <1>6
  <2>4. Contents(slots) \in Snapshot /\ Contents(slots') \in Snapshot
    BY <1>4, <2>1, ContentsType
  <2>5. CASE r # request
    <3>1. \A t \in TYPES : Durable'[t] = Durable[t]
      BY <1>7, <2>1, <2>2, <2>3, <2>5
    <3> QED
      BY <1>7, <2>4, <2>5, <3>1 DEF Snapshot
  <2>6. CASE r = request
    <3>1. \A t \in TYPES : Durable'[t] = IF t = request.type THEN request.val ELSE Durable[t]
      BY <1>1, <1>7, <2>1, <2>2, <2>6
    <3> QED
      BY <1>6, <1>7, <2>4, <2>6, <3>1 DEF Snapshot
  <2> QED
    BY <2>5, <2>6
<1>9. CASE rc = "cut"
  <2>1. StoreInv' /\ Seen' = Durable'
    BY <1>2, <1>9, PowerOffStore
  <2>2. CASE r = request
    <3>1. \/ Seen' = [Seen EXCEPT ![request.type] = request.val]
          \/ Seen' = Seen
          \/ Seen' = Durable'
      BY <2>1
    <3> QED
      BY <1>6, <1>8, <2>1, <2>2, <3>1, StoreSteps, Zenon
  <2>3. CASE r # request
    BY <1>8, <2>1, <2>3, StoreSteps
  <2> QED
    BY <2>2, <2>3
<1>10. CASE rc # "cut"
  <2>1. Return /\ UNCHANGED <<recovery_pending, records_base>>
    BY <1>2, <1>10 DEF BurnSlot
  <2>2. StoreInv'
    BY <1>1, <2>1 DEF StoreInv, Return, CompactSteps, RestoreSteps
  <2>3. Seen = View /\ Seen' = View'
    BY <1>1, <2>1 DEF Seen, Return
  <2>4. /\ View = [t \in TYPES |-> ValueAt(slots, last_of_type[t])]
        /\ View' = [t \in TYPES |-> ValueAt(slots', last_of_type'[t])]
    BY <1>1, <2>1 DEF View, RecordsBase
  <2>5. ASSUME NEW t \in TYPES, last_of_type'[t] = last_of_type[t]
        PROVE  ValueAt(slots', last_of_type'[t]) = ValueAt(slots, last_of_type[t])
    <3>1. last_of_type[t] <= used_records /\ last_of_type[t] \in 0 .. CFG_RECORDS
      BY <1>1, <1>4 DEF JournalInv, CacheInv
    <3>2. last_of_type[t] # slot /\ (last_of_type[t] # 0 => last_of_type[t] \in Slots)
      BY <1>3, <3>1, SizesAssumption DEF Slots
    <3>3. last_of_type[t] # 0 => slots'[last_of_type[t]] = slots[last_of_type[t]]
      BY <1>2, <1>4, <3>2
    <3> QED
      BY <2>5, <3>3 DEF ValueAt
  <2>6. CASE last_of_type' = last_of_type
    <3>1. Seen' = Seen
      BY <2>3, <2>4, <2>5, <2>6
    <3>2. CASE r = request
      BY <1>6, <1>8, <2>2, <3>1, <3>2, StoreSteps, Zenon
    <3>3. CASE r # request
      BY <1>8, <2>2, <3>1, <3>3, StoreSteps
    <3> QED
      BY <3>2, <3>3
  <2>7. CASE rc = "ok" /\ last_of_type' = [last_of_type EXCEPT ![request.type] = slot]
    <3>1. slots'[slot] = request /\ r = request
      BY <1>2, <1>3, <1>4, <2>7
    <3>2. \A t \in TYPES : ValueAt(slots', last_of_type'[t])
                              = IF t = request.type THEN request.val ELSE ValueAt(slots, last_of_type[t])
      <4>1. ASSUME NEW t \in TYPES, t = request.type
            PROVE  ValueAt(slots', last_of_type'[t]) = request.val
        <5>1. last_of_type'[t] = slot /\ slot # 0
          BY <1>3, <1>4, <2>7, <4>1
        <5> QED
          BY <3>1, <5>1 DEF ValueAt
      <4>2. ASSUME NEW t \in TYPES, t # request.type
            PROVE  ValueAt(slots', last_of_type'[t]) = ValueAt(slots, last_of_type[t])
        <5>1. last_of_type'[t] = last_of_type[t]
          BY <1>4, <2>7, <4>2
        <5> QED
          BY <2>5, <5>1
      <4> QED
        BY <4>1, <4>2
    <3>3. View' = [View EXCEPT ![request.type] = request.val]
      BY <1>6, <2>4, <3>2
    <3>4. Seen' = [Seen EXCEPT ![request.type] = request.val]
      BY <2>3, <3>3
    <3> QED
      BY <1>6, <1>8, <2>2, <3>1, <3>4, StoreSteps, Zenon
  <2> QED
    BY <1>2, <1>10, <2>6, <2>7 DEF BurnSlot
<1> QED
  BY <1>9, <1>10

-----------------------------------------------------------------------------
(* The calls, the rest of the firmware and the reset line.                 *)

LEMMA DurableKept ==
  UNCHANGED flash => Durable' = Durable /\ backup_needed' = backup_needed
  BY DEF flash, Durable, backup_needed, backup_valid, primary_generation

LEMMA CallsStore ==
  ASSUME JournalInv, StoreInv, JournalInv',
         \/ Compact \/ SetEraseAllowed \/ Reset \/ PowerOn
         \/ \E t \in TYPES, v \in VALUES : WriteRecord(t, v)
  PROVE  StoreInv' /\ StoreStep
<1>1. UNCHANGED flash /\ FlashOK'
  BY DEF Compact, SetEraseAllowed, Reset, PowerOn, WriteRecord, BeginCompact, JournalInv, TypeOK
<1>2. Durable' = Durable
  BY <1>1, DurableKept
<1>3. CASE Reset
  BY <1>2, <1>3, PowerOffStore, StoreSteps DEF Reset
<1>4. CASE PowerOn
  <2>1. Seen = Durable
    BY <1>4 DEF PowerOn, Seen, CompactSteps
  <2>2. StoreInv' /\ Seen' = Durable'
    BY <1>1, <1>4, BeginInitStore DEF PowerOn
  <2> QED
    BY <1>2, <2>1, <2>2, StoreSteps
<1>5. CASE pc = "idle" /\ recovery_pending /\ BeginInit("compact")
  <2>1. Seen = View /\ View = Durable
    BY <1>5 DEF Seen, Durable, StoreInv, JournalInv, BackupInv
  <2>2. StoreInv' /\ Seen' = Durable'
    BY <1>1, <1>5, BeginInitStore
  <2> QED
    BY <1>2, <2>1, <2>2, StoreSteps
<1>6. CASE /\ pc = "idle" /\ UNCHANGED <<used_records, last_of_type, recovery_pending, records_base>>
           /\ \/ pc' \in {"idle", "append"}
              \/ pc' = "eraseBackup" /\ ~recovery_pending /\ snapshot' = View
  <2>1. View' = View
    BY <1>1, <1>6 DEF View, RecordsBase, flash
  <2>2. Seen' = Seen
    BY <1>6, <2>1 DEF Seen, CompactSteps
  <2>3. StoreInv'
    BY <1>1, <1>6, <2>1 DEF StoreInv, CompactSteps, RestoreSteps, flash
  <2> QED
    BY <1>2, <2>2, <2>3, StoreSteps
<1>7. CASE Compact
  <2>1. \/ pc = "idle" /\ recovery_pending /\ BeginInit("compact")
        \/ pc = "idle" /\ ~recovery_pending /\ BeginCompact("compact")
    BY <1>7 DEF Compact
  <2> QED
    BY <1>5, <1>6, <2>1 DEF BeginCompact, ram
<1>8. CASE SetEraseAllowed
  BY <1>6, <1>8 DEF SetEraseAllowed, control
<1>9. CASE \E t \in TYPES, v \in VALUES : WriteRecord(t, v)
  BY <1>6, <1>9 DEF WriteRecord, BeginCompact, ram
<1> QED
  BY <1>3, <1>4, <1>7, <1>8, <1>9

LEMMA StutterStore ==
  ASSUME StoreInv, UNCHANGED vars
  PROVE  StoreInv' /\ StoreStep
<1>1. UNCHANGED <<slots, stamp, backup, used_records, last_of_type, erase_allowed,
                  recovery_pending, records_base, pc, caller, snapshot, request, disturbances>>
  BY DEF vars, flash, ram, control
<1>2. View' = View /\ Durable' = Durable
  BY <1>1, DurableKept DEF View, RecordsBase, flash
<1>3. Seen' = Seen
  BY <1>1, <1>2 DEF Seen
<1> QED
  BY <1>1, <1>2, <1>3, StoreSteps DEF StoreInv

LEMMA NextStore ==
  ASSUME JournalInv, StoreInv, JournalInv', [Next]_vars
  PROVE  StoreInv' /\ StoreStep
<1>1. CASE FlashStep
  BY <1>1, ErasePrimaryStore, WriteRecordsStore, WriteStampStore, CommitStampStore,
     RetireBackupStore, CompactionStore, WriteCommitStore, AppendStore DEF FlashStep
<1>2. CASE UNCHANGED vars
  BY <1>2, StutterStore
<1> QED
  BY <1>1, <1>2, CallsStore DEF Next

LEMMA InitStore == Init => StoreInv /\ Store!Init
<1> SUFFICES ASSUME Init PROVE StoreInv /\ Store!Init
  OBVIOUS
<1>1. StoreInv
  BY DEF Init, StoreInv, CompactSteps, RestoreSteps
<1>2. slots \in [Slots -> Record \cup {BLANK, TORN}] /\ ~backup_needed
  BY DEF Init, backup_needed, backup_valid, ErasedBackup
<1>3. ASSUME NEW t \in TYPES PROVE Contents(slots)[t] = NONE
  <2>1. OfType(slots, t) = {}
    BY MarksAssumption DEF Init, OfType
  <2> QED
    BY <1>2, <2>1, AbsentType
<1>4. Durable = [t \in TYPES |-> NONE]
  BY <1>2, <1>3, ContentsType DEF Durable, Snapshot
<1>5. Seen = Durable
  BY DEF Init, Seen, CompactSteps
<1> QED
  BY <1>1, <1>4, <1>5 DEF Store!Init

\* The RAM copies and the fallback of the readers agree with the flash in every
\* reachable state.
THEOREM StoreInvariant == Spec => [](JournalInv /\ StoreInv)
<1>1. Init => JournalInv /\ StoreInv
  BY InitInv, InitStore
<1>2. JournalInv /\ StoreInv /\ [Next]_vars => (JournalInv /\ StoreInv)'
  BY NextInv, NextStore
<1> QED
  BY <1>1, <1>2, PTL DEF Spec

\* While the primary will not take the restored records the readers are served
\* from the backup, which is complete and is what they read.
THEOREM ReadableTheorem == Spec => []ReadableWhilePending
<1>1. JournalInv /\ StoreInv => ReadableWhilePending
  BY DEF JournalInv, BackupInv, StoreInv, ReadableWhilePending
<1> QED
  BY <1>1, StoreInvariant, PTL

\* The journal with its compaction, its failing flash and its resets implements
\* the plain store, for any number of records, types, values and disturbances.
THEOREM ImplementsStoreTheorem == Spec => ImplementsStore
<1>1. Init => Store!Init
  BY InitStore
<1>2. (JournalInv /\ StoreInv) /\ (JournalInv /\ StoreInv)' /\ [Next]_vars
        => [Store!Next]_(Store!storeVars)
  BY NextStore DEF StoreStep
<1> QED
  BY <1>1, <1>2, StoreInvariant, PTL DEF Spec, ImplementsStore, Store!Spec
=============================================================================
