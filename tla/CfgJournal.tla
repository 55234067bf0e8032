----------------------------- MODULE CfgJournal -----------------------------
(***************************************************************************)
(* The journal of the CFG sector, core/cfg.c, with every flash operation a *)
(* step of its own.  Each flash operation succeeds, fails (it returns -1   *)
(* and leaves the area partly changed) or is cut by a reset that leaves    *)
(* the same partial effects and loses the RAM.                             *)
(*                                                                         *)
(* The 64-byte record is [type, val]; an area the CRC rejects is TORN.     *)
(* Slots are numbered from 1, and index 0 is the -1 of last_of_type.       *)
(***************************************************************************)
EXTENDS Integers, FiniteSets, FiniteSetsExt

CONSTANTS CFG_RECORDS,      \* slots of the primary sector
          CFG_TYPES,        \* record types 1..CFG_TYPES
          VALUES,           \* values of a record
          NONE, BLANK, TORN,
          GEN_MAX,          \* stands for UINT32_MAX, the width of a generation
          MAX_DISTURBANCES  \* bound on failing flash operations plus resets

ASSUME SizesAssumption ==
  /\ CFG_RECORDS \in Nat /\ CFG_TYPES \in Nat \ {0} /\ CFG_TYPES <= CFG_RECORDS
  /\ GEN_MAX \in Nat \ {0} /\ MAX_DISTURBANCES \in Nat

TYPES == 1 .. CFG_TYPES
Slots == 1 .. CFG_RECORDS
Record == [type : TYPES, val : VALUES]

ASSUME MarksAssumption == /\ NONE \notin VALUES \cup Record
                          /\ BLANK # TORN
                          /\ {BLANK, TORN} \cap Record = {}

\* What cfg_snapshot copies out: the current value of every type.
Snapshot == [TYPES -> VALUES \cup {NONE}]
ASSUME TornAssumption == TORN \notin Snapshot

EmptySnapshot == [t \in TYPES |-> NONE]

VARIABLES
  slots,             \* flash: the records of the primary sector
  stamp,             \* flash: generation stamp behind them; gen 0 is an invalid one
  backup,            \* flash: the backup sector
  used_records, last_of_type, erase_allowed, recovery_pending, records_base,
  pc,                \* next flash operation of the call in progress, "idle" or "off"
  caller,            \* who runs the compaction or the scan in progress
  snapshot,          \* RAM copy held by cfg_compact or restore_backup
  request,           \* record write_record is appending
  disturbances       \* failing flash operations and resets so far

flash == <<slots, stamp, backup>>
ram == <<used_records, last_of_type, erase_allowed, recovery_pending, records_base>>
control == <<pc, caller, snapshot, request>>
vars == <<flash, ram, control, disturbances>>

CompactSteps == {"eraseBackup", "writeHeader", "writeData", "writeCommit"}
RestoreSteps == {"erasePrimary", "writeRecords", "writeStamp", "commitStamp", "retire"}
Callers == {"none", "boot", "compact", "write", "rejected"}

Backups == [gen : 0 .. GEN_MAX, sum : Snapshot, data : Snapshot \cup {TORN},
            commit : BOOLEAN, retired : BOOLEAN]

FlashOK == /\ slots \in [Slots -> Record \cup {BLANK, TORN}]
           /\ stamp \in [gen : 0 .. GEN_MAX, commit : BOOLEAN]
           /\ backup \in Backups
RamOK == /\ used_records \in 0 .. CFG_RECORDS
         /\ last_of_type \in [TYPES -> 0 .. CFG_RECORDS]
         /\ erase_allowed \in BOOLEAN /\ recovery_pending \in BOOLEAN
         /\ records_base \in {"primary", "backup"}
ControlOK == /\ pc \in {"off", "idle", "append"} \cup CompactSteps \cup RestoreSteps
             /\ caller \in Callers
             /\ snapshot \in Snapshot
             /\ request \in Record \cup {NONE}
DisturbancesOK == disturbances \in 0 .. MAX_DISTURBANCES

\* Every variable stays within its type.
TypeOK == FlashOK /\ RamOK /\ ControlOK /\ DisturbancesOK

-----------------------------------------------------------------------------
(* Reading the flash.                                                      *)

ErasedBackup == [gen |-> 0, sum |-> EmptySnapshot, data |-> EmptySnapshot,
                 commit |-> FALSE, retired |-> FALSE]
ErasedStamp == [gen |-> 0, commit |-> FALSE]

\* Layout of a snapshot copied to the front of an erased area, in type order.
Rank(snap, t) == Cardinality({u \in 1 .. t : snap[u] # NONE})
Image(snap) ==
  [i \in Slots |->
     IF \E t \in TYPES : snap[t] # NONE /\ Rank(snap, t) = i
     THEN LET t == CHOOSE t \in TYPES : snap[t] # NONE /\ Rank(snap, t) = i
          IN [type |-> t, val |-> snap[t]]
     ELSE BLANK]

NonBlank(recs) == {i \in Slots : recs[i] # BLANK}
ScanUsed(recs) == Max({0} \cup NonBlank(recs))
ScanLast(recs) ==
  [t \in TYPES |-> Max({0} \cup {i \in NonBlank(recs) : recs[i] \in Record /\ recs[i].type = t})]

ValueAt(recs, i) == IF i = 0 THEN NONE ELSE recs[i].val
Contents(recs) == LET last == ScanLast(recs) IN [t \in TYPES |-> ValueAt(recs, last[t])]

\* The area rec() reads: the journal itself, or the records of the backup.
RecordsBase == IF records_base = "backup" THEN Image(backup.data) ELSE slots

\* cfg_get_* and cfg_snapshot: the cached index of every type.
View == [t \in TYPES |-> ValueAt(RecordsBase, last_of_type[t])]

primary_generation == IF stamp.commit THEN stamp.gen ELSE 0

backup_valid == /\ backup.gen \notin {0, GEN_MAX}
                /\ backup.data = backup.sum
                /\ backup.commit /\ ~backup.retired

backup_needed_NoGeneration == backup_valid
backup_needed == backup_valid /\ backup.gen > primary_generation

-----------------------------------------------------------------------------
(* Outcomes of one flash operation.                                        *)

\* A failure or a reset is charged to the budget; success is free.
Charge(rc) ==
  \/ rc = "ok" /\ UNCHANGED disturbances
  \/ /\ rc \in {"fail", "cut"}
     /\ disturbances < MAX_DISTURBANCES
     /\ disturbances' = disturbances + 1

Outcomes == {"ok", "fail", "cut"}

\* An erase that did not finish has erased any part of the area.
PartlyErasedBackup ==
  {[gen |-> g, sum |-> backup.sum, data |-> d, commit |-> c, retired |-> r] :
     g \in {backup.gen, 0}, d \in {backup.data, TORN, EmptySnapshot},
     c \in {backup.commit, FALSE}, r \in {backup.retired, FALSE}}
PartlyErasedSlots ==
  {s \in [Slots -> {BLANK, TORN} \cup {slots[i] : i \in Slots}] :
     \A i \in Slots : s[i] \in {BLANK, TORN, slots[i]}}
PartlyErasedStamp ==
  {[gen |-> g, commit |-> c] : g \in {stamp.gen, 0}, c \in {stamp.commit, FALSE}}

\* Records programmed before the operation stopped: a prefix, the next one torn.
PartlyWrittenSlots(image) ==
  {[i \in Slots |-> IF i <= n THEN image[i]
                    ELSE IF i = n + 1 /\ image[i] # BLANK THEN torn ELSE slots[i]] :
     n \in 0 .. CFG_RECORDS, torn \in {BLANK, TORN}}

PowerOff ==
  /\ pc' = "off" /\ caller' = "none" /\ snapshot' = EmptySnapshot /\ request' = NONE
  /\ used_records' = 0 /\ last_of_type' = [t \in TYPES |-> 0]
  /\ erase_allowed' = FALSE /\ recovery_pending' = FALSE /\ records_base' = "primary"

Return == pc' = "idle" /\ caller' = "none" /\ snapshot' = EmptySnapshot /\ request' = NONE

-----------------------------------------------------------------------------
(* cfg_init, also run by cfg_compact to move the backup into the primary.  *)

\* The scan of cfg_init and what its caller does next: write_record appends
\* when the compaction succeeded and left a free slot.
FinishInit(who, lost) ==
  /\ recovery_pending' = lost
  /\ records_base' = IF lost THEN "backup" ELSE "primary"
  /\ LET recs == IF lost THEN Image(backup'.data) ELSE slots'
     IN used_records' = ScanUsed(recs) /\ last_of_type' = ScanLast(recs)
  /\ erase_allowed' = (who # "boot")
  /\ IF who = "write" /\ ~lost /\ used_records' < CFG_RECORDS
     THEN pc' = "append" /\ caller' = who /\ snapshot' = EmptySnapshot /\ UNCHANGED request
     ELSE Return

BeginInit_FallbackOnly(who) == FinishInit(who, backup_needed')
BeginInit(who) ==
  IF backup_needed'
  THEN /\ pc' = "erasePrimary" /\ caller' = who /\ snapshot' = backup'.data
       /\ erase_allowed' = FALSE /\ recovery_pending' = FALSE /\ records_base' = "primary"
       /\ UNCHANGED <<used_records, last_of_type, request>>
  ELSE FinishInit(who, FALSE)

\* A step of restore_backup: on to the next one, or back to cfg_init, which
\* falls back to reading the backup when that is still needed.
RestoreStep_NoRecheck(rc, next) ==
  \/ /\ rc = "ok"
     /\ pc' = next
     /\ UNCHANGED <<ram, caller, snapshot, request>>
  \/ rc = "fail" /\ FinishInit(caller, TRUE)
  \/ rc = "cut" /\ PowerOff
RestoreStep(rc, next) ==
  \/ /\ rc = "ok"
     /\ pc' = next
     /\ UNCHANGED <<ram, caller, snapshot, request>>
  \/ rc = "fail" /\ FinishInit(caller, backup_needed')
  \/ rc = "cut" /\ PowerOff

ErasePrimary ==
  /\ pc = "erasePrimary"
  /\ \E rc \in Outcomes :
       /\ Charge(rc)
       /\ slots' \in IF rc = "ok" THEN {[i \in Slots |-> BLANK]} ELSE PartlyErasedSlots
       /\ stamp' \in IF rc = "ok" THEN {ErasedStamp} ELSE PartlyErasedStamp
       /\ UNCHANGED backup
       /\ RestoreStep(rc, "writeRecords")

WriteRecords_NoStamp ==
  /\ pc = "writeRecords"
  /\ \E rc \in Outcomes :
       /\ Charge(rc)
       /\ slots' \in IF rc = "ok" THEN {Image(snapshot)} ELSE PartlyWrittenSlots(Image(snapshot))
       /\ UNCHANGED <<stamp, backup>>
       /\ RestoreStep(rc, "retire")
WriteRecords ==
  /\ pc = "writeRecords"
  /\ \E rc \in Outcomes :
       /\ Charge(rc)
       /\ slots' \in IF rc = "ok" THEN {Image(snapshot)} ELSE PartlyWrittenSlots(Image(snapshot))
       /\ UNCHANGED <<stamp, backup>>
       /\ RestoreStep(rc, "writeStamp")

WriteStamp ==
  /\ pc = "writeStamp"
  /\ \E rc \in Outcomes :
       /\ Charge(rc)
       /\ stamp' \in {[stamp EXCEPT !.gen = g] :
                        g \in {backup.gen} \cup IF rc = "ok" THEN {} ELSE {0}}
       /\ UNCHANGED <<slots, backup>>
       /\ RestoreStep(rc, "commitStamp")

CommitStamp ==
  /\ pc = "commitStamp"
  /\ \E rc \in Outcomes :
       /\ Charge(rc)
       /\ stamp' \in {[stamp EXCEPT !.commit = c] :
                        c \in {TRUE} \cup IF rc = "ok" THEN {} ELSE {FALSE}}
       /\ UNCHANGED <<slots, backup>>
       /\ RestoreStep(rc, "retire")

RetireBackup ==
  /\ pc = "retire"
  /\ \E rc \in Outcomes :
       /\ Charge(rc)
       /\ backup' \in {[backup EXCEPT !.retired = r] :
                         r \in {TRUE} \cup IF rc = "ok" THEN {} ELSE {FALSE}}
       /\ UNCHANGED <<slots, stamp>>
       /\ \/ rc = "ok" /\ FinishInit(caller, FALSE)
          \/ rc # "ok" /\ RestoreStep(rc, "retire")

-----------------------------------------------------------------------------
(* cfg_compact.                                                            *)

BeginCompact_Unguarded(who) ==
  /\ pc' = "eraseBackup" /\ caller' = who /\ snapshot' = View
  /\ UNCHANGED <<flash, ram, disturbances>>
BeginCompact(who) ==
  /\ primary_generation < GEN_MAX - 1
  /\ pc' = "eraseBackup" /\ caller' = who /\ snapshot' = View
  /\ UNCHANGED <<flash, ram, disturbances>>

\* A step of cfg_compact before the commit word: its failure returns -1 and
\* leaves the journal as it was.
CompactStep(rc, next) ==
  /\ \/ rc = "ok" /\ pc' = next /\ UNCHANGED <<ram, caller, snapshot, request>>
     \/ rc = "fail" /\ Return /\ UNCHANGED ram
     \/ rc = "cut" /\ PowerOff
  /\ UNCHANGED <<slots, stamp>>

EraseBackup ==
  /\ pc = "eraseBackup"
  /\ \E rc \in Outcomes :
       /\ Charge(rc)
       /\ backup' \in IF rc = "ok" THEN {ErasedBackup} ELSE PartlyErasedBackup
       /\ CompactStep(rc, "writeHeader")

WriteHeader ==
  /\ pc = "writeHeader"
  /\ \E rc \in Outcomes :
       /\ Charge(rc)
       /\ backup' \in {[backup EXCEPT !.gen = g, !.sum = snapshot] :
                         g \in {primary_generation + 1} \cup IF rc = "ok" THEN {} ELSE {0}}
       /\ CompactStep(rc, "writeData")

WriteData ==
  /\ pc = "writeData"
  /\ \E rc \in Outcomes :
       /\ Charge(rc)
       /\ backup' \in {[backup EXCEPT !.data = d] :
                         d \in {snapshot} \cup IF rc = "ok" THEN {} ELSE {TORN, EmptySnapshot}}
       /\ CompactStep(rc, "writeCommit")

\* The commit word.  If programming reports an error although the word is
\* there, the backup is moved into the primary at once: an append to the old
\* primary would be undone by the next boot.
CommitFailed_NoRecovery == Return /\ UNCHANGED ram
CommitFailed ==
  \/ backup_valid' /\ BeginInit("rejected")
  \/ ~backup_valid' /\ Return /\ UNCHANGED ram

WriteCommit ==
  /\ pc = "writeCommit"
  /\ \E rc \in Outcomes :
       /\ Charge(rc)
       /\ backup' \in {[backup EXCEPT !.commit = c] :
                         c \in {TRUE} \cup IF rc = "ok" THEN {} ELSE {FALSE}}
       /\ UNCHANGED <<slots, stamp>>
       /\ \/ rc = "ok" /\ BeginInit(caller)
          \/ rc = "fail" /\ CommitFailed
          \/ rc = "cut" /\ PowerOff

\* cfg_compact called directly; while recovery is pending it retries it.
Compact ==
  /\ pc = "idle" /\ erase_allowed
  /\ UNCHANGED request
  /\ \/ recovery_pending /\ UNCHANGED <<flash, disturbances>> /\ BeginInit("compact")
     \/ ~recovery_pending /\ BeginCompact("compact")

-----------------------------------------------------------------------------
(* write_record: cfg_set_serial, cfg_set_net, cfg_set_trial, cfg_set_psu_cal. *)

\* A full journal is compacted first when erasing is allowed; a pending
\* recovery, and a full journal that may not be compacted, reject the write.
WriteRecord(t, v) ==
  /\ pc = "idle" /\ ~recovery_pending
  /\ request' = [type |-> t, val |-> v]
  /\ \/ /\ used_records < CFG_RECORDS
        /\ pc' = "append" /\ caller' = "write"
        /\ UNCHANGED <<flash, ram, snapshot, disturbances>>
     \/ used_records >= CFG_RECORDS /\ erase_allowed /\ BeginCompact("write")

\* A failed write burns its slot.
BurnSlot_Reuse == UNCHANGED ram
BurnSlot ==
  /\ used_records' = used_records + 1
  /\ UNCHANGED <<last_of_type, erase_allowed, recovery_pending, records_base>>

Append ==
  LET slot == used_records + 1 IN
  /\ pc = "append"
  /\ UNCHANGED <<stamp, backup>>
  /\ \E rc \in Outcomes :
       /\ Charge(rc)
       /\ rc = "ok" => slots[slot] = BLANK
       /\ \E r \in IF rc = "ok" THEN {request}
                   ELSE IF slots[slot] = BLANK THEN {BLANK, TORN, request} ELSE {TORN} :
            slots' = [slots EXCEPT ![slot] = r]
       /\ \/ /\ rc = "ok" /\ Return
             /\ used_records' = slot
             /\ last_of_type' = [last_of_type EXCEPT ![request.type] = slot]
             /\ UNCHANGED <<erase_allowed, recovery_pending, records_base>>
          \/ rc = "fail" /\ Return /\ BurnSlot
          \/ rc = "cut" /\ PowerOff

-----------------------------------------------------------------------------
(* The rest of the firmware, and the reset line.                           *)

\* Safety code allows or forbids erasing between two calls.
SetEraseAllowed ==
  /\ pc = "idle"
  /\ erase_allowed' = ~erase_allowed
  /\ UNCHANGED <<flash, control, used_records, last_of_type, recovery_pending, records_base,
                 disturbances>>

Reset ==
  /\ pc # "off"
  /\ Charge("cut")
  /\ PowerOff
  /\ UNCHANGED flash

PowerOn ==
  /\ pc = "off"
  /\ UNCHANGED <<flash, disturbances>>
  /\ BeginInit("boot")

Init ==
  /\ slots = [i \in Slots |-> BLANK] /\ stamp = ErasedStamp /\ backup = ErasedBackup
  /\ used_records = 0 /\ last_of_type = [t \in TYPES |-> 0]
  /\ erase_allowed = FALSE /\ recovery_pending = FALSE /\ records_base = "primary"
  /\ pc = "off" /\ caller = "none" /\ snapshot = EmptySnapshot /\ request = NONE
  /\ disturbances = 0

FlashStep ==
  \/ ErasePrimary \/ WriteRecords \/ WriteStamp \/ CommitStamp \/ RetireBackup
  \/ EraseBackup \/ WriteHeader \/ WriteData \/ WriteCommit
  \/ Append

Next ==
  \/ FlashStep
  \/ Compact
  \/ \E t \in TYPES, v \in VALUES : WriteRecord(t, v)
  \/ SetEraseAllowed
  \/ Reset
  \/ PowerOn

Spec == Init /\ [][Next]_vars

\* A call in progress runs to its end, and a board that is off is switched on.
FairSpec == Spec /\ WF_vars(FlashStep) /\ WF_vars(PowerOn)

-----------------------------------------------------------------------------
(* Properties.                                                             *)

\* Between two calls no committed backup outranks a primary that is in use:
\* an append is never undone by the next boot replaying an older snapshot
\* (cfg.c:85-86, 287-288).
NoStaleReplay == pc \in {"idle", "append"} /\ ~recovery_pending => ~backup_needed

\* A board whose flash will not take the restored records still reads every
\* record that the compaction had secured (cfg.c:112-114).
ReadableWhilePending ==
  pc = "idle" /\ recovery_pending => backup_needed /\ View = backup.data

\* The slots behind the last one in use are erased: an append never programs
\* over a torn or a valid record, whatever failed before.
TailIsBlank ==
  pc \in {"idle", "append"} /\ ~recovery_pending =>
    \A i \in Slots : i > used_records => slots[i] = BLANK

\* Why a stale backup cannot win.  Quiet: the backup sector holds nothing
\* that outranks the primary.  It is so except from the commit word of the
\* backup to the commit word of the stamp, and then the backup is complete.
Quiet == backup.commit => backup.gen <= primary_generation

BackupInv ==
  /\ recovery_pending => pc = "idle" /\ backup_needed
  /\ pc \in {"idle", "append", "retire"} \cup CompactSteps /\ ~recovery_pending => Quiet
  /\ pc = "off" => Quiet \/ backup_needed
  /\ pc \in RestoreSteps \ {"retire"} => backup_needed
  /\ pc \in {"writeRecords", "writeStamp"} => stamp = ErasedStamp
  /\ pc = "commitStamp" => stamp = [gen |-> backup.gen, commit |-> FALSE]
  /\ pc \in CompactSteps => primary_generation < GEN_MAX - 1
  /\ pc \in CompactSteps \ {"eraseBackup"} => ~backup.commit /\ ~backup.retired
  /\ pc \in {"writeData", "writeCommit"} =>
       backup.gen = primary_generation + 1 /\ backup.sum = snapshot
  /\ pc = "writeCommit" => backup.data = snapshot

\* The RAM index agrees with the area it points into.
CacheInv ==
  /\ records_base = IF recovery_pending THEN "backup" ELSE "primary"
  /\ pc \in {"idle", "append"} \cup CompactSteps =>
       /\ \A t \in TYPES : /\ last_of_type[t] <= used_records
                           /\ last_of_type[t] # 0 => RecordsBase[last_of_type[t]] \in Record
       /\ ~recovery_pending => \A i \in Slots : i > used_records => slots[i] = BLANK
  /\ caller = "write" => request \in Record
  /\ pc = "append" => caller = "write" /\ used_records < CFG_RECORDS

\* The three together are inductive; the proofs rest on it.
JournalInv == TypeOK /\ BackupInv /\ CacheInv

\* The store after a reset at this instant, and the store the readers see.
Durable == IF backup_needed THEN backup.data ELSE Contents(slots)
Seen == IF pc \in {"idle", "append"} \cup CompactSteps THEN View ELSE Durable

Store == INSTANCE CfgStore WITH durable <- Durable, view <- Seen

\* The journal with its compaction, its failing flash and its resets is the
\* plain store: acknowledged writes survive, nothing else appears.
ImplementsStore == Store!Spec

\* The generation the next boot will adopt never goes back, also while a
\* primary is being erased, so an older backup can never win again.
Epoch == IF backup_needed THEN backup.gen ELSE primary_generation
EpochNeverRegresses == [][Epoch' >= Epoch]_vars

\* Once the flash works and the power stays on, the next boot ends with the
\* primary rebuilt and writable.
RecoveryCompletes ==
  (pc = "off" /\ disturbances = MAX_DISTURBANCES) ~> (pc = "idle" /\ ~recovery_pending)
=============================================================================
