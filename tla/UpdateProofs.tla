---------------------------- MODULE UpdateProofs ----------------------------
(* Theorems about Update, for every value of its constants. *)
EXTENDS Update, TLAPS

-----------------------------------------------------------------------------
(* The inductive invariant.                                                *)

\* A record that starts no trial of bank b.
Settled(b, t) == t = NoTrial \/ t.bank # b \/ t.confirmed # 0

\* The new image was checked and the command switches to it.
Committing == pc \in {"setTrial", "copyErase", "copyWrite", "setBoot"}

\* The flash: no accepted image can be put on trial again, and the one on trial has
\* entered service only if its record counts it.
FlashInv ==
  /\ \A b \in BANKS : accepted[b] => Settled(b, trial[b])
  /\ accepted[boot] => starts = 0
  /\ ~accepted[boot] =>
       /\ accepted[Other(boot)] /\ Complete(Other(boot))
       /\ trial[boot].bank = boot /\ trial[boot].confirmed \in {0, 1}
       /\ trial[boot].confirmed = 1 => starts = 1
       /\ starts = 1 => trial[boot].boot_count = 1

\* The RAM of a board that runs: an image on trial can only be confirmed or left.
ServiceInv ==
  /\ pc = "boot" => state = "IDLE"
  /\ pc # "boot" => active = boot
  /\ pc # "boot" /\ accepted[boot] =>
       /\ Settled(boot, view) /\ state # "TRIAL" /\ pc \notin {"countTrial", "rollback"}
       /\ pc = "closeTrial" => state = "IDLE"
  /\ pc # "boot" /\ ~accepted[boot] =>
       \/ pc = "countTrial" /\ state = "IDLE" /\ view = trial[boot] /\ starts = 0
            /\ view = [bank |-> boot, boot_count |-> 0, confirmed |-> 0]
       \/ pc = "rollback" /\ state = "IDLE"
       \/ pc \in {"run", "hung"} /\ state = "TRIAL" /\ starts = 1
            /\ view = [bank |-> boot, boot_count |-> 1, confirmed |-> 0]

\* A transfer goes to a bank that was given up, and COMMIT to one that holds the image.
TransferInv ==
  /\ Len(crc) = received
  /\ state = "RECEIVING" \/ pc = "eraseCfg" \/ Committing => ~accepted[Other(boot)]
  /\ Committing => image[Other(boot)] = Whole(expected) /\ expected \notin FOREIGN
  /\ pc \in {"copyErase", "copyWrite", "setBoot"} =>
       view = [bank |-> Other(boot), boot_count |-> 0, confirmed |-> 0]
  /\ pc = "setBoot" => trial[Other(boot)] = view

UpdateInv == TypeOK /\ Complete(boot) /\ FlashInv /\ ServiceInv /\ TransferInv

-----------------------------------------------------------------------------
(* What the steps have in common.                                          *)

LEMMA OtherBanks ==
  \A b \in BANKS : Other(b) \in BANKS /\ Other(b) # b /\ Other(Other(b)) = b
BY DEF BANKS, Other

LEMMA TrialTypes ==
  /\ \A t \in Trials : /\ t.confirmed \in 0 .. 2 /\ t.boot_count \in 0 .. 1
                       /\ t.bank \in {0} \cup BANKS
                       /\ t.bank = 0 <=> t = NoTrial
  /\ \A b \in BANKS, n \in 0 .. 1, c \in 0 .. 2 :
       [bank |-> b, boot_count |-> n, confirmed |-> c] \in Trials
  /\ NoTrial \in Trials
BY DEF Trials, NoTrial, BANKS

\* The record that closes a trial.
LEMMA ClosedTrial ==
  ASSUME NEW t \in Trials, NEW b \in BANKS
  PROVE  [t EXCEPT !.confirmed = 2, !.bank = b] =
           [bank |-> b, boot_count |-> t.boot_count, confirmed |-> 2]
<1> DEFINE s == [t EXCEPT !.confirmed = 2]
<1>1. t \in [bank : Nat, boot_count : Nat, confirmed : Nat]
  BY DEF Trials, NoTrial, BANKS
<1>2. s = [bank |-> t.bank, boot_count |-> t.boot_count, confirmed |-> 2]
  BY <1>1
<1>3. [t EXCEPT !.confirmed = 2, !.bank = b] = [s EXCEPT !.bank = b]
  OBVIOUS
<1> HIDE DEF s
<1>4. [s EXCEPT !.bank = b] = [bank |-> b, boot_count |-> t.boot_count, confirmed |-> 2]
  BY <1>2
<1> QED BY <1>3, <1>4

LEMMA BlockTypes ==
  /\ \A k \in IMAGES, i \in 1 .. SIZE : <<k, i>> \in Blocks /\ <<k, i>> \in Cells
  /\ \A k \in IMAGES : Whole(k) \in [1 .. SIZE -> Cells]
  /\ ERASED \in Cells /\ JUNK \in Cells
BY DEF Blocks, Cells, Whole

\* The parts of the state that a step may leave alone together.
FlashTypes == /\ boot \in BANKS /\ image \in [BANKS -> [1 .. SIZE -> Cells]]
              /\ trial \in [BANKS -> Trials] /\ faults \in 0 .. MAX_FAULTS
RamTypes == /\ active \in BANKS /\ view \in Trials
            /\ state \in {"IDLE", "RECEIVING", "TRIAL", "CONFIRMED"}
            /\ expected \in IMAGES /\ received \in 0 .. SIZE
            /\ crc \in Seq(Blocks) /\ Len(crc) <= SIZE
            /\ pc \in {"boot", "run", "hung"} \cup Steps
HistoryTypes == accepted \in [BANKS -> BOOLEAN] /\ starts \in 0 .. 1

LEMMA TypeParts ==
  /\ TypeOK => FlashTypes /\ RamTypes /\ HistoryTypes
  /\ FlashTypes' /\ RamTypes' /\ HistoryTypes' => TypeOK'
BY DEF TypeOK, FlashTypes, RamTypes, HistoryTypes

LEMMA ChargeType ==
  ASSUME faults \in 0 .. MAX_FAULTS, NEW rc, Charge(rc)
  PROVE  faults' \in 0 .. MAX_FAULTS
BY UpdateAssumption DEF Charge

\* After a reset nothing is left to be said of the RAM.
LEMMA ResetRam ==
  ASSUME RamTypes, HardReset, active' \in BANKS, view' \in Trials
  PROVE  RamTypes' /\ ServiceInv' /\ TransferInv'
<1>1. RamTypes'
  BY UpdateAssumption DEF RamTypes, HardReset
<1>2. ServiceInv' /\ TransferInv'
  BY DEF HardReset, ServiceInv, TransferInv, Committing
<1> QED BY <1>1, <1>2

\* A transfer that is given up outside of a trial leaves the board idle.
LEMMA GivenUp ==
  ASSUME UpdateInv, reset_receiving, pc' = "run", view' \in Trials, state # "TRIAL",
         accepted[boot], Settled(boot, view'), pc # "boot", UNCHANGED <<boot, active, accepted>>
  PROVE  RamTypes' /\ ServiceInv' /\ TransferInv'
<1>1. RamTypes'
  BY UpdateAssumption DEF UpdateInv, TypeOK, RamTypes, reset_receiving
<1>2. ServiceInv'
  BY DEF UpdateInv, ServiceInv, reset_receiving, Settled
<1>3. TransferInv'
  BY DEF UpdateInv, TransferInv, reset_receiving, Committing, TypeOK
<1> QED BY <1>1, <1>2, <1>3

LEMMA WrittenTrial ==
  ASSUME TypeOK, NEW rc \in Outcomes, NEW t \in Trials, WriteTrial(rc, t)
  PROVE  /\ trial' \in [BANKS -> Trials] /\ view' \in Trials /\ faults' \in 0 .. MAX_FAULTS
         /\ trial'[active] \in {t, trial[active]}
         /\ \A b \in BANKS \ {active} : trial'[b] = trial[b]
         /\ rc = "ok" => trial'[active] = t /\ view' = t
         /\ rc # "ok" => view' = view
<1>1. faults' \in 0 .. MAX_FAULTS
  BY ChargeType DEF WriteTrial, TypeOK
<1>2. view' = IF rc = "ok" THEN t ELSE view
  BY DEF WriteTrial
<1>3. PICK r \in {t} \cup IF rc = "ok" THEN {} ELSE {trial[active]} :
        trial' = [trial EXCEPT ![active] = r]
  BY DEF WriteTrial
<1>4. r \in Trials /\ r \in {t, trial[active]} /\ (rc = "ok" => r = t)
  BY <1>3 DEF TypeOK
<1> QED BY <1>1, <1>2, <1>3, <1>4 DEF TypeOK

-----------------------------------------------------------------------------
(* The steps.                                                              *)

LEMMA InitInv == Init => UpdateInv
<1> SUFFICES ASSUME Init PROVE UpdateInv
  OBVIOUS
<1>1. PICK k \in IMAGES \ (HANGING \cup FOREIGN) :
        /\ image = [b \in BANKS |-> IF b = 1 THEN Whole(k) ELSE [i \in 1 .. SIZE |-> ERASED]]
        /\ expected = k
  BY DEF Init
<1>2. TypeOK
  <2>1. image \in [BANKS -> [1 .. SIZE -> Cells]]
    BY <1>1, BlockTypes
  <2>2. trial \in [BANKS -> Trials] /\ view \in Trials
    BY TrialTypes DEF Init
  <2>3. crc \in Seq(Blocks) /\ Len(crc) = 0
    BY DEF Init
  <2> QED BY <1>1, <2>1, <2>2, <2>3, UpdateAssumption DEF Init, TypeOK, BANKS
<1>3. Complete(boot)
  BY <1>1 DEF Init, Complete, BANKS
<1>4. FlashInv /\ ServiceInv
  BY DEF Init, FlashInv, ServiceInv, Settled, BANKS
<1>5. TransferInv
  BY DEF Init, TransferInv, Committing
<1> QED BY <1>2, <1>3, <1>4, <1>5 DEF UpdateInv

\* The decision of the boot code: an image goes on trial only from a record that says so
\* and has not counted a start.
LEMMA BootInv == UpdateInv /\ Boot => UpdateInv'
<1> SUFFICES ASSUME UpdateInv, Boot PROVE UpdateInv'
  OBVIOUS
<1> DEFINE t == trial[boot]
<1>1. /\ boot \in BANKS /\ t \in Trials /\ pc = "boot" /\ state = "IDLE"
      /\ UNCHANGED <<boot, image, trial, state, expected, received, crc, faults>>
      /\ active' = boot /\ view' = t /\ pc' = Decision(t)
      /\ accepted' = [accepted EXCEPT ![boot] = @ \/ (t.bank = boot /\ t.confirmed = 1)]
      /\ starts' = IF accepted'[boot] THEN 0 ELSE starts
  BY DEF UpdateInv, TypeOK, Boot, upd, ServiceInv
<1>2. /\ accepted' \in [BANKS -> BOOLEAN] /\ accepted'[Other(boot)] = accepted[Other(boot)]
      /\ accepted'[boot] <=> (accepted[boot] \/ (t.bank = boot /\ t.confirmed = 1))
  BY <1>1, OtherBanks DEF UpdateInv, TypeOK
<1>3. TypeOK'
  <2>1. pc' \in {"boot", "run", "hung"} \cup Steps
    BY <1>1 DEF Decision, Steps
  <2> QED BY <1>1, <1>2, <2>1 DEF UpdateInv, TypeOK
<1>4. FlashInv' /\ Complete(boot)'
  <2>1. Complete(boot)'
    BY <1>1 DEF UpdateInv, Complete
  <2>2. \A b \in BANKS : accepted'[b] => Settled(b, trial[b])
    BY <1>1, <1>2 DEF UpdateInv, FlashInv, Settled, TypeOK
  <2>3. Complete(Other(boot)) => Complete(Other(boot))'
    BY <1>1 DEF Complete
  <2> QED BY <1>1, <1>2, <2>1, <2>2, <2>3 DEF UpdateInv, FlashInv
<1>5. ServiceInv'
  <2>1. CASE accepted'[boot]
    <3>1. Settled(boot, t)
      BY <1>1, <1>2, <2>1 DEF UpdateInv, FlashInv, Settled
    <3>2. pc' \in {"run", "closeTrial"}
      BY <1>1, <3>1 DEF Decision, Settled
    <3> QED BY <1>1, <2>1, <3>1, <3>2 DEF ServiceInv
  <2>2. CASE ~accepted'[boot]
    <3>1. ~accepted[boot] /\ t.bank = boot /\ t.confirmed = 0 /\ t # NoTrial
      <4>1. ~accepted[boot] /\ ~(t.bank = boot /\ t.confirmed = 1)
        BY <1>2, <2>2
      <4>2. t.bank = boot /\ t.confirmed \in {0, 1}
        BY <4>1 DEF UpdateInv, FlashInv
      <4>3. NoTrial.bank \notin BANKS
        BY DEF NoTrial, BANKS
      <4> QED BY <1>1, <4>1, <4>2, <4>3
    <3>2. pc' = IF t.boot_count >= 1 THEN "rollback" ELSE "countTrial"
      BY <1>1, <3>1 DEF Decision
    <3>3. pc' = "countTrial" =>
            starts = 0 /\ t = [bank |-> boot, boot_count |-> 0, confirmed |-> 0]
      BY <1>1, <3>1, <3>2 DEF UpdateInv, FlashInv, TypeOK, Trials, NoTrial
    <3> QED BY <1>1, <2>2, <3>2, <3>3 DEF ServiceInv
  <2> QED BY <2>1, <2>2
<1>6. TransferInv'
  BY <1>1 DEF UpdateInv, TransferInv, Committing, Decision
<1> QED BY <1>3, <1>4, <1>5, <1>6 DEF UpdateInv

\* What FlashInv needs of a step of an accepted image that stays selected.
LEMMA FlashKept ==
  ASSUME UpdateInv, accepted[boot], boot' = boot, image'[boot] = image[boot],
         accepted'[boot] = accepted[boot], starts' = 0, Settled(boot, trial'[boot]),
         accepted'[Other(boot)] => Settled(Other(boot), trial'[Other(boot)])
  PROVE  Complete(boot)' /\ FlashInv'
<1>1. Complete(boot)'
  BY DEF UpdateInv, Complete
<1>2. \A b \in BANKS : b = boot \/ b = Other(boot)
  BY DEF UpdateInv, TypeOK, BANKS, Other
<1> QED BY <1>1, <1>2 DEF FlashInv

LEMMA CloseTrialInv == UpdateInv /\ CloseTrial => UpdateInv'
<1> SUFFICES ASSUME UpdateInv, CloseTrial PROVE UpdateInv'
  OBVIOUS
<1> DEFINE t == [view EXCEPT !.confirmed = 2, !.bank = active]
<1>1. PICK rc \in Outcomes :
        /\ WriteTrial(rc, t)
        /\ IF rc = "cut" THEN HardReset ELSE pc' = "run" /\ UNCHANGED upd
  BY DEF CloseTrial
<1>2. /\ TypeOK /\ active = boot /\ accepted[boot] /\ state = "IDLE" /\ starts = 0
      /\ Settled(boot, view) /\ boot \in BANKS
      /\ UNCHANGED <<boot, image, active, accepted, starts>>
  BY DEF UpdateInv, CloseTrial, ServiceInv, FlashInv, TypeOK
<1>3. t \in Trials /\ Settled(boot, t)
  <2>1. t = [bank |-> boot, boot_count |-> view.boot_count, confirmed |-> 2]
    <3>1. view \in Trials /\ active \in BANKS /\ active = boot
      BY <1>2 DEF TypeOK
    <3>2. t = [bank |-> active, boot_count |-> view.boot_count, confirmed |-> 2]
      BY <3>1, ClosedTrial, Zenon
    <3> QED BY <3>1, <3>2, Zenon
  <2>2. view.boot_count \in 0 .. 1
    BY <1>2, TrialTypes DEF TypeOK
  <2> HIDE DEF t
  <2>3. t \in [bank : BANKS, boot_count : 0 .. 1, confirmed : 0 .. 2]
    BY <1>2, <2>1, <2>2
  <2> QED BY <2>1, <2>3 DEF Trials, Settled
<1> HIDE DEF t
<1>4. /\ trial' \in [BANKS -> Trials] /\ view' \in Trials /\ faults' \in 0 .. MAX_FAULTS
      /\ Settled(boot, trial'[boot]) /\ Settled(boot, view')
      /\ trial'[Other(boot)] = trial[Other(boot)]
  BY <1>1, <1>2, <1>3, WrittenTrial, OtherBanks DEF UpdateInv, FlashInv, TypeOK
<1>5. Complete(boot)' /\ FlashInv'
  BY <1>2, <1>4, FlashKept, OtherBanks DEF UpdateInv, FlashInv
<1>6. RamTypes' /\ ServiceInv' /\ TransferInv'
  <2>1. CASE rc = "cut"
    BY <1>1, <1>2, <1>4, <2>1, ResetRam, TypeParts DEF RamTypes
  <2>2. CASE rc # "cut"
    BY <1>1, <1>2, <1>4, <2>2, TypeParts DEF RamTypes, UpdateInv, ServiceInv, TransferInv,
       Committing, upd
  <2> QED BY <2>1, <2>2
<1> QED BY <1>2, <1>4, <1>5, <1>6, TypeParts DEF UpdateInv, FlashTypes, HistoryTypes

\* What FlashInv needs of a step on trial that leaves the banks alone.
LEMMA TrialKept ==
  ASSUME UpdateInv, ~accepted[boot], UNCHANGED <<boot, image, accepted>>,
         starts' \in 0 .. 1, trial'[Other(boot)] = trial[Other(boot)],
         trial'[boot].bank = boot, trial'[boot].confirmed \in {0, 1},
         trial'[boot].confirmed = 1 => starts' = 1,
         starts' = 1 => trial'[boot].boot_count = 1
  PROVE  Complete(boot)' /\ FlashInv'
<1>1. Complete(boot)' /\ (Complete(Other(boot)) => Complete(Other(boot))')
  BY DEF UpdateInv, Complete
<1>2. \A b \in BANKS : b = boot \/ b = Other(boot)
  BY DEF UpdateInv, TypeOK, BANKS, Other
<1> QED BY <1>1, <1>2 DEF UpdateInv, FlashInv

LEMMA CountTrialInv == UpdateInv /\ CountTrial => UpdateInv'
<1> SUFFICES ASSUME UpdateInv, CountTrial PROVE UpdateInv'
  OBVIOUS
<1> DEFINE t == [view EXCEPT !.boot_count = @ + 1]
<1>1. PICK rc \in Outcomes :
        /\ WriteTrial(rc, t)
        /\ \/ rc = "ok" /\ pc' = "run" /\ state' = "TRIAL" /\ starts' = starts + 1
              /\ UNCHANGED <<expected, received, crc>>
           \/ rc = "fail" /\ pc' = "rollback" /\ UNCHANGED <<upd, starts>>
           \/ rc = "cut" /\ HardReset /\ UNCHANGED starts
  BY DEF CountTrial
<1>2. /\ TypeOK /\ active = boot /\ ~accepted[boot] /\ state = "IDLE" /\ starts = 0
      /\ view = trial[boot] /\ view = [bank |-> boot, boot_count |-> 0, confirmed |-> 0]
      /\ boot \in BANKS /\ UNCHANGED <<boot, image, active, accepted>>
  BY DEF UpdateInv, CountTrial, ServiceInv, TypeOK
<1>3. t \in Trials /\ t = [bank |-> boot, boot_count |-> 1, confirmed |-> 0]
  <2>1. t = [bank |-> boot, boot_count |-> 1, confirmed |-> 0]
    BY <1>2
  <2> QED BY <1>2, <2>1 DEF Trials
<1> HIDE DEF t
<1>4. /\ trial' \in [BANKS -> Trials] /\ view' \in Trials /\ faults' \in 0 .. MAX_FAULTS
      /\ trial'[boot] \in {t, view} /\ trial'[Other(boot)] = trial[Other(boot)]
      /\ rc = "ok" => trial'[boot] = t /\ view' = t
  BY <1>1, <1>2, <1>3, WrittenTrial, OtherBanks
<1>5. starts' = IF rc = "ok" THEN 1 ELSE 0
  BY <1>1, <1>2
<1>6. Complete(boot)' /\ FlashInv'
  BY <1>2, <1>3, <1>4, <1>5, TrialKept DEF UpdateInv
<1>7. RamTypes' /\ ServiceInv' /\ TransferInv'
  <2>1. CASE rc = "cut"
    BY <1>1, <1>2, <1>4, <2>1, ResetRam, TypeParts DEF RamTypes
  <2>2. CASE rc = "ok"
    BY <1>1, <1>2, <1>3, <1>4, <2>2, TypeParts DEF RamTypes, UpdateInv, ServiceInv, TransferInv,
       Committing, upd
  <2>3. CASE rc = "fail"
    BY <1>1, <1>2, <1>4, <2>3, TypeParts DEF RamTypes, UpdateInv, ServiceInv, TransferInv,
       Committing, upd, Steps
  <2> QED BY <2>1, <2>2, <2>3 DEF Outcomes
<1> QED BY <1>2, <1>4, <1>5, <1>6, <1>7, TypeParts DEF UpdateInv, FlashTypes, HistoryTypes

\* The trial is left for the bank that still holds the accepted image.
LEMMA LeaveInv ==
  ASSUME UpdateInv, LeaveTrial, ~accepted[boot], active = boot
  PROVE  UpdateInv'
<1>1. PICK rc \in Outcomes : WriteBoot(rc, Other(boot))
  BY DEF LeaveTrial
<1>2. /\ TypeOK /\ boot \in BANKS /\ boot' \in {boot, Other(boot)}
      /\ starts' = IF boot' # boot THEN 0 ELSE starts
      /\ UNCHANGED <<image, trial, active, view, accepted>>
  BY <1>1 DEF LeaveTrial, UpdateInv, TypeOK, WriteBoot, Outcomes
<1>3. FlashTypes' /\ HistoryTypes'
  BY <1>1, <1>2, OtherBanks, ChargeType, TypeParts DEF FlashTypes, HistoryTypes, WriteBoot
<1>4. RamTypes' /\ ServiceInv' /\ TransferInv'
  BY <1>2, ResetRam, TypeParts DEF LeaveTrial, RamTypes
<1>5. Complete(boot)' /\ FlashInv'
  <2>1. CASE boot' = boot
    BY <1>2, <2>1, TrialKept DEF UpdateInv, FlashInv, TypeOK
  <2>2. CASE boot' = Other(boot)
    BY <1>2, <2>2, OtherBanks DEF UpdateInv, FlashInv, Complete
  <2> QED BY <1>2, <2>1, <2>2
<1> QED BY <1>3, <1>4, <1>5, TypeParts DEF UpdateInv

LEMMA TrialLeft == UpdateInv /\ (RollBack \/ TrialTimeout) => UpdateInv'
<1> SUFFICES ASSUME UpdateInv, RollBack \/ TrialTimeout PROVE UpdateInv'
  OBVIOUS
<1>1. ~accepted[boot] /\ active = boot
  BY DEF UpdateInv, ServiceInv, RollBack, TrialTimeout
<1> QED BY <1>1, LeaveInv DEF RollBack, TrialTimeout

LEMMA BeginInv == ASSUME UpdateInv, NEW k \in IMAGES, Begin(k) PROVE UpdateInv'
<1>1. /\ TypeOK /\ active = boot /\ accepted[boot] /\ Settled(boot, view) /\ starts = 0
      /\ UNCHANGED <<boot, image, trial, active, view, accepted, starts, faults>>
  BY DEF UpdateInv, Begin, ServiceInv, FlashInv
<1>2. /\ pc' = "eraseImage" /\ state' = IF state = "RECEIVING" THEN "IDLE" ELSE state
      /\ expected' = k /\ received' = 0 /\ crc' = <<>> /\ state # "TRIAL"
  BY DEF Begin
<1>3. TypeOK'
  BY <1>1, <1>2, UpdateAssumption DEF TypeOK, Steps
<1>4. Complete(boot)' /\ FlashInv'
  BY <1>1, FlashKept, OtherBanks DEF UpdateInv, FlashInv, TypeOK
<1>5. ServiceInv' /\ TransferInv'
  BY <1>1, <1>2 DEF ServiceInv, TransferInv, Committing
<1> QED BY <1>3, <1>4, <1>5 DEF UpdateInv

\* Only the bank that is not selected is erased, and it is given up with the first sector.
LEMMA EraseImageInv == UpdateInv /\ EraseImage => UpdateInv'
<1> SUFFICES ASSUME UpdateInv, EraseImage PROVE UpdateInv'
  OBVIOUS
<1>1. PICK rc \in Outcomes, aborted \in BOOLEAN :
       /\ Charge(rc)
       /\ image' \in {[image EXCEPT ![target] = c] :
                        c \in IF rc = "ok" /\ ~aborted THEN {[i \in 1 .. SIZE |-> ERASED]}
                              ELSE PartlyErased(image[target])}
       /\ IF rc = "cut" THEN HardReset
          ELSE /\ pc' = IF rc = "ok" /\ ~aborted THEN "eraseCfg" ELSE "run"
               /\ UNCHANGED upd
  BY DEF EraseImage
<1>2. /\ TypeOK /\ active = boot /\ accepted[boot] /\ Settled(boot, view) /\ starts = 0
      /\ state # "TRIAL" /\ target = Other(boot) /\ pc = "eraseImage" /\ boot \in BANKS
      /\ UNCHANGED <<boot, trial, active, view, starts>>
      /\ accepted' = [accepted EXCEPT ![target] = FALSE]
  BY DEF UpdateInv, EraseImage, ServiceInv, FlashInv, target, TypeOK
<1>3. /\ accepted' \in [BANKS -> BOOLEAN] /\ ~accepted'[Other(boot)] /\ accepted'[boot]
  BY <1>2, OtherBanks DEF TypeOK
<1>4. image' \in [BANKS -> [1 .. SIZE -> Cells]] /\ image'[boot] = image[boot]
  <2>1. PICK c : /\ image' = [image EXCEPT ![target] = c]
                 /\ c = [i \in 1 .. SIZE |-> ERASED] \/ c \in PartlyErased(image[target])
    BY <1>1
  <2>2. c \in [1 .. SIZE -> Cells]
    BY <2>1, BlockTypes DEF PartlyErased
  <2> QED BY <1>2, <2>1, <2>2, OtherBanks DEF TypeOK
<1>5. faults' \in 0 .. MAX_FAULTS
  BY <1>1, <1>2, ChargeType DEF TypeOK
<1>6. Complete(boot)' /\ FlashInv'
  BY <1>2, <1>3, <1>4, FlashKept DEF UpdateInv, FlashInv, TypeOK
<1>7. RamTypes' /\ ServiceInv' /\ TransferInv'
  <2>1. CASE rc = "cut"
    BY <1>1, <1>2, <2>1, ResetRam, TypeParts DEF RamTypes
  <2>2. CASE rc # "cut"
    BY <1>1, <1>2, <1>3, <2>2, TypeParts DEF RamTypes, UpdateInv, ServiceInv, TransferInv,
       Committing, upd, Steps
  <2> QED BY <2>1, <2>2
<1> QED
  BY <1>2, <1>3, <1>4, <1>5, <1>6, <1>7, TypeParts
  DEF UpdateInv, FlashTypes, HistoryTypes, TypeOK

\* A journal of the given up bank is erased: it starts no trial.
LEMMA ErasedTrial ==
  ASSUME TypeOK, NEW b \in BANKS, NEW t \in {NoTrial, trial[b]},
         trial' = [trial EXCEPT ![b] = t]
  PROVE  /\ trial' \in [BANKS -> Trials] /\ trial'[b] \in {NoTrial, trial[b]}
         /\ \A o \in BANKS \ {b} : trial'[o] = trial[o]
<1>1. trial \in [BANKS -> Trials]
  BY DEF TypeOK
<1>2. t \in Trials
  BY <1>1, TrialTypes
<1> QED BY <1>1, <1>2

LEMMA EraseCfgInv == UpdateInv /\ EraseCfg => UpdateInv'
<1> SUFFICES ASSUME UpdateInv, EraseCfg PROVE UpdateInv'
  OBVIOUS
<1>1. PICK rc \in Outcomes, aborted \in BOOLEAN :
       /\ Charge(rc)
       /\ trial' \in {[trial EXCEPT ![target] = t] :
                        t \in {NoTrial} \cup IF rc = "ok" THEN {} ELSE {trial[target]}}
       /\ IF rc = "cut" THEN HardReset
          ELSE /\ pc' = "run" /\ UNCHANGED <<expected, received, crc>>
               /\ state' = IF rc = "ok" /\ ~aborted THEN "RECEIVING" ELSE state
  BY DEF EraseCfg
<1>2. /\ TypeOK /\ active = boot /\ accepted[boot] /\ Settled(boot, view) /\ starts = 0
      /\ state # "TRIAL" /\ target = Other(boot) /\ pc = "eraseCfg" /\ boot \in BANKS
      /\ ~accepted[Other(boot)]
      /\ UNCHANGED <<boot, image, active, view, accepted, starts>>
  BY DEF UpdateInv, EraseCfg, ServiceInv, FlashInv, TransferInv, target, TypeOK
<1>3. trial' \in [BANKS -> Trials] /\ trial'[boot] = trial[boot]
  <2>1. PICK t \in {NoTrial, trial[target]} : trial' = [trial EXCEPT ![target] = t]
    BY <1>1
  <2> QED BY <1>2, <2>1, ErasedTrial, OtherBanks
<1>4. faults' \in 0 .. MAX_FAULTS
  BY <1>1, <1>2, ChargeType DEF TypeOK
<1>5. Complete(boot)' /\ FlashInv'
  BY <1>2, <1>3, FlashKept DEF UpdateInv, FlashInv, TypeOK
<1>6. RamTypes' /\ ServiceInv' /\ TransferInv'
  <2>1. CASE rc = "cut"
    BY <1>1, <1>2, <2>1, ResetRam, TypeParts DEF RamTypes
  <2>2. CASE rc # "cut"
    BY <1>1, <1>2, <1>3, <2>2, TypeParts DEF RamTypes, UpdateInv, ServiceInv, TransferInv,
       Committing
  <2> QED BY <2>1, <2>2
<1> QED
  BY <1>2, <1>3, <1>4, <1>5, <1>6, TypeParts
  DEF UpdateInv, FlashTypes, HistoryTypes, TypeOK

\* A block goes to the bank that was given up.
LEMMA DataInv == ASSUME UpdateInv, NEW i \in 1 .. SIZE, Data(i) PROVE UpdateInv'
<1> DEFINE at == received + 1
           block == <<expected, i>>
<1>1. PICK rc \in Outcomes :
       /\ Charge(rc)
       /\ rc = "ok" => image[target][at] = ERASED
       /\ image' \in {[image EXCEPT ![target][at] = c] :
                        c \in IF rc = "ok" THEN {block} ELSE {block, JUNK, image[target][at]}}
       /\ CASE rc = "ok" -> /\ received' = at /\ crc' = Append(crc, block)
                            /\ UNCHANGED <<pc, state, expected>>
            [] rc = "fail" -> reset_receiving /\ UNCHANGED pc
            [] rc = "cut" -> HardReset
  BY DEF Data
<1>2. /\ TypeOK /\ active = boot /\ accepted[boot] /\ Settled(boot, view) /\ starts = 0
      /\ state = "RECEIVING" /\ target = Other(boot) /\ pc = "run" /\ boot \in BANKS
      /\ received < SIZE /\ ~accepted[Other(boot)] /\ Len(crc) = received
      /\ UNCHANGED <<boot, trial, active, view, accepted, starts>>
  BY DEF UpdateInv, Data, ServiceInv, FlashInv, TransferInv, target, TypeOK
<1>3. at \in 1 .. SIZE /\ block \in Blocks /\ block \in Cells
  BY <1>2, UpdateAssumption, BlockTypes DEF TypeOK
<1>4. image' \in [BANKS -> [1 .. SIZE -> Cells]] /\ image'[boot] = image[boot]
  <2>1. PICK c \in {block, JUNK, image[target][at]} : image' = [image EXCEPT ![target][at] = c]
    BY <1>1
  <2>2. image[target] \in [1 .. SIZE -> Cells]
    BY <1>2, OtherBanks DEF TypeOK
  <2>3. c \in Cells
    BY <1>3, <2>1, <2>2, BlockTypes
  <2> HIDE DEF at
  <2>4. [image[target] EXCEPT ![at] = c] \in [1 .. SIZE -> Cells]
    BY <1>3, <2>2, <2>3
  <2> QED BY <1>2, <2>1, <2>4, OtherBanks DEF TypeOK
<1>5. faults' \in 0 .. MAX_FAULTS
  BY <1>1, <1>2, ChargeType DEF TypeOK
<1>6. Complete(boot)' /\ FlashInv'
  BY <1>2, <1>4, FlashKept DEF UpdateInv, FlashInv, TypeOK
<1>7. RamTypes' /\ ServiceInv' /\ TransferInv'
  <2>1. CASE rc = "cut"
    BY <1>1, <1>2, <2>1, ResetRam, TypeParts DEF RamTypes
  <2>2. CASE rc = "fail"
    BY <1>1, <1>2, <2>2, GivenUp DEF TypeOK
  <2>3. CASE rc = "ok"
    <3>1. /\ received' = at /\ crc' = Append(crc, block)
          /\ UNCHANGED <<pc, state, expected>>
      BY <1>1, <2>3
    <3>2. crc' \in Seq(Blocks) /\ Len(crc') = received'
      BY <1>2, <1>3, <3>1 DEF TypeOK
    <3> QED BY <1>2, <1>3, <3>1, <3>2, TypeParts
            DEF RamTypes, ServiceInv, TransferInv, Committing
  <2> QED BY <2>1, <2>2, <2>3 DEF Outcomes
<1> QED
  BY <1>2, <1>4, <1>5, <1>6, <1>7, TypeParts
  DEF UpdateInv, FlashTypes, HistoryTypes, TypeOK

LEMMA UpdAbortInv == UpdateInv /\ UpdAbort => UpdateInv'
<1> SUFFICES ASSUME UpdateInv, UpdAbort PROVE UpdateInv'
  OBVIOUS
<1>1. /\ TypeOK /\ active = boot /\ accepted[boot] /\ Settled(boot, view) /\ starts = 0
      /\ UNCHANGED <<boot, image, trial, active, view, pc, accepted, starts, faults>>
      /\ pc = "run" /\ state = "RECEIVING" /\ reset_receiving
  BY DEF UpdateInv, UpdAbort, ServiceInv, FlashInv
<1>2. Complete(boot)' /\ FlashInv'
  BY <1>1, FlashKept, OtherBanks DEF UpdateInv, FlashInv, TypeOK
<1>3. RamTypes' /\ ServiceInv' /\ TransferInv'
  BY <1>1, GivenUp DEF TypeOK
<1> QED BY <1>1, <1>2, <1>3, TypeParts DEF UpdateInv, FlashTypes, HistoryTypes, TypeOK

\* COMMIT goes on only with an image that passed its checks.
LEMMA CommitInv == UpdateInv /\ Commit => UpdateInv'
<1> SUFFICES ASSUME UpdateInv, Commit PROVE UpdateInv'
  OBVIOUS
<1>1. /\ TypeOK /\ active = boot /\ accepted[boot] /\ Settled(boot, view) /\ starts = 0
      /\ state = "RECEIVING" /\ target = Other(boot) /\ pc = "run" /\ boot \in BANKS
      /\ ~accepted[Other(boot)] /\ Len(crc) = received /\ Settled(boot, trial[boot])
      /\ UNCHANGED <<boot, image, active, view, accepted, starts, faults>>
  BY DEF UpdateInv, Commit, ServiceInv, FlashInv, TransferInv, target, TypeOK
<1>2. /\ trial' \in [BANKS -> Trials] /\ Settled(boot, trial'[boot])
      /\ trial'[Other(boot)] = trial[Other(boot)]
  <2>1. trial' = trial \/ trial' = [trial EXCEPT ![boot] = view]
    BY <1>1 DEF Commit
  <2> QED BY <1>1, <2>1, OtherBanks DEF TypeOK
<1>3. Complete(boot)' /\ FlashInv'
  BY <1>1, <1>2, FlashKept DEF UpdateInv, FlashInv, TypeOK
<1>4. RamTypes' /\ ServiceInv' /\ TransferInv'
  <2>1. CASE reset_receiving /\ UNCHANGED pc
    BY <1>1, <2>1, GivenUp DEF TypeOK
  <2>2. CASE Verified /\ pc' = "setTrial" /\ UNCHANGED upd
    BY <1>1, <2>2, TypeParts
    DEF RamTypes, ServiceInv, TransferInv, Committing, Verified, upd, Steps
  <2> QED BY <2>1, <2>2 DEF Commit
<1> QED
  BY <1>1, <1>2, <1>3, <1>4, TypeParts DEF UpdateInv, FlashTypes, HistoryTypes, TypeOK

\* The state of a COMMIT under way.
LEMMA CommitFacts ==
  ASSUME UpdateInv, Committing
  PROVE  /\ TypeOK /\ active = boot /\ accepted[boot] /\ Settled(boot, view) /\ starts = 0
         /\ Settled(boot, trial[boot]) /\ state # "TRIAL" /\ target = Other(boot)
         /\ boot \in BANKS /\ target \in BANKS /\ target # boot /\ pc # "boot"
         /\ ~accepted[target] /\ Len(crc) = received
         /\ image[target] = Whole(expected) /\ expected \in IMAGES \ FOREIGN
BY OtherBanks DEF UpdateInv, ServiceInv, FlashInv, TransferInv, Committing, TypeOK, target

\* A step of COMMIT keeps what was verified, or ends the transfer.
LEMMA CommitSteps ==
  ASSUME UpdateInv, Committing, NEW rc \in Outcomes, NEW next, CommitStep(rc, next),
         next \in {"copyErase", "copyWrite", "setBoot"},
         view' \in Trials, Settled(boot, view'), UNCHANGED <<boot, image, active, accepted>>,
         rc = "ok" => view' = [bank |-> target, boot_count |-> 0, confirmed |-> 0],
         rc = "ok" /\ next = "setBoot" => trial'[target] = view'
  PROVE  RamTypes' /\ ServiceInv' /\ TransferInv'
<1>1. CASE rc = "cut"
  BY <1>1, CommitFacts, ResetRam, TypeParts DEF CommitStep, RamTypes
<1>2. CASE rc = "fail"
  BY <1>2, CommitFacts, GivenUp DEF CommitStep
<1>3. CASE rc = "ok"
  <2>1. pc' = next /\ UNCHANGED <<state, expected, received, crc>>
    BY <1>3 DEF CommitStep, upd
  <2>2. RamTypes'
    BY <2>1, CommitFacts DEF RamTypes, TypeOK, Steps
  <2>3. ServiceInv'
    BY <2>1, CommitFacts DEF ServiceInv
  <2>4. TransferInv'
    BY <1>3, <2>1, CommitFacts DEF TransferInv, Committing, target
  <2> QED BY <2>2, <2>3, <2>4
<1> QED BY <1>1, <1>2, <1>3 DEF Outcomes

LEMMA SetTrialInv == UpdateInv /\ SetTrial => UpdateInv'
<1> SUFFICES ASSUME UpdateInv, SetTrial PROVE UpdateInv'
  OBVIOUS
<1> DEFINE t == [bank |-> target, boot_count |-> 0, confirmed |-> 0]
<1>1. PICK rc \in Outcomes : WriteTrial(rc, t) /\ CommitStep(rc, "copyErase")
  BY DEF SetTrial
<1>2. Committing /\ UNCHANGED <<boot, image, active, accepted, starts>>
  BY DEF SetTrial, Committing
<1>3. t \in Trials /\ Settled(boot, t)
  <2>1. target \in BANKS /\ target # boot
    BY <1>2, CommitFacts
  <2>2. t \in Trials
    BY <2>1 DEF Trials
  <2> QED BY <2>1, <2>2 DEF Settled
<1> HIDE DEF t
<1>4. /\ trial' \in [BANKS -> Trials] /\ view' \in Trials /\ faults' \in 0 .. MAX_FAULTS
      /\ Settled(boot, trial'[boot]) /\ Settled(boot, view')
      /\ trial'[target] = trial[target] /\ (rc = "ok" => view' = t)
  BY <1>1, <1>2, <1>3, CommitFacts, WrittenTrial
<1>5. Complete(boot)' /\ FlashInv'
  BY <1>2, <1>4, CommitFacts, FlashKept
<1>6. RamTypes' /\ ServiceInv' /\ TransferInv'
  BY <1>1, <1>2, <1>4, CommitSteps DEF t
<1> QED
  BY <1>2, <1>4, <1>5, <1>6, CommitFacts, TypeParts
  DEF UpdateInv, FlashTypes, HistoryTypes, TypeOK

LEMMA CopyEraseInv == UpdateInv /\ CopyErase => UpdateInv'
<1> SUFFICES ASSUME UpdateInv, CopyErase PROVE UpdateInv'
  OBVIOUS
<1>1. PICK rc \in Outcomes :
        /\ Charge(rc) /\ CommitStep(rc, "copyWrite")
        /\ trial' \in {[trial EXCEPT ![target] = t] :
                         t \in {NoTrial} \cup IF rc = "ok" THEN {} ELSE {trial[target]}}
  BY DEF CopyErase
<1>2. /\ Committing /\ UNCHANGED <<boot, image, active, view, accepted, starts>>
      /\ view = [bank |-> target, boot_count |-> 0, confirmed |-> 0]
  BY CommitFacts DEF CopyErase, Committing, UpdateInv, TransferInv
<1>3. trial' \in [BANKS -> Trials] /\ trial'[boot] = trial[boot]
  <2>1. PICK t \in {NoTrial, trial[target]} : trial' = [trial EXCEPT ![target] = t]
    BY <1>1
  <2> QED BY <1>2, <2>1, CommitFacts, ErasedTrial
<1>4. faults' \in 0 .. MAX_FAULTS
  BY <1>1, <1>2, CommitFacts, ChargeType DEF TypeOK
<1>5. Complete(boot)' /\ FlashInv'
  BY <1>2, <1>3, CommitFacts, FlashKept
<1>6. RamTypes' /\ ServiceInv' /\ TransferInv'
  BY <1>1, <1>2, <1>3, CommitFacts, CommitSteps DEF TypeOK
<1> QED
  BY <1>2, <1>3, <1>4, <1>5, <1>6, CommitFacts, TypeParts
  DEF UpdateInv, FlashTypes, HistoryTypes, TypeOK

LEMMA CopyWriteInv == UpdateInv /\ CopyWrite => UpdateInv'
<1> SUFFICES ASSUME UpdateInv, CopyWrite PROVE UpdateInv'
  OBVIOUS
<1>1. PICK rc \in Outcomes :
        /\ Charge(rc) /\ CommitStep(rc, "setBoot")
        /\ trial' \in {[trial EXCEPT ![target] = t] :
                         t \in {view} \cup IF rc = "ok" THEN {} ELSE {NoTrial}}
  BY DEF CopyWrite
<1>2. /\ Committing /\ UNCHANGED <<boot, image, active, view, accepted, starts>>
      /\ view = [bank |-> target, boot_count |-> 0, confirmed |-> 0]
  BY CommitFacts DEF CopyWrite, Committing, UpdateInv, TransferInv
<1>3. /\ trial' \in [BANKS -> Trials] /\ trial'[boot] = trial[boot]
      /\ rc = "ok" => trial'[target] = view
  <2>1. PICK t \in {NoTrial, view} :
          trial' = [trial EXCEPT ![target] = t] /\ (rc = "ok" => t = view)
    BY <1>1
  <2>2. t \in Trials
    BY <1>2, <2>1, CommitFacts, TrialTypes DEF TypeOK
  <2> QED BY <1>2, <2>1, <2>2, CommitFacts DEF TypeOK
<1>4. faults' \in 0 .. MAX_FAULTS
  BY <1>1, <1>2, CommitFacts, ChargeType DEF TypeOK
<1>5. Complete(boot)' /\ FlashInv'
  BY <1>2, <1>3, CommitFacts, FlashKept
<1>6. RamTypes' /\ ServiceInv' /\ TransferInv'
  BY <1>1, <1>2, <1>3, CommitFacts, CommitSteps DEF TypeOK
<1> QED
  BY <1>2, <1>3, <1>4, <1>5, <1>6, CommitFacts, TypeParts
  DEF UpdateInv, FlashTypes, HistoryTypes, TypeOK

\* The switch: from here the way back is open.
LEMMA SetBootInv == UpdateInv /\ SetBoot => UpdateInv'
<1> SUFFICES ASSUME UpdateInv, SetBoot PROVE UpdateInv'
  OBVIOUS
<1>1. PICK rc \in Outcomes :
        /\ WriteBoot(rc, target)
        /\ IF rc = "fail" THEN pc' = "run" /\ reset_receiving ELSE HardReset
  BY DEF SetBoot
<1>2. /\ Committing /\ starts' = 0 /\ UNCHANGED <<image, trial, active, view, accepted>>
      /\ trial[target] = [bank |-> target, boot_count |-> 0, confirmed |-> 0]
  BY CommitFacts DEF SetBoot, Committing, UpdateInv, TransferInv
<1>3. boot' \in {boot, target} /\ (rc = "fail" => boot' = boot)
  BY <1>1 DEF WriteBoot, Outcomes
<1>4. faults' \in 0 .. MAX_FAULTS
  BY <1>1, <1>2, CommitFacts, ChargeType DEF TypeOK, WriteBoot
<1>5. Complete(boot)' /\ FlashInv'
  <2>1. CASE boot' = boot
    BY <1>2, <2>1, CommitFacts, FlashKept
  <2>2. CASE boot' = target
    <3>1. Complete(target) /\ Complete(boot)
      BY <1>2, CommitFacts DEF Complete, UpdateInv
    <3>2. Complete(boot)' /\ Complete(Other(boot))'
      BY <1>2, <2>2, <3>1, CommitFacts, OtherBanks DEF Complete
    <3>3. \A b \in BANKS : accepted'[b] => Settled(b, trial'[b])
      BY <1>2 DEF UpdateInv, FlashInv
    <3> QED BY <1>2, <2>2, <3>2, <3>3, CommitFacts, OtherBanks DEF FlashInv
  <2> QED BY <1>3, <2>1, <2>2
<1>6. RamTypes' /\ ServiceInv' /\ TransferInv'
  <2>1. CASE rc = "fail"
    BY <1>1, <1>2, <1>3, <2>1, CommitFacts, GivenUp DEF TypeOK
  <2>2. CASE rc # "fail"
    BY <1>1, <1>2, <2>2, CommitFacts, ResetRam, TypeParts DEF RamTypes
  <2> QED BY <2>1, <2>2
<1> QED
  BY <1>2, <1>3, <1>4, <1>5, <1>6, CommitFacts, TypeParts
  DEF UpdateInv, FlashTypes, HistoryTypes, TypeOK

\* CONFIRM ends the trial when its record is written, and only then.
LEMMA ConfirmInv == UpdateInv /\ Confirm => UpdateInv'
<1> SUFFICES ASSUME UpdateInv, Confirm PROVE UpdateInv'
  OBVIOUS
<1> DEFINE t == [view EXCEPT !.confirmed = 1]
<1>1. PICK rc \in Outcomes :
       /\ WriteTrial(rc, t)
       /\ accepted' = [accepted EXCEPT ![active] = rc = "ok"]
       /\ starts' = IF rc = "ok" THEN 0 ELSE starts
       /\ CASE rc = "ok" -> state' = "CONFIRMED" /\ UNCHANGED <<pc, expected, received, crc>>
            [] rc = "fail" -> UNCHANGED <<pc, upd>>
            [] rc = "cut" -> HardReset
  BY DEF Confirm
<1>2. /\ TypeOK /\ active = boot /\ ~accepted[boot] /\ starts = 1 /\ boot \in BANKS
      /\ view = [bank |-> boot, boot_count |-> 1, confirmed |-> 0]
      /\ pc = "run" /\ state = "TRIAL" /\ Len(crc) = received
      /\ UNCHANGED <<boot, image, active>>
      /\ trial[boot].bank = boot /\ trial[boot].confirmed \in {0, 1}
      /\ trial[boot].boot_count = 1 /\ accepted[Other(boot)]
      /\ Settled(Other(boot), trial[Other(boot)])
  BY OtherBanks DEF UpdateInv, Confirm, ServiceInv, TransferInv, FlashInv, TypeOK
<1>3. t = [bank |-> boot, boot_count |-> 1, confirmed |-> 1] /\ t \in Trials
  <2>1. t = [bank |-> boot, boot_count |-> 1, confirmed |-> 1]
    BY <1>2
  <2> HIDE DEF t
  <2> QED BY <1>2, <2>1 DEF Trials
<1> HIDE DEF t
<1>4. /\ trial' \in [BANKS -> Trials] /\ view' \in Trials /\ faults' \in 0 .. MAX_FAULTS
      /\ trial'[boot] \in {t, trial[boot]} /\ trial'[Other(boot)] = trial[Other(boot)]
      /\ rc = "ok" => trial'[boot] = t /\ view' = t
      /\ rc # "ok" => view' = view
  BY <1>1, <1>2, <1>3, WrittenTrial, OtherBanks
<1>5. /\ accepted' \in [BANKS -> BOOLEAN] /\ (accepted'[boot] <=> rc = "ok")
      /\ accepted'[Other(boot)]
  BY <1>1, <1>2, OtherBanks DEF TypeOK
<1>6. Complete(boot)' /\ FlashInv'
  <2>1. Complete(boot)' /\ Complete(Other(boot))'
    BY <1>2 DEF UpdateInv, FlashInv, Complete
  <2>2. \A b \in BANKS : b = boot \/ b = Other(boot)
    BY <1>2 DEF BANKS, Other
  <2>3. CASE rc = "ok"
    <3>1. Settled(boot, trial'[boot])
      BY <1>3, <1>4, <2>3 DEF Settled
    <3> QED BY <1>1, <1>2, <1>4, <1>5, <2>1, <2>2, <2>3, <3>1 DEF FlashInv
  <2>4. CASE rc # "ok"
    <3>1. /\ trial'[boot].bank = boot /\ trial'[boot].confirmed \in {0, 1}
          /\ trial'[boot].boot_count = 1
      BY <1>2, <1>3, <1>4
    <3> QED BY <1>1, <1>2, <1>4, <1>5, <2>1, <2>2, <2>4, <3>1 DEF FlashInv
  <2> QED BY <2>3, <2>4
<1>7. RamTypes' /\ ServiceInv' /\ TransferInv'
  <2>1. CASE rc = "cut"
    BY <1>1, <1>2, <1>4, <2>1, ResetRam, TypeParts DEF RamTypes
  <2>2. CASE rc = "ok"
    <3>1. Settled(boot, view')
      BY <1>3, <1>4, <2>2 DEF Settled
    <3> QED BY <1>1, <1>2, <1>4, <1>5, <2>2, <3>1, TypeParts
            DEF RamTypes, ServiceInv, TransferInv, Committing
  <2>3. CASE rc = "fail"
    BY <1>1, <1>2, <1>4, <1>5, <2>3, TypeParts
    DEF RamTypes, ServiceInv, TransferInv, Committing, upd
  <2> QED BY <2>1, <2>2, <2>3 DEF Outcomes
<1>8. starts' \in 0 .. 1
  BY <1>1, <1>2
<1> QED
  BY <1>2, <1>4, <1>5, <1>6, <1>7, <1>8, TypeParts
  DEF UpdateInv, FlashTypes, HistoryTypes, TypeOK

\* The image hangs, the watchdog bites, the board is reset: the flash stays as it is.
LEMMA ResetInv == UpdateInv /\ (Hang \/ Watchdog \/ Reset) => UpdateInv'
<1> SUFFICES ASSUME UpdateInv, Hang \/ Watchdog \/ Reset PROVE UpdateInv'
  OBVIOUS
<1>1. /\ UNCHANGED <<boot, image, trial, active, view, accepted, starts>>
      /\ faults' \in 0 .. MAX_FAULTS
  BY ChargeType DEF Hang, Watchdog, Reset, UpdateInv, TypeOK
<1>2. FlashTypes' /\ HistoryTypes'
  BY <1>1 DEF UpdateInv, TypeOK, FlashTypes, HistoryTypes
<1>3. Complete(boot)' /\ FlashInv'
  BY <1>1 DEF UpdateInv, FlashInv, Complete
<1>4. RamTypes' /\ ServiceInv' /\ TransferInv'
  <2>1. CASE Hang
    BY <1>1, <2>1, TypeParts
    DEF Hang, upd, UpdateInv, RamTypes, ServiceInv, TransferInv, Committing
  <2>2. CASE HardReset
    BY <1>1, <2>2, ResetRam, TypeParts DEF UpdateInv, RamTypes
  <2> QED BY <2>1, <2>2 DEF Watchdog, Reset
<1> QED BY <1>2, <1>3, <1>4, TypeParts DEF UpdateInv

LEMMA StutterInv == UpdateInv /\ UNCHANGED vars => UpdateInv'
<1> SUFFICES ASSUME UpdateInv, UNCHANGED vars PROVE UpdateInv'
  OBVIOUS
<1>1. TypeOK'
  BY DEF vars, upd, UpdateInv, TypeOK
<1>2. Complete(boot)' /\ FlashInv'
  BY DEF vars, upd, UpdateInv, Complete, FlashInv
<1>3. ServiceInv' /\ TransferInv'
  BY DEF vars, upd, UpdateInv, ServiceInv, TransferInv, Committing
<1> QED BY <1>1, <1>2, <1>3 DEF UpdateInv

LEMMA NextInv == UpdateInv /\ [Next]_vars => UpdateInv'
BY BootInv, CloseTrialInv, CountTrialInv, TrialLeft, BeginInv, EraseImageInv, EraseCfgInv,
   DataInv, UpdAbortInv, CommitInv, SetTrialInv, CopyEraseInv, CopyWriteInv, SetBootInv,
   ConfirmInv, ResetInv, StutterInv
DEF Next, Inner, Host

-----------------------------------------------------------------------------
(* The theorems.                                                           *)

\* The invariant of the update, for any images, sizes, failures and resets (update.c).
THEOREM UpdateInvariant == Spec => []UpdateInv
BY InitInv, NextInv, PTL DEF Spec

\* The bank the option bytes select always holds a complete image that passed the checks.
THEOREM BootBankTheorem == Spec => []BootBankComplete
<1>1. UpdateInv => BootBankComplete
  BY DEF UpdateInv, BootBankComplete
<1> QED BY <1>1, UpdateInvariant, PTL

\* While an image is on trial, the accepted one and the record that leads back are in place.
THEOREM FallbackTheorem == Spec => []FallbackIntact
<1>1. UpdateInv => FallbackIntact
  BY DEF UpdateInv, FlashInv, FallbackIntact
<1> QED BY <1>1, UpdateInvariant, PTL

\* What a step of the update is to the protocol: it installs, starts, accepts or returns,
\* or it is none of its business.
LEMMA ProtocolStep ==
  UpdateInv /\ UpdateInv' /\ [Next]_vars => [Protocol!Next]_(Protocol!protocolVars)
<1> SUFFICES ASSUME UpdateInv, UpdateInv', [Next]_vars
             PROVE  Protocol!Next \/ UNCHANGED Protocol!protocolVars
  OBVIOUS
<1> DEFINE same == boot' = boot /\ (accepted'[boot] <=> accepted[boot]) /\ starts' = starts
<1>1. same => UNCHANGED Protocol!protocolVars
  BY DEF Protocol!protocolVars
<1>2. /\ TypeOK /\ (accepted[boot] => starts = 0) /\ boot \in BANKS /\ boot # Other(boot)
      /\ accepted'[boot'] => starts' = 0
      /\ ~accepted[boot] => accepted[Other(boot)]
  BY OtherBanks DEF UpdateInv, FlashInv, TypeOK
<1>3. CASE Boot
  <2>1. boot' = boot /\ (accepted[boot] => accepted'[boot])
        /\ starts' = IF accepted'[boot] THEN 0 ELSE starts
    BY <1>2, <1>3 DEF Boot, TypeOK
  <2>2. accepted'[boot] /\ ~accepted[boot] => starts = 1
    BY <1>2, <1>3 DEF Boot, TypeOK, UpdateInv, FlashInv
  <2>3. accepted'[boot] /\ ~accepted[boot] => Protocol!Accept
    BY <2>1, <2>2 DEF Protocol!Accept
  <2>4. (accepted'[boot] <=> accepted[boot]) => same
    BY <1>2, <2>1
  <2> QED BY <1>1, <2>1, <2>3, <2>4 DEF Protocol!Next
<1>4. CASE CountTrial
  <2>1. ~accepted[boot] /\ starts = 0
    BY <1>4 DEF CountTrial, UpdateInv, ServiceInv
  <2>2. UNCHANGED <<boot, accepted>> /\ starts' \in {starts, starts + 1}
    BY <1>4 DEF CountTrial
  <2>3. starts' = 1 => Protocol!Start
    BY <2>1, <2>2 DEF Protocol!Start
  <2> QED BY <1>1, <2>1, <2>2, <2>3 DEF Protocol!Next
<1>5. CASE RollBack \/ TrialTimeout
  <2>1. ~accepted[boot] /\ active = boot
    BY <1>5 DEF RollBack, TrialTimeout, UpdateInv, ServiceInv
  <2>2. /\ boot' \in {boot, Other(boot)} /\ accepted' = accepted
        /\ starts' = IF boot' # boot THEN 0 ELSE starts
    BY <1>5, <2>1 DEF RollBack, TrialTimeout, LeaveTrial, WriteBoot, Outcomes
  <2>3. boot' = Other(boot) => Protocol!Return
    BY <1>2, <2>1, <2>2 DEF Protocol!Return, Protocol!OtherBank, Other
  <2> QED BY <1>1, <2>2, <2>3 DEF Protocol!Next
<1>6. CASE SetBoot
  <2>1. Committing
    BY <1>6 DEF SetBoot, Committing
  <2>2. /\ accepted[boot] /\ ~accepted[Other(boot)] /\ starts = 0
        /\ boot' \in {boot, Other(boot)} /\ accepted' = accepted /\ starts' = 0
    BY <1>6, <2>1, CommitFacts DEF SetBoot, WriteBoot, Outcomes
  <2>3. boot' = Other(boot) => Protocol!Install
    BY <2>2 DEF Protocol!Install, Protocol!OtherBank, Other
  <2> QED BY <1>1, <2>2, <2>3 DEF Protocol!Next
<1>7. CASE Confirm
  <2>1. ~accepted[boot] /\ active = boot /\ starts = 1
    BY <1>7 DEF Confirm, UpdateInv, ServiceInv
  <2>2. PICK rc \in Outcomes :
          /\ accepted' = [accepted EXCEPT ![active] = rc = "ok"]
          /\ starts' = IF rc = "ok" THEN 0 ELSE starts
    BY <1>7 DEF Confirm
  <2>3. boot' = boot /\ (accepted'[boot] <=> rc = "ok")
    BY <1>2, <1>7, <2>1, <2>2 DEF Confirm, TypeOK
  <2>4. rc = "ok" => Protocol!Accept
    BY <2>1, <2>2, <2>3 DEF Protocol!Accept
  <2> QED BY <1>1, <2>1, <2>2, <2>3, <2>4 DEF Protocol!Next
<1>8. CASE EraseImage
  <2>1. accepted' = [accepted EXCEPT ![Other(boot)] = FALSE] /\ UNCHANGED <<boot, starts>>
    BY <1>8 DEF EraseImage, UpdateInv, ServiceInv, target
  <2> QED BY <1>1, <1>2, <2>1 DEF TypeOK
<1>9. CASE UNCHANGED <<boot, accepted, starts>>
  BY <1>1, <1>9
<1>10. \/ Boot \/ CountTrial \/ RollBack \/ TrialTimeout \/ SetBoot \/ Confirm \/ EraseImage
       \/ UNCHANGED <<boot, accepted, starts>>
  BY DEF Next, Inner, Host, CloseTrial, EraseCfg, SetTrial, CopyErase, CopyWrite, Watchdog,
     Begin, Data, Commit, UpdAbort, Hang, Reset, vars
<1> QED BY <1>3, <1>4, <1>5, <1>6, <1>7, <1>8, <1>9, <1>10

\* Every behaviour of the update is one of the protocol: a trial starts once and ends with
\* acceptance or with the return, and an accepted image is left only by a COMMIT.
THEOREM ProtocolTheorem == Spec => ImplementsProtocol
<1>1. Init => Protocol!Init
  BY DEF Init, Protocol!Init, BANKS
<1> QED BY <1>1, ProtocolStep, UpdateInvariant, PTL DEF Spec, ImplementsProtocol, Protocol!Spec
=============================================================================
