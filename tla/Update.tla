------------------------------- MODULE Update -------------------------------
(***************************************************************************)
(* The firmware update, core/update.c: two banks of flash, the option      *)
(* bytes that select the one to start, and a trial record in the CFG       *)
(* journal of each bank.  Every flash operation is a step that succeeds,   *)
(* fails, or is cut by a reset, and a new image may hang once it is in     *)
(* service.                                                                *)
(*                                                                         *)
(* The journal is used through its promise (CfgStore): a write that fails  *)
(* may have reached the flash, and one that is cut is applied or not.      *)
(* An image is SIZE blocks; the block <<k, i>> is the i-th of image k.     *)
(***************************************************************************)
EXTENDS Naturals, Sequences, SequencesExt

CONSTANTS IMAGES,       \* what a host may upload
          HANGING,      \* those of them that hang in service
          FOREIGN,      \* those of them the header checks refuse
          SIZE,         \* blocks of an image
          ERASED, JUNK, \* a block that was erased, and one that was only half programmed
          MAX_FAULTS    \* bound on failing operations plus resets

ASSUME UpdateAssumption == /\ HANGING \subseteq IMAGES /\ FOREIGN \subseteq IMAGES
                           /\ SIZE \in Nat \ {0} /\ MAX_FAULTS \in Nat
                           /\ ERASED # JUNK /\ {ERASED, JUNK} \cap (IMAGES \X (1 .. SIZE)) = {}

BANKS == {1, 2}
Other(b) == 3 - b

NoTrial == [bank |-> 0, boot_count |-> 0, confirmed |-> 0]
Trials == [bank : BANKS, boot_count : 0 .. 1, confirmed : 0 .. 2] \cup {NoTrial}

Blocks == IMAGES \X (1 .. SIZE)
Cells == Blocks \cup {ERASED, JUNK}

VARIABLES
  boot,       \* option bytes: the bank the next reset starts
  image,      \* flash: the blocks of each bank
  trial,      \* flash: the trial record a reset would find in each bank's journal
  active,     \* the bank in service
  view,       \* trial record as the running image reads it
  state,      \* upd.state
  expected,   \* image announced by SYST:UPD:BEGIN, in place of its CRC
  received,   \* upd.received, in blocks
  crc,        \* upd.crc: the blocks it was computed over
  pc,         \* "boot", "run", "hung", or the flash operation to come
  accepted,   \* history: the image of the bank was confirmed, or is the first one
  starts,     \* history: times the unconfirmed image entered service
  faults

upd == <<state, expected, received, crc>>
vars == <<boot, image, trial, active, view, upd, pc, accepted, starts, faults>>

Steps == {"eraseImage", "eraseCfg", "setTrial", "copyErase", "copyWrite", "setBoot",
          "closeTrial", "countTrial", "rollback"}

TypeOK ==
  /\ boot \in BANKS /\ active \in BANKS
  /\ image \in [BANKS -> [1 .. SIZE -> Cells]]
  /\ trial \in [BANKS -> Trials] /\ view \in Trials
  /\ state \in {"IDLE", "RECEIVING", "TRIAL", "CONFIRMED"}
  /\ expected \in IMAGES
  /\ received \in 0 .. SIZE
  /\ crc \in Seq(Blocks) /\ Len(crc) <= SIZE
  /\ pc \in {"boot", "run", "hung"} \cup Steps
  /\ accepted \in [BANKS -> BOOLEAN]
  /\ starts \in 0 .. 1
  /\ faults \in 0 .. MAX_FAULTS

Whole(k) == [i \in 1 .. SIZE |-> <<k, i>>]
Complete(b) == \E k \in IMAGES \ FOREIGN : image[b] = Whole(k)
target == Other(active)

Outcomes == {"ok", "fail", "cut"}
Charge(rc) == \/ rc = "ok" /\ UNCHANGED faults
              \/ rc # "ok" /\ faults < MAX_FAULTS /\ faults' = faults + 1

\* reset_receiving: also the early part of a failed COMMIT or DATA.
reset_receiving ==
  /\ state' = IF state = "RECEIVING" THEN "IDLE" ELSE state
  /\ received' = 0 /\ crc' = <<>> /\ UNCHANGED expected

\* A reset loses the RAM; the boot code finds what the flash holds.
HardReset == /\ pc' = "boot"
             /\ state' = "IDLE" /\ received' = 0 /\ crc' = <<>> /\ UNCHANGED expected

\* cfg_set_trial of the running image: on failure the record may have landed.
WriteTrial(rc, t) ==
  /\ Charge(rc)
  /\ trial' \in {[trial EXCEPT ![active] = r] :
                   r \in {t} \cup IF rc = "ok" THEN {} ELSE {trial[active]}}
  /\ view' = IF rc = "ok" THEN t ELSE view

\* hal_bank_set_boot: a reported failure left the option bytes alone.
WriteBoot(rc, b) ==
  /\ Charge(rc)
  /\ boot' \in CASE rc = "ok" -> {b} [] rc = "fail" -> {boot} [] rc = "cut" -> {boot, b}

PartlyErased(cells) ==
  {c \in [1 .. SIZE -> Cells] : \A i \in 1 .. SIZE : c[i] \in {cells[i], ERASED, JUNK}}

-----------------------------------------------------------------------------
(* Boot: upd_boot_check runs before anything that can hang.                *)

Decision(t) ==
  CASE t = NoTrial \/ t.confirmed # 0 -> "run"
    [] OTHER -> IF t.bank # boot THEN "closeTrial"
                ELSE IF t.boot_count >= 1 THEN "rollback" ELSE "countTrial"

Boot ==
  LET t == trial[boot] IN
  /\ pc = "boot"
  /\ active' = boot /\ view' = t
  /\ pc' = Decision(t)
  /\ accepted' = [accepted EXCEPT ![boot] = @ \/ (t.bank = boot /\ t.confirmed = 1)]
  /\ starts' = IF accepted'[boot] THEN 0 ELSE starts
  /\ UNCHANGED <<boot, image, trial, upd, faults>>

\* The record of an update that was rolled back is closed; a failure to do so
\* is ignored.
CloseTrial ==
  /\ pc = "closeTrial"
  /\ \E rc \in Outcomes :
       /\ WriteTrial(rc, [view EXCEPT !.confirmed = 2, !.bank = active])
       /\ IF rc = "cut" THEN HardReset ELSE pc' = "run" /\ UNCHANGED upd
  /\ UNCHANGED <<boot, image, active, accepted, starts>>

\* The trial starts only once its count is in the flash.
CountTrial_Ignored ==
  /\ pc = "countTrial"
  /\ \E rc \in Outcomes :
       /\ WriteTrial(rc, [view EXCEPT !.boot_count = @ + 1])
       /\ \/ rc \in {"ok", "fail"} /\ pc' = "run" /\ state' = "TRIAL" /\ starts' = starts + 1
             /\ UNCHANGED <<expected, received, crc>>
          \/ rc = "cut" /\ HardReset /\ UNCHANGED starts
  /\ UNCHANGED <<boot, image, active, accepted>>
CountTrial ==
  /\ pc = "countTrial"
  /\ \E rc \in Outcomes :
       /\ WriteTrial(rc, [view EXCEPT !.boot_count = @ + 1])
       /\ \/ rc = "ok" /\ pc' = "run" /\ state' = "TRIAL" /\ starts' = starts + 1
             /\ UNCHANGED <<expected, received, crc>>
          \/ rc = "fail" /\ pc' = "rollback" /\ UNCHANGED <<upd, starts>>
          \/ rc = "cut" /\ HardReset /\ UNCHANGED starts
  /\ UNCHANGED <<boot, image, active, accepted>>

\* Return to the other bank and reset, whether or not that worked.
LeaveTrial ==
  /\ \E rc \in Outcomes : WriteBoot(rc, Other(active))
  /\ HardReset
  /\ starts' = IF boot' # boot THEN 0 ELSE starts
  /\ UNCHANGED <<image, trial, active, view, accepted>>

RollBack_Forgotten == pc = "rollback" /\ pc' = "run"
  /\ UNCHANGED <<boot, image, trial, active, view, upd, accepted, starts, faults>>
RollBack == pc = "rollback" /\ LeaveTrial

\* upd_poll: nobody confirmed in time.
TrialTimeout == pc = "run" /\ state = "TRIAL" /\ LeaveTrial

-----------------------------------------------------------------------------
(* SYST:UPD:BEGIN erases the other bank sector by sector.  The state of    *)
(* the outputs and the option bytes may refuse it.  What it announces is   *)
(* noted at once here: nothing reads it before RECEIVING.                  *)

Begin_DuringTrial(k) ==
  /\ pc = "run"
  /\ pc' = "eraseImage" /\ expected' = k
  /\ state' = IF state = "RECEIVING" THEN "IDLE" ELSE state
  /\ received' = 0 /\ crc' = <<>>
  /\ UNCHANGED <<boot, image, trial, active, view, accepted, starts, faults>>
Begin(k) ==
  /\ pc = "run" /\ state # "TRIAL"
  /\ pc' = "eraseImage" /\ expected' = k
  /\ state' = IF state = "RECEIVING" THEN "IDLE" ELSE state
  /\ received' = 0 /\ crc' = <<>>
  /\ UNCHANGED <<boot, image, trial, active, view, accepted, starts, faults>>

\* Between two sectors the service step may bring SAFE or the loss of the
\* client: the command ends there.
EraseImage ==
  /\ pc = "eraseImage"
  /\ \E rc \in Outcomes, aborted \in BOOLEAN :
       /\ Charge(rc)
       /\ image' \in {[image EXCEPT ![target] = c] :
                        c \in IF rc = "ok" /\ ~aborted THEN {[i \in 1 .. SIZE |-> ERASED]}
                              ELSE PartlyErased(image[target])}
       /\ IF rc = "cut" THEN HardReset
          ELSE /\ pc' = IF rc = "ok" /\ ~aborted THEN "eraseCfg" ELSE "run"
               /\ UNCHANGED upd
  /\ accepted' = [accepted EXCEPT ![target] = FALSE]
  /\ UNCHANGED <<boot, trial, active, view, starts>>

EraseCfg ==
  /\ pc = "eraseCfg"
  /\ \E rc \in Outcomes, aborted \in BOOLEAN :
       /\ Charge(rc)
       /\ trial' \in {[trial EXCEPT ![target] = t] :
                        t \in {NoTrial} \cup IF rc = "ok" THEN {} ELSE {trial[target]}}
       /\ IF rc = "cut" THEN HardReset
          ELSE /\ pc' = "run" /\ UNCHANGED <<expected, received, crc>>
               /\ state' = IF rc = "ok" /\ ~aborted THEN "RECEIVING" ELSE state
  /\ UNCHANGED <<boot, image, active, view, accepted, starts>>

\* SYST:UPD:DATA programs the next block; the host may repeat or skip one.
Data(i) ==
  LET at == received + 1 IN
  /\ pc = "run" /\ state = "RECEIVING" /\ received < SIZE
  /\ \E rc \in Outcomes :
       /\ Charge(rc)
       /\ rc = "ok" => image[target][at] = ERASED
       /\ image' \in {[image EXCEPT ![target][at] = c] :
                        c \in IF rc = "ok" THEN {<<expected, i>>}
                              ELSE {<<expected, i>>, JUNK, image[target][at]}}
       /\ CASE rc = "ok" -> /\ received' = at /\ crc' = Append(crc, <<expected, i>>)
                            /\ UNCHANGED <<pc, state, expected>>
            [] rc = "fail" -> reset_receiving /\ UNCHANGED pc
            [] rc = "cut" -> HardReset
  /\ UNCHANGED <<boot, trial, active, view, accepted, starts>>

UpdAbort ==
  /\ pc = "run" /\ state = "RECEIVING"
  /\ reset_receiving
  /\ UNCHANGED <<boot, image, trial, active, view, pc, accepted, starts, faults>>

-----------------------------------------------------------------------------
(* SYST:UPD:COMMIT.                                                        *)

\* The flash and the transfer are compared with the announced CRC, then the
\* header is checked.  A short transfer is refused and may go on.
Verified_NoHeader == image[target] = Whole(expected) /\ crc = Whole(expected)
Verified == /\ image[target] = Whole(expected) /\ crc = Whole(expected)
            /\ expected \notin FOREIGN

\* A full journal is compacted first, which may fail, and which makes the
\* flash agree with what the running image reads.
Commit ==
  /\ pc = "run" /\ state = "RECEIVING" /\ received = SIZE
  /\ \/ /\ Verified
        /\ pc' = "setTrial" /\ UNCHANGED upd
        /\ trial' \in {trial, [trial EXCEPT ![active] = view]}
     \/ reset_receiving /\ UNCHANGED <<pc, trial>>
  /\ UNCHANGED <<boot, image, active, view, accepted, starts, faults>>

\* A step of COMMIT: a failure answers ERR and ends the transfer.
CommitStep(rc, next) ==
  CASE rc = "ok" -> pc' = next /\ UNCHANGED upd
    [] rc = "fail" -> pc' = "run" /\ reset_receiving
    [] rc = "cut" -> HardReset

SetTrial ==
  /\ pc = "setTrial"
  /\ \E rc \in Outcomes :
       /\ WriteTrial(rc, [bank |-> target, boot_count |-> 0, confirmed |-> 0])
       /\ CommitStep(rc, "copyErase")
  /\ UNCHANGED <<boot, image, active, accepted, starts>>

CopyErase ==
  /\ pc = "copyErase"
  /\ \E rc \in Outcomes :
       /\ Charge(rc)
       /\ trial' \in {[trial EXCEPT ![target] = t] :
                        t \in {NoTrial} \cup IF rc = "ok" THEN {} ELSE {trial[target]}}
       /\ CommitStep(rc, "copyWrite")
  /\ UNCHANGED <<boot, image, active, view, accepted, starts>>

CopyWrite ==
  /\ pc = "copyWrite"
  /\ \E rc \in Outcomes :
       /\ Charge(rc)
       /\ trial' \in {[trial EXCEPT ![target] = t] :
                        t \in {view} \cup IF rc = "ok" THEN {} ELSE {NoTrial}}
       /\ CommitStep(rc, "setBoot")
  /\ UNCHANGED <<boot, image, active, view, accepted, starts>>

\* The switch: OK is answered and the board resets into the new image.
SetBoot ==
  /\ pc = "setBoot"
  /\ \E rc \in Outcomes :
       /\ WriteBoot(rc, target)
       /\ IF rc = "fail" THEN pc' = "run" /\ reset_receiving ELSE HardReset
  /\ starts' = 0
  /\ UNCHANGED <<image, trial, active, view, accepted>>

\* SYST:UPD:CONFIRM.  A write that fails leaves the trial open, even if the
\* record has landed: a reset then finds it, the timeout does not look.
Confirm ==
  /\ pc = "run" /\ state = "TRIAL" /\ view # NoTrial
  /\ \E rc \in Outcomes :
       /\ WriteTrial(rc, [view EXCEPT !.confirmed = 1])
       /\ accepted' = [accepted EXCEPT ![active] = rc = "ok"]
       /\ starts' = IF rc = "ok" THEN 0 ELSE starts
       /\ CASE rc = "ok" -> state' = "CONFIRMED" /\ UNCHANGED <<pc, expected, received, crc>>
            [] rc = "fail" -> UNCHANGED <<pc, upd>>
            [] rc = "cut" -> HardReset
  /\ UNCHANGED <<boot, image, active>>

-----------------------------------------------------------------------------
(* The image in service, the watchdog and the reset line.                  *)

Hang ==
  /\ pc = "run"
  /\ \E k \in HANGING : image[active] = Whole(k)
  /\ pc' = "hung"
  /\ UNCHANGED <<boot, image, trial, active, view, upd, accepted, starts, faults>>

Watchdog ==
  /\ pc = "hung"
  /\ HardReset
  /\ UNCHANGED <<boot, image, trial, active, view, accepted, starts, faults>>

Reset ==
  /\ pc # "boot"
  /\ Charge("cut")
  /\ HardReset
  /\ UNCHANGED <<boot, image, trial, active, view, accepted, starts>>

\* A board on its first image, the other bank erased.
Init ==
  /\ boot = 1 /\ active = 1
  /\ \E k \in IMAGES \ (HANGING \cup FOREIGN) :
       /\ image = [b \in BANKS |-> IF b = 1 THEN Whole(k) ELSE [i \in 1 .. SIZE |-> ERASED]]
       /\ expected = k
  /\ trial = [b \in BANKS |-> NoTrial] /\ view = NoTrial
  /\ state = "IDLE" /\ received = 0 /\ crc = <<>>
  /\ pc = "boot"
  /\ accepted = [b \in BANKS |-> b = 1] /\ starts = 0 /\ faults = 0

\* What goes on without a host.
Inner == \/ Boot \/ CloseTrial \/ CountTrial \/ RollBack
         \/ EraseImage \/ EraseCfg
         \/ SetTrial \/ CopyErase \/ CopyWrite \/ SetBoot
         \/ Watchdog

Host == \/ \E k \in IMAGES : Begin(k)
        \/ \E i \in 1 .. SIZE : Data(i)
        \/ Commit \/ UpdAbort \/ Confirm

Next == Inner \/ TrialTimeout \/ Host \/ Hang \/ Reset

Spec == Init /\ [][Next]_vars

\* Calls in progress run to their end, the watchdog bites and time passes.
FairSpec == Spec /\ WF_vars(Inner) /\ WF_vars(TrialTimeout)

-----------------------------------------------------------------------------
(* Properties.                                                             *)

\* The state is well typed, and at every moment, also in the middle of an erase or a COMMIT,
\* the bank the option bytes select holds a complete image that passed the checks.
BootBankComplete == TypeOK /\ Complete(boot)

\* While the selected image is not accepted, the other bank still holds the
\* accepted one in full, and the record that leads back to it is in place.
FallbackIntact ==
  ~accepted[boot] => /\ accepted[Other(boot)] /\ Complete(Other(boot))
                     /\ trial[boot].bank = boot /\ (trial[boot].confirmed = 0 \/ starts = 1)

Protocol == INSTANCE UpdateProtocol WITH
  bank <- boot, phase <- IF accepted[boot] THEN "settled" ELSE "trial"

\* An update is the protocol: one trial start, then acceptance or return;
\* an accepted image is left only by a COMMIT.
ImplementsProtocol == Protocol!Spec

\* An unconfirmed image does not stay: it is confirmed or rolled back.
TrialEnds == ~accepted[boot] ~> accepted[boot]
=============================================================================
