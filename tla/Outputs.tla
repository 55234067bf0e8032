------------------------------ MODULE Outputs -------------------------------
(***************************************************************************)
(* What the board switches and what it believes about it: the two power    *)
(* supplies and the DAC that sets the voltage (psu.c), the relays          *)
(* (relays.c), the lines to the device under test (dut.c), the power of    *)
(* the resistor sections (sections.c), SAFE (safe.c), the start-up         *)
(* (core_init) and the flags that guard an erase of the flash.             *)
(*                                                                         *)
(* A command runs up to its next wait, where svc_poll supervises the       *)
(* supply; `pc` is the wait in progress.  A calibration is a model value:  *)
(* [cal, at] is the DAC code that it gives for the lowest voltage ("min"), *)
(* or for a higher one ("above"); "raw" is a code of the service mode.     *)
(***************************************************************************)
EXTENDS Naturals, FiniteSets

CONSTANTS RELAYS,
          GROUPS, \* sets of relays of which at most one may be closed
          LINES,  \* lines C1..C20 to the device under test
          BUSES,  \* sections of resistors
          CALS,   \* calibrations of the supply
          NONE    \* no calibration

\* Where the firmware is: between two commands, or in a wait.  The wait of a
\* section is named by its bus.
Waits == {"reset", "boot", "safe", "start", "break"}

ASSUME OutputsAssumption == /\ GROUPS \subseteq SUBSET RELAYS /\ NONE \notin CALS
                            /\ \A g \in GROUPS : IsFiniteSet(g)
                            /\ BUSES \cap (Waits \cup {"idle"}) = {}

VARIABLES
  psu,       \* RSP and HLG outputs, DAC register, service mode, calibration in RAM
  dac_out,   \* the code the DAC really holds
  saved,     \* calibration in the journal
  dcok, alarm,
  relays,    \* desired.relays: the coils that are driven
  releasing, \* contacts that may still be closed after their coil was let go
  goal,      \* map the route command in progress closes at its end
  dut_lines,
  powered,   \* sections whose supply is on
  section_on,
  safe,      \* observed.in_safe_state, observed.safe.complete, erase_allowed
  pc, expired

switches == <<relays, releasing, goal, dut_lines, powered, section_on>>
inputs == <<dcok, alarm>>
vars == <<psu, dac_out, saved, inputs, switches, safe, pc, expired>>

minimum_code(cal) == [cal |-> cal, at |-> "min"]
RawCode == [cal |-> NONE, at |-> "raw"]
Codes == {RawCode, minimum_code(NONE)} \cup [cal : CALS, at : {"min", "above"}]

PsuType == [rsp : BOOLEAN, hlg : BOOLEAN, starting : BOOLEAN, dac : Codes, known : BOOLEAN,
            service : BOOLEAN, raw_ready : BOOLEAN, cal : CALS \cup {NONE}]
SafeType == [in_state : BOOLEAN, complete : BOOLEAN, erase : BOOLEAN]

\* Every variable stays within its type.
TypeOK ==
  /\ psu \in PsuType /\ dac_out \in Codes /\ saved \in CALS \cup {NONE}
  /\ dcok \in BOOLEAN /\ alarm \in BOOLEAN
  /\ relays \subseteq RELAYS /\ releasing \subseteq RELAYS /\ goal \subseteq RELAYS
  /\ dut_lines \subseteq LINES
  /\ powered \subseteq BUSES /\ section_on \subseteq BUSES
  /\ safe \in SafeType
  /\ pc \in Waits \cup BUSES \cup {"idle"}
  /\ expired \in BOOLEAN

-----------------------------------------------------------------------------
(* Flags around a command.                                                 *)

\* A command of the CMDF_SET kind forbids erasing before it does anything,
\* and ends the safe state if it succeeds.
Setting_KeepsErase(s) == s
Setting(s) == [s EXCEPT !.erase = FALSE]
Succeeded(s) == [Setting(s) EXCEPT !.in_state = FALSE]
DacFailed(s) == [in_state |-> FALSE, complete |-> FALSE, erase |-> FALSE]

Idle == pc = "idle"
Wait(where) == pc' = where /\ expired' = FALSE
Done == pc' = "idle" /\ expired' = FALSE

-----------------------------------------------------------------------------
(* The supply.                                                             *)

RspOff(p) == [p EXCEPT !.rsp = FALSE, !.starting = FALSE]

\* dac_write: a write that fails may have reached the DAC.
DacWrite(ok, code) == dac_out' \in IF ok THEN {code} ELSE {dac_out, code}
Written(ok, p, code) == [p EXCEPT !.dac = IF ok THEN code ELSE @, !.known = ok]

\* PSU:VOLT with the calibration in force.
Volt(at) ==
  /\ Idle /\ ~psu.service /\ psu.cal # NONE
  /\ \E ok \in BOOLEAN :
       LET code == [cal |-> psu.cal, at |-> at]
           after == Written(ok, psu, code)
       IN /\ DacWrite(ok, code)
          /\ psu' = IF ok THEN after ELSE RspOff(after)
          /\ safe' = IF ok THEN Succeeded(safe) ELSE DacFailed(safe)
  /\ UNCHANGED <<saved, inputs, switches, pc, expired>>

\* PSU:OUTP HLG and PSU:OUTP RSP,OFF.
Hlg(on) ==
  /\ Idle
  /\ psu' = [psu EXCEPT !.hlg = on] /\ safe' = Succeeded(safe)
  /\ UNCHANGED <<dac_out, saved, inputs, switches, pc, expired>>
RspOffCommand ==
  /\ Idle
  /\ psu' = RspOff(psu) /\ safe' = Succeeded(safe)
  /\ UNCHANGED <<dac_out, saved, inputs, switches, pc, expired>>

\* PSU:OUTP RSP,ON: refused without a voltage that is known to be right;
\* done if it is on already; otherwise the code is written again and the
\* command waits for DC-OK.
Calibrated == IF psu.service THEN psu.raw_ready ELSE psu.cal # NONE
MayStart_Unknown == Calibrated /\ ~alarm
MayStart == Calibrated /\ ~alarm /\ psu.known
RspRefused ==
  /\ Idle /\ (~MayStart /\ ~(Calibrated /\ ~alarm /\ psu.rsp /\ dcok))
  /\ psu' = RspOff(psu) /\ safe' = Setting(safe)
  /\ UNCHANGED <<dac_out, saved, inputs, switches, pc, expired>>
RspAlreadyOn ==
  /\ Idle /\ Calibrated /\ ~alarm /\ psu.rsp /\ dcok
  /\ safe' = Succeeded(safe)
  /\ UNCHANGED <<psu, dac_out, saved, inputs, switches, pc, expired>>
RspStart ==
  /\ Idle /\ MayStart /\ ~(psu.rsp /\ dcok)
  /\ \E ok \in BOOLEAN :
       LET after == Written(ok, psu, psu.dac)
       IN /\ DacWrite(ok, psu.dac)
          /\ IF ok THEN /\ psu' = [after EXCEPT !.rsp = TRUE, !.starting = TRUE]
                        /\ safe' = Setting(safe) /\ Wait("start")
             ELSE psu' = RspOff(after) /\ safe' = DacFailed(safe) /\ UNCHANGED <<pc, expired>>
  /\ UNCHANGED <<saved, inputs, switches>>

\* The wait ends with a trip, with DC-OK, or when its time is up; or with SAFE
\* or the loss of the client.
RspStarted_Unwatched == psu
RspStarted == [psu EXCEPT !.starting = FALSE]
RspStartEnds ==
  /\ pc = "start"
  /\ \/ ~psu.rsp /\ UNCHANGED <<psu, safe>>
     \/ psu.rsp /\ dcok /\ psu' = RspStarted /\ safe' = Succeeded(safe)
     \/ psu.rsp /\ ~dcok /\ expired /\ psu' = RspOff(psu) /\ UNCHANGED safe
  /\ Done
  /\ UNCHANGED <<dac_out, saved, inputs, switches>>

RspStartAborted ==
  /\ pc = "start"
  /\ psu' = RspOff(psu)
  /\ Done
  /\ UNCHANGED <<dac_out, saved, inputs, switches, safe>>

\* psu_poll, in every wait and before every command.
Poll ==
  /\ pc # "reset" /\ psu.rsp /\ (alarm \/ (~psu.starting /\ ~dcok))
  /\ psu' = RspOff(psu)
  /\ UNCHANGED <<dac_out, saved, inputs, switches, safe, pc, expired>>

\* The calibration commands.  An update in progress refuses them.
CalMode(on) ==
  /\ Idle
  /\ \E ok \in BOOLEAN :
       LET off == [RspOff(psu) EXCEPT !.service = on, !.raw_ready = FALSE]
       IN /\ DacWrite(ok, minimum_code(psu.cal))
          /\ psu' = Written(ok, off, minimum_code(psu.cal))
          /\ safe' = IF ok THEN Succeeded(safe) ELSE DacFailed(safe)
  /\ UNCHANGED <<saved, inputs, switches, pc, expired>>

CalCode ==
  /\ Idle /\ psu.service
  /\ \E ok \in BOOLEAN :
       LET after == [Written(ok, psu, RawCode) EXCEPT !.raw_ready = ok]
       IN /\ DacWrite(ok, RawCode)
          /\ psu' = IF ok THEN after ELSE RspOff(after)
          /\ safe' = IF ok THEN Succeeded(safe) ELSE DacFailed(safe)
  /\ UNCHANGED <<saved, inputs, switches, pc, expired>>

CalIdle == Idle /\ safe.in_state /\ safe.complete /\ ~psu.service

\* PSU:CAL:SET, or PSU:CAL:LOAD of the saved one.
ApplyCal(next) ==
  /\ CalIdle
  /\ \E ok \in BOOLEAN :
       LET after == Written(ok, psu, minimum_code(next))
       IN /\ DacWrite(ok, minimum_code(next))
          /\ psu' = IF ok THEN [after EXCEPT !.cal = next] ELSE RspOff(after)
          /\ safe' = IF ok THEN safe ELSE DacFailed(safe)
  /\ UNCHANGED <<saved, inputs, switches, pc, expired>>

\* A journal that reports an error may have taken the record.
CalSave ==
  /\ CalIdle /\ psu.cal # NONE /\ saved # psu.cal
  /\ saved' \in {saved, psu.cal}
  /\ safe' = [safe EXCEPT !.erase = TRUE]
  /\ UNCHANGED <<psu, dac_out, inputs, switches, pc, expired>>

-----------------------------------------------------------------------------
(* Relays.                                                                 *)

relays_conflict(map) == \E g \in GROUPS : Cardinality(map \cap g) > 1

\* ROUT commands: what is not in the target map opens at once; closing waits
\* for RELAY_BREAK_MS, also when nothing was opened by this command.
MustWait_OwnBreaks(target) == ~(target \subseteq relays) /\ ~(relays \subseteq target)
MustWait(target) == ~(target \subseteq relays)
Route(target) ==
  /\ Idle /\ ~relays_conflict(target)
  /\ releasing' = releasing \cup (relays \ target)
  /\ relays' = IF MustWait(target) THEN relays \cap target ELSE target
  /\ safe' = Succeeded(safe)
  /\ IF MustWait(target) THEN goal' = target /\ Wait("break") ELSE UNCHANGED <<goal, pc, expired>>
  /\ UNCHANGED <<psu, dac_out, saved, inputs, dut_lines, powered, section_on>>

RouteMake ==
  /\ pc = "break" /\ expired
  /\ relays' = goal /\ Done
  /\ UNCHANGED <<psu, dac_out, saved, inputs, releasing, goal, dut_lines, powered, section_on, safe>>

\* SAFE or the loss of the client: the intermediate map stays.
RouteAborted ==
  /\ pc = "break"
  /\ Done
  /\ UNCHANGED <<psu, dac_out, saved, inputs, switches, safe>>

\* A contact opens within RELAY_BREAK_MS.
ContactOpens(r) ==
  /\ r \in releasing
  /\ releasing' = releasing \ {r}
  /\ UNCHANGED <<psu, dac_out, saved, inputs, relays, goal, dut_lines, powered, section_on, safe,
                 pc, expired>>

-----------------------------------------------------------------------------
(* Lines and sections.                                                     *)

DutSet(lines) ==
  /\ Idle
  /\ dut_lines' = lines /\ safe' = Succeeded(safe)
  /\ UNCHANGED <<psu, dac_out, saved, inputs, relays, releasing, goal, powered, section_on, pc,
                 expired>>

SectionOff(bus) ==
  /\ Idle
  /\ powered' = powered \ {bus} /\ section_on' = section_on \ {bus}
  /\ safe' = Succeeded(safe)
  /\ UNCHANGED <<psu, dac_out, saved, inputs, relays, releasing, goal, dut_lines, pc, expired>>

\* RES:PWR ON of a section that is off; RES:SET of one that is on, which may
\* end in switching it off and on again.
SectionStart(bus) ==
  /\ Idle
  /\ powered' = powered \cup {bus}
  /\ safe' = Setting(safe)
  /\ Wait(bus)
  /\ UNCHANGED <<psu, dac_out, saved, inputs, relays, releasing, goal, dut_lines, section_on>>

SectionFailed_LeftOn == UNCHANGED powered /\ section_on' = section_on \ {pc}
SectionFailed == powered' = powered \ {pc} /\ section_on' = section_on \ {pc}
SectionEnds ==
  /\ pc \in BUSES
  /\ \/ section_on' = section_on \cup {pc} /\ safe' = Succeeded(safe) /\ UNCHANGED powered
     \/ SectionFailed /\ UNCHANGED safe
  /\ Done
  /\ UNCHANGED <<psu, dac_out, saved, inputs, relays, releasing, goal, dut_lines>>

\* A setting command that is refused for its arguments or by an interlock.
RefusedSet ==
  /\ Idle /\ safe.erase
  /\ safe' = Setting(safe)
  /\ UNCHANGED <<psu, dac_out, saved, inputs, switches, pc, expired>>

-----------------------------------------------------------------------------
(* SAFE, reset and start-up.                                               *)

Quiet(p) == [RspOff(p) EXCEPT !.hlg = FALSE, !.service = FALSE, !.raw_ready = FALSE]

\* Steps 1 to 3 of safe_enter: supplies, loads, lines.
SafeBegin ==
  /\ Idle
  /\ \E ok \in BOOLEAN :
       /\ DacWrite(ok, minimum_code(psu.cal))
       /\ psu' = Written(ok, Quiet(psu), minimum_code(psu.cal))
       /\ safe' = IF ok THEN [safe EXCEPT !.complete = TRUE] ELSE DacFailed(safe)
  /\ dut_lines' = {}
  /\ Wait("safe")
  /\ UNCHANGED <<saved, inputs, relays, releasing, goal, powered, section_on>>

\* Steps 4 to 6: DC-OK falls, or its time is up; relays, sections.
DcokWaited_ForEver == ~dcok
DcokWaited == ~dcok \/ expired
SafeEnds ==
  /\ pc = "safe" /\ DcokWaited
  /\ LET complete == safe.complete /\ ~dcok
     IN safe' = [in_state |-> TRUE, complete |-> complete, erase |-> complete]
  /\ psu' = IF dcok THEN RspOff(psu) ELSE psu
  /\ relays' = {} /\ releasing' = releasing \cup relays
  /\ powered' = {} /\ section_on' = {}
  /\ Done
  /\ UNCHANGED <<dac_out, saved, inputs, goal, dut_lines>>

Unpowered == [rsp |-> FALSE, hlg |-> FALSE, starting |-> FALSE, dac |-> minimum_code(NONE),
              known |-> FALSE, service |-> FALSE, raw_ready |-> FALSE, cal |-> NONE]

\* Any reset: the pins fall back to off, the DAC keeps its code.
Reset ==
  /\ pc' = "reset" /\ expired' = FALSE
  /\ psu' = Unpowered
  /\ releasing' = releasing \cup relays /\ relays' = {} /\ goal' = {}
  /\ dut_lines' = {} /\ powered' = {} /\ section_on' = {}
  /\ safe' = [in_state |-> FALSE, complete |-> FALSE, erase |-> FALSE]
  /\ UNCHANGED <<dac_out, saved, inputs>>

\* core_init: psu_init, then the wait for DC-OK.
BootPsu ==
  /\ pc = "reset"
  /\ \E ok \in BOOLEAN :
       /\ DacWrite(ok, minimum_code(saved))
       /\ psu' = Written(ok, [psu EXCEPT !.cal = saved], minimum_code(saved))
       /\ safe' = [safe EXCEPT !.complete = ok]
  /\ Wait("boot")
  /\ UNCHANGED <<saved, inputs, switches>>

BootEnds ==
  /\ pc = "boot" /\ DcokWaited
  /\ LET complete == safe.complete /\ ~dcok
     IN safe' = [in_state |-> TRUE, complete |-> complete, erase |-> complete]
  /\ Done
  /\ UNCHANGED <<psu, dac_out, saved, inputs, switches>>

\* The clock reaches the deadline; by then the contacts let go before are open.
Tick ==
  /\ pc \in {"safe", "boot", "start", "break"} /\ ~expired
  /\ expired' = TRUE
  /\ releasing' = IF pc = "break" THEN {} ELSE releasing
  /\ UNCHANGED <<psu, dac_out, saved, inputs, relays, goal, dut_lines, powered, section_on, safe, pc>>

\* The pins of the supply.
Inputs ==
  /\ dcok' \in BOOLEAN /\ alarm' \in BOOLEAN
  /\ UNCHANGED <<psu, dac_out, saved, switches, safe, pc, expired>>

Init ==
  /\ psu = Unpowered
  /\ dac_out = minimum_code(NONE) /\ saved \in CALS \cup {NONE}
  /\ dcok = FALSE /\ alarm = FALSE
  /\ relays = {} /\ releasing = {} /\ goal = {} /\ dut_lines = {}
  /\ powered = {} /\ section_on = {}
  /\ safe = [in_state |-> FALSE, complete |-> FALSE, erase |-> FALSE]
  /\ pc = "reset" /\ expired = FALSE

Supply == \/ \E at \in {"min", "above"} : Volt(at)
          \/ \E on \in BOOLEAN : Hlg(on) \/ CalMode(on)
          \/ RspOffCommand \/ RspRefused \/ RspAlreadyOn \/ RspStart \/ RspStartEnds
          \/ RspStartAborted
          \/ CalCode \/ CalSave
          \/ \E next \in CALS : ApplyCal(next)

Switching == \/ \E target \in SUBSET RELAYS : Route(target)
             \/ RouteMake \/ RouteAborted
             \/ \E lines \in SUBSET LINES : DutSet(lines)
             \/ \E bus \in BUSES : SectionOff(bus) \/ SectionStart(bus)
             \/ SectionEnds \/ RefusedSet

Next == \/ Supply \/ Poll \/ Switching
        \/ SafeBegin \/ SafeEnds
        \/ Reset \/ BootPsu \/ BootEnds
        \/ Tick \/ Inputs \/ \E r \in RELAYS : ContactOpens(r)

Spec == Init /\ [][Next]_vars

\* Waits come to their end, svc_poll runs in them, and the clock goes on.
FairSpec == Spec /\ WF_vars(SafeEnds) /\ WF_vars(RspStartEnds) /\ WF_vars(Poll) /\ WF_vars(Tick)

-----------------------------------------------------------------------------
(* Properties.                                                             *)

Off == ~psu.rsp /\ ~psu.hlg /\ relays = {} /\ dut_lines = {} /\ powered = {}

\* What SYST:UPD:BEGIN and the calibration commands take for the safe state
\* (update.c:211, psu.c:140) is one: all is off, the DAC holds its minimum.
SafeMeansOff ==
  Idle /\ safe.in_state /\ safe.complete =>
    Off /\ ~psu.service /\ psu.known /\ dac_out = minimum_code(psu.cal)

\* The sector is never erased, which stops the superloop, with an output on.
EraseMeansOff == safe.erase => Off

\* While the supply is on, the DAC holds what the firmware believes: a code of
\* the calibration in force, or the raw code that was set in service mode.
VoltageIsMeant ==
  psu.rsp => /\ psu.known /\ dac_out = psu.dac
             /\ IF psu.service THEN psu.raw_ready /\ psu.dac = RawCode
                ELSE psu.cal # NONE /\ psu.dac.cal = psu.cal

\* Two relays of a group never conduct together, the time a contact takes to
\* open included, whatever commands, aborts and resets come in between.
NoConflict == ~relays_conflict(relays \cup releasing)

\* Why they hold.  The code in RAM is the code of the DAC as long as it is
\* known, and it goes with the calibration or the service mode in force.
AtMinimum == psu.known /\ psu.dac = minimum_code(psu.cal)
DacInv ==
  /\ psu.known => /\ dac_out = psu.dac
                  /\ ~psu.service => psu.dac.cal = psu.cal
                  /\ psu.service /\ psu.raw_ready => psu.dac = RawCode
  /\ psu.rsp => psu.known /\ Calibrated

\* What each wait has already switched off, and what a command that did not
\* leave the safe state may have on until it ends.
WaitInv ==
  /\ pc \in {"reset", "boot"} => Off /\ ~psu.service
  /\ pc = "safe" => ~psu.rsp /\ ~psu.hlg /\ ~psu.service /\ dut_lines = {}
  /\ pc \in {"boot", "safe"} /\ safe.complete => AtMinimum
  /\ pc = "break" => /\ ~safe.in_state /\ ~safe.erase
                     /\ ~relays_conflict(goal) /\ (expired => releasing = {})
  /\ pc \in BUSES \cup {"idle", "start"} /\ safe.in_state /\ safe.complete =>
       /\ ~psu.hlg /\ ~psu.service /\ AtMinimum
       /\ relays = {} /\ dut_lines = {} /\ powered \subseteq {pc}
       /\ psu.rsp => pc = "start"

\* The parts together are inductive; the proofs rest on it.
OutputsInv == TypeOK /\ DacInv /\ WaitInv /\ EraseMeansOff /\ NoConflict

\* SAFE ends with everything off, also when DC-OK or the DAC is stuck.
SafeEndsOff == pc = "safe" ~> pc = "reset" \/ (Idle /\ Off)

\* A fault that lasts trips the supply: in alarm it stays off, without DC-OK it
\* does not stay on.
FaultTrips == /\ <>[]alarm => <>[]~psu.rsp
              /\ <>[]~dcok => []<>~psu.rsp
=============================================================================
