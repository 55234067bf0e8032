------------------------------ MODULE Sections ------------------------------
(***************************************************************************)
(* The resistors of one section.  Two potentiometers lose their code only  *)
(* with the power; "poth" and the expander of the two matrices, which      *)
(* share one register, also have a reset pin.  RES:PWR and RES:SET are     *)
(* sequences of transfers over I2C.  A transfer that fails may have had    *)
(* its effect; RES:SET then climbs a ladder, RETRY, RESET of the chip,     *)
(* POWER of the section, and in the end gives the section up.  SAFE, the   *)
(* loss of the client or the deadline may come between any two steps.      *)
(* The other section is the same, and commands are served one at a time.   *)
(***************************************************************************)
EXTENDS Naturals, Sequences

CONSTANTS VALUES,      \* codes of an element
          DEFAULT,     \* the code after power-up
          UNKNOWN,     \* section_code -1
          I2C_RETRIES

ASSUME SectionsAssumption ==
  DEFAULT \in VALUES /\ UNKNOWN \notin VALUES /\ I2C_RETRIES \in Nat

VARIABLES
  powered, held, \* supply of the section, registers of chips in reset
  chip,          \* the registers of the chips
  section_on, section_code,
  op,            \* the command in progress: element, value, stage, attempt
  work,          \* the steps its stage has still to do
  failed,        \* a step of the stage failed
  stopped,       \* aborted, or past the deadline
  answer,        \* history: of the last command, and whether it advanced
  restarted,     \* observed.generation
  known          \* history: section_code when it began

board == <<powered, held, chip, section_on, section_code>>
history == <<answer, restarted, known>>
vars == <<board, op, work, failed, stopped, history>>

elements == <<"pot1", "mtx1", "pot2", "poth", "mtx2">>
Matrix == {"mtx1", "mtx2"}
Elements == {elements[e] : e \in DOMAIN elements}

\* The chips that have a reset pin, by the registers they hold.
Poth == {"poth", "wiper"}
Expander == Matrix \cup {"direction"}
Resettable == Poth \cup Expander
ChipOf(e) == IF e \in Poth THEN Poth ELSE Expander

\* What a chip holds after its reset: POTH refuses codes, the matrices are inputs.
AfterReset(registers) ==
  [r \in registers |->
     CASE r = "wiper" -> "locked" [] r = "direction" -> "in" [] OTHER -> DEFAULT]

Idle == op.stage = "idle"

\* Every variable stays within its type.
TypeOK ==
  /\ powered \in BOOLEAN /\ held \in SUBSET Resettable
  /\ DOMAIN chip = Elements \cup Resettable
  /\ \A e \in Elements : chip[e] \in VALUES
  /\ chip["wiper"] \in {"locked", "free"} /\ chip["direction"] \in {"in", "out"}
  /\ section_on \in BOOLEAN
  /\ section_code \in [Elements -> VALUES \cup {UNKNOWN}]
  /\ known \in [Elements -> VALUES \cup {UNKNOWN}]
  /\ op \in [e : Elements, value : VALUES, attempt : 0 .. I2C_RETRIES,
             stage : {"idle", "power_on", "set", "reset", "power"}]
  /\ failed \in BOOLEAN /\ stopped \in BOOLEAN /\ restarted \in BOOLEAN
  /\ answer \in {"none", "set", "on", "err"}

-----------------------------------------------------------------------------
(* The steps of an operation.  `to` are the registers it writes or reads.  *)

\* A register with its value, and registers with some of them changed.
Value(r, value) == [x \in {r} |-> value]
Over(to, registers) ==
  [r \in DOMAIN registers |-> IF r \in DOMAIN to THEN to[r] ELSE registers[r]]

Step(do, to) == [do |-> do, to |-> to]
Plain(do) == Step(do, <<>>)
Checked(to) == <<Step("write", to), Step("check", to)>>

\* A matrix is written together with what was just read of the other one.
set_once(e, value) == <<Step("write", Value(e, value)), Step("confirm", Value(e, value))>>
ad_init == Checked(Value("wiper", "free"))

\* The latch first, then the direction.
matrix_init_DirectionFirst(image) == Checked(Value("direction", "out")) \o Checked(image)
matrix_init(image) == Checked(image) \o Checked(Value("direction", "out"))

DefaultCodes == set_once(elements[1], DEFAULT) \o set_once(elements[2], DEFAULT)
                  \o set_once(elements[3], DEFAULT) \o set_once(elements[4], DEFAULT)
                  \o set_once(elements[5], DEFAULT)
power_on == <<Plain("power"), Plain("release")>>
              \o matrix_init([m \in Matrix |-> DEFAULT]) \o ad_init
              \o DefaultCodes \o <<Plain("ack"), Plain("on")>>

\* RESET brings back what the other matrix is announced to hold.
ResetSteps_Blank(e, value) ==
  <<Plain("release")>>
    \o (IF e = "poth" THEN ad_init ELSE matrix_init([m \in Matrix |-> DEFAULT]))
    \o set_once(e, value)
ResetSteps(e, value) ==
  <<Plain("release")>>
    \o (IF e = "poth" THEN ad_init ELSE matrix_init([m \in Matrix |-> section_code[m]]))
    \o set_once(e, value)

-----------------------------------------------------------------------------
(* What a step does.                                                       *)

\* A locked POTH ignores a code.
Effect(to) == IF "poth" \in DOMAIN to /\ chip["wiper"] = "locked" THEN chip ELSE Over(to, chip)

Answering(to) == powered /\ DOMAIN to \cap held = {}
Matches(to) == \A r \in DOMAIN to : chip[r] = to[r]

\* section_off: no power, all chips in reset, no code is known.
SectionOff ==
  /\ powered' = FALSE /\ held' = Resettable
  /\ chip' = Over(AfterReset(Resettable), chip)
  /\ section_on' = FALSE /\ section_code' = [e \in Elements |-> UNKNOWN]

\* One step of power_on after section_off: a potentiometer whose supply had
\* not quite fallen keeps its code.
PowerStep ==
  /\ powered' = TRUE
  /\ \E kept \in SUBSET {"pot1", "pot2"} :
       chip' = Over([e \in {"pot1", "pot2"} \ kept |-> DEFAULT], chip)
  /\ UNCHANGED <<held, section_on, section_code>>

ReleaseStep == held' = {} /\ UNCHANGED <<powered, chip, section_on, section_code>>

WriteStep(to) ==
  /\ Answering(to) /\ chip' = Effect(to)
  /\ UNCHANGED <<powered, held, section_on, section_code>>

CheckStep(to) == Answering(to) /\ Matches(to) /\ UNCHANGED board

ConfirmStep(to) ==
  /\ Answering(to) /\ Matches(to)
  /\ section_code' = Over(to, section_code)
  /\ UNCHANGED <<powered, held, chip, section_on>>

OnStep == section_on' = TRUE /\ UNCHANGED <<powered, held, chip, section_code>>

StepDone ==
  /\ work # <<>> /\ ~failed /\ ~stopped
  /\ LET do == Head(work).do
         to == Head(work).to
     IN \/ do = "power" /\ PowerStep
        \/ do = "release" /\ ReleaseStep
        \/ do = "write" /\ WriteStep(to)
        \/ do = "check" /\ CheckStep(to)
        \/ do = "confirm" /\ ConfirmStep(to)
        \/ do = "ack" /\ UNCHANGED board
        \/ do = "on" /\ OnStep
  /\ work' = Tail(work)
  /\ UNCHANGED <<op, failed, stopped, history>>

\* A transfer fails: refused, lost on the bus, read back differently, or cut by
\* the end of the command.  A write may have had its effect.
StepFails ==
  /\ work # <<>> /\ ~failed
  /\ Head(work).do \in {"write", "check", "confirm", "ack"} \/ stopped
  /\ \/ UNCHANGED chip
     \/ Head(work).do = "write" /\ Answering(Head(work).to) /\ ~stopped
        /\ chip' = Effect(Head(work).to)
  /\ failed' = TRUE
  /\ UNCHANGED <<powered, held, section_on, section_code, op, work, stopped, history>>

-----------------------------------------------------------------------------
(* The commands and the ladder.                                            *)

Enter(stage, steps) ==
  op' = [op EXCEPT !.stage = stage] /\ work' = steps /\ failed' = FALSE

Begin(e, value, stage, steps) ==
  /\ op' = [e |-> e, value |-> value, stage |-> stage, attempt |-> 0]
  /\ work' = steps /\ failed' = FALSE /\ stopped' = FALSE
  /\ known' = section_code /\ answer' = "none" /\ restarted' = FALSE

\* RES:SET of a section that is on.
ResSet(e, value) ==
  /\ Idle /\ section_on
  /\ Begin(e, value, "set", set_once(e, value))
  /\ UNCHANGED board

\* RES:PWR ON of a section that is off, and RES:PWR OFF.
PowerOn ==
  /\ Idle /\ ~section_on
  /\ Begin(op.e, op.value, "power_on", power_on)
  /\ SectionOff
PowerOff ==
  /\ Idle /\ SectionOff
  /\ answer' = "none"
  /\ UNCHANGED <<op, work, failed, stopped, restarted, known>>

End(verdict) ==
  /\ op' = [op EXCEPT !.stage = "idle"] /\ work' = <<>> /\ failed' = FALSE
  /\ answer' = verdict /\ UNCHANGED <<stopped, restarted, known>>

Succeeds ==
  /\ ~Idle /\ work = <<>>
  /\ End(IF op.stage = "power_on" THEN "on" ELSE "set")
  /\ UNCHANGED board

GoesOn == failed /\ ~stopped

Retry_Uncounted ==
  /\ GoesOn /\ op.stage = "set" /\ op.attempt < I2C_RETRIES
  /\ work' = set_once(op.e, op.value) /\ failed' = FALSE
  /\ UNCHANGED <<board, op, stopped, history>>
Retry ==
  /\ GoesOn /\ op.stage = "set" /\ op.attempt < I2C_RETRIES
  /\ op' = [op EXCEPT !.attempt = @ + 1]
  /\ work' = set_once(op.e, op.value) /\ failed' = FALSE
  /\ UNCHANGED <<board, stopped, history>>

RetriesDone == GoesOn /\ op.stage = "set" /\ op.attempt = I2C_RETRIES

\* RESET: a chip in reset loses its registers.
ResetChip ==
  /\ RetriesDone /\ op.e \in Resettable
  /\ held' = ChipOf(op.e) /\ chip' = Over(AfterReset(ChipOf(op.e)), chip)
  /\ Enter("reset", ResetSteps(op.e, op.value))
  /\ UNCHANGED <<powered, section_on, section_code, stopped, history>>

\* POWER: observed.generation tells the client that the other codes are gone.
RestartSection ==
  /\ (RetriesDone /\ op.e \notin Resettable) \/ (GoesOn /\ op.stage = "reset")
  /\ SectionOff
  /\ Enter("power", power_on \o set_once(op.e, op.value))
  /\ restarted' = TRUE
  /\ UNCHANGED <<stopped, answer, known>>

\* The end of the ladder, from any rung once the command is stopped.
GiveUp ==
  /\ failed /\ (stopped \/ op.stage \in {"power_on", "power"})
  /\ SectionOff
  /\ End("err")

\* SAFE, the loss of the client, or the deadline.
Stop ==
  /\ ~Idle /\ ~stopped
  /\ stopped' = TRUE
  /\ UNCHANGED <<board, op, work, failed, history>>

\* A reset of the board; SAFE between two commands does the same to the section.
Reset ==
  /\ SectionOff
  /\ End("none")

Init ==
  /\ powered = FALSE /\ held = Resettable
  /\ chip = Over(AfterReset(Resettable), [r \in Elements \cup Resettable |-> DEFAULT])
  /\ section_on = FALSE /\ section_code = [e \in Elements |-> UNKNOWN]
  /\ op = [e |-> "pot1", value |-> DEFAULT, stage |-> "idle", attempt |-> 0]
  /\ work = <<>> /\ failed = FALSE /\ stopped = FALSE
  /\ answer = "none" /\ restarted = FALSE /\ known = section_code

Goes == StepDone \/ StepFails \/ Succeeds \/ Retry \/ ResetChip \/ RestartSection \/ GiveUp

Next == \/ \E e \in Elements, value \in VALUES : ResSet(e, value)
        \/ PowerOn \/ PowerOff
        \/ Goes \/ Stop \/ Reset

Spec == Init /\ [][Next]_vars

\* A command in progress goes on; its transfers end one way or the other.
FairSpec == Spec /\ WF_vars(Goes)

-----------------------------------------------------------------------------
(* Properties.                                                             *)

\* RES:SET that succeeds has set its element; the others are as before, unless
\* observed.generation told the client that the section was restarted.
NeighboursKept ==
  answer = "set" =>
    /\ section_code[op.e] = op.value
    /\ \A e \in Elements \ {op.e} :
         section_code[e] = IF restarted THEN DEFAULT ELSE known[e]

\* The state is well typed, and between commands a section that is announced as on has
\* power, all its chips are in service, and every register holds the announced code, which
\* is what the commands asked for; a section that is not on has no power, however its last
\* command failed.
SectionTruth ==
  /\ TypeOK
  /\ Idle => /\ powered = section_on
             /\ section_on => /\ held = {} /\ chip["wiper"] = "free" /\ chip["direction"] = "out"
                              /\ \A e \in Elements : chip[e] = section_code[e]
             /\ NeighboursKept

\* "outputs never expose a stale high while changing IODIR": whenever the
\* matrices drive, each shows what is announced, what is just being set, or,
\* before anything is announced, the code after power-up.
MatrixShows ==
  powered /\ chip["direction"] = "out" =>
    \A m \in Matrix : \/ chip[m] = section_code[m]
                      \/ op.stage \in {"set", "reset", "power"} /\ op.e = m /\ chip[m] = op.value
                      \/ section_code[m] = UNKNOWN /\ chip[m] = DEFAULT

\* A command ends, whatever the bus does.
CommandEnds == ~Idle ~> Idle
=============================================================================
