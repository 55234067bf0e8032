# Verification of the CONTR firmware

TLA+ specifications of the firmware in this repository: the controller of a
test bench (STM32F767, one superloop, LwIP, no operating system) that switches
relays, two power supplies, resistor sections and lines to a device under test,
keeps its settings in a journal in flash, and is updated over the network.

Everything is translated from the source under `src/`; the line ranges are in
`PROJECT.json` under `map`. Run a check with
`tlc -workers 2 -config X.cfg M`, a proof with `tlapm M.tla`.

## 1. The system

### Components

| Component | State it keeps | Operations | Talks to |
| --- | --- | --- | --- |
| CFG journal `core/cfg.c` | two flash sectors (primary, backup), index of the newest record per type, `erase_allowed`, `recovery_pending` | `cfg_init`, get, set (append), `cfg_compact`, `cfg_snapshot` | flash HAL; used by update, network, calibration, provisioning |
| Update `core/update.c` | `upd` in RAM, the images of two banks, option bytes, a trial record per bank | `upd_boot_check`, BEGIN, DATA, COMMIT, ABORT, CONFIRM, `upd_poll` | journal, flash HAL, watchdog, host |
| Superloop and channels `core/core.c` | per channel: ring, partial line, line queue, rescued SAFE count; client flags; `executing`, `abort_requested` | `core_step`, `svc_poll`, waits, `channel_write`, network callbacks | every handler calls back into `svc_poll` while it waits |
| Commands `core/cmd.c` | none of its own; sets `erase_allowed`, `in_safe_state` around a handler | `cmd_execute`, table of handlers | all modules |
| SAFE `core/safe.c` | the report of the last entry | `safe_enter` | PSU, DUT, relays, sections |
| Power supplies `core/psu.c` | outputs, DAC code, calibration in RAM, service mode | PSU:VOLT, PSU:OUTP, PSU:CAL:*, `psu_poll` | DAC, DC-OK and ALARM pins, journal |
| Relays `core/relays.c`, `core/sr.c` | map of driven coils | ROUT:* (break before make) | shift registers |
| Sections `core/sections.c` | supply and register codes of two I2C buses | RES:PWR, RES:SET with its recovery ladder, test | I2C HAL |
| DUT lines `core/dut.c` | driven lines, debounced manual presses | DUT:SET, DUT:OFF, DUT:STAT?, `dut_poll` | pins |
| Network `hal/target/net/net.c` | the client's pcb | accept, receive, error, close, send | LwIP, superloop |
| Network settings `core/netcfg.c` | DHCP fallback, USER button | start, poll | journal, network |
| Errors and log `core/errlog.c` | two rings | push, pop | all |
| Operator UI `ui/contr_ui/bridge.py` | task queue, epoch, job, link | HTTP threads submit; one worker exchanges lines | firmware over TCP or UART |
| Console reception `hal/target/console.c` | ring, count of SAFE lines in it, recognizer, recovered SAFE lines | interrupt handler, `hal_console_read` | UART; `svc_poll` reads with the interrupt masked |
| Host build, emulator, tools, generated tables | | | not modelled, see section 7 |

### How they interact

The core has one thread; the only interrupt that keeps state is the console's.
A handler that has to wait calls `svc_poll`, which takes in
bytes and client events on both channels, assembles lines, supervises the
supply, watches the button and the update timer, and returns. So the hard
behaviours are not data races but *re-entry*: whatever a handler knew before a
wait may be different after it, a SAFE may complete in any wait, a client may
vanish and another one arrive before `core_step` has looked. The second family is
*partial failure of flash*: an operation fails although it took effect, or is cut
by a reset, at any point of a multi-step protocol (journal, COMMIT, boot). The
third is hardware that does not answer (DAC, I2C, DC-OK). In the UI there are
real threads.

### What makes each component correct

- *Journal*: an acknowledged record survives; no value appears that was not
  written; a reset anywhere leaves a state from which the next boot recovers; a
  superseded snapshot never wins again.
- *Update*: the bank to start always holds a whole, checked image; an
  unconfirmed image runs once, with the way back intact; it is confirmed or left.
- *Superloop*: lines are answered in order, SAFE is never lost or refused and
  stops a command at its next poll; nobody is served before the SAFE of his
  connection; the loss of the client makes SAFE; no channel starves.
- *Outputs*: what the firmware calls the safe state is one; relays of a group
  never conduct together; the supply is on only at a voltage that was meant; a
  fault trips it; erasing flash happens only with all outputs off.
- *Sections*: when a command has returned and the section is on, every register
  holds the announced code. *DUT*: a manual press is reported, whatever was
  streamed when it came.
- *Console*: what the interrupt gives up loses no SAFE and makes no new command.
- *Network settings*: one address, announced, kept once fallen back; the button
  writes once.
- *Log and errors*: a reply shows entries once and in order although the rings
  turn under it.
- *Bridge*: after the operator's SAFE no earlier intention is sent, SAFE goes out,
  replies stay with their commands, and the panels say what is so.

The list of hazards with their lines is in `PROJECT.json`.

## 2. Modules

| Module | Role |
| --- | --- |
| `CfgStore` | abstract: a map from record type to newest value, as readers see it and as a reset would find it |
| `CfgJournal` | the journal with every flash operation a step; implements `CfgStore` |
| `CfgJournalProofs` | theorems about `CfgJournal` |
| `UpdateProtocol` | abstract: settled, on trial, accepted or returned |
| `Update` | two banks, option bytes, trial records, the transfer; implements `UpdateProtocol` |
| `UpdateProofs` | theorems about `Update` |
| `CommandChannel` | abstract: what a channel promises its peer, whatever its buffers |
| `Superloop` | rings, queues, waits, clients, arbitration, replies; implements `CommandChannel` once per channel |
| `SuperloopProofs` | theorems about `Superloop` |
| `Outputs` | supplies, relays, lines, sections, SAFE, start-up and the flags of the safe state |
| `OutputsProofs` | theorems about `Outputs` |
| `Sections` | one section's registers, RES:PWR, RES:SET and the ladder of recovery |
| `SectionsProofs` | theorems about `Sections` |
| `Console` | reception on the console: interrupt, ring, recognizer, recovery of SAFE, and the lines the core makes of it |
| `ConsoleProofs` | theorems about `Console` |
| `DutLines` | sampling, debouncing and driving of the lines, as operators on a record |
| `NetAddress` | DHCP, fallback, link, announcements and the USER button, as operators on records |
| `Errlog` | the rings of errors and events, as operators on a record |
| `Observe` | composes the three above in `svc_poll`, with the replies that are streamed while it runs |
| `ObserveProofs` | theorems about `Observe` |
| `Bridge` | HTTP threads, queue, events, epoch and worker of the operator UI, with a link and a device at its end |
| `BridgeProofs` | theorems about `Bridge` |
| `MC*` | instances for TLC; the bounds are in the `.cfg` files |

### CfgJournal and the code

`slots`, `stamp` and `backup` are the flash; `used_records`, `last_of_type`,
`erase_allowed`, `recovery_pending`, `records_base` are the static variables of
`cfg.c` under their names. `pc` is the next flash operation of the call in
progress. A record is `[type, val]`, or `TORN` for anything the CRC rejects;
`backup.sum` stands for the CRC of the header, `data` for the records it covers,
so a backup is valid iff they agree and the commit word is there. An operation
ends `ok`, `fail` (the call gets -1, any part of the effect may be in the flash)
or `cut` (a reset, same partial effects, RAM lost). `restore_backup` is
`ErasePrimary`, `WriteRecords`, `WriteStamp`, `CommitStamp`, `RetireBackup`;
`cfg_compact` is `EraseBackup`, `WriteHeader`, `WriteData`, `WriteCommit`,
followed by the restore; the scan of `cfg_init` is `FinishInit`. Bit-level
wear (a word that reads differently each time) is outside the model.

### Update and the code

An image is `SIZE` blocks `<<k, i>>`. `boot` is what the option bytes select,
`active` the bank in service, `trial` the record each bank's journal would show,
`view` the running image's idea of its own. The journal is used through the
promise of `CfgStore`: a failing write may have landed, a cut one has or has not.
The CRC of the transfer is the sequence of blocks it was computed over. The
interlocks that may refuse BEGIN (safe state, option bytes) are a stutter. It is
assumed, as `flash.c:188-208` reads, that a `hal_bank_set_boot` that reports an
error has left the option bytes alone. `Hang` is the new image that stops
kicking the watchdog; it is not code of this repository.

### Superloop and the code

`chan[ch]` is `struct channel`. Text is a few letters: `SAFE_TEXT` is SAFE, all
other text is a command. `polling` is TRUE while `svc_poll` takes bytes and
events; `Pump` ends it. A wait is a sequence of polls (`RunPoll`, `SafePoll`)
that ends early with `abort_requested` or when `expired` (the clock) is set; a
command that saw `abort_requested` may poll again before it ends, as `service` of
`sections.c` does.
`LostFirst`, `LostSafeDone`, `AcceptSafeDone`, `Dispatch`, `RunEnds`,
`TcpWrite` and `ConsoleWrite` are the stretches of `core_step`, `execute_line`
and `channel_write` between polls. `line_open`, `session` and `safe_during`
are history, read by properties only. The carriage return, which is dropped, and
the end of a session inside `hal_net_send` are not distinguished from the same
event in the next poll.

### Outputs and the code

`psu` holds the static variables of `psu.c`; a DAC code is named by the
calibration that gave it and whether it is its lowest voltage. `dac_out` is what
the DAC holds: a failing write may have reached it. `relays` are the driven
coils; `releasing` the contacts that have not opened yet, each at any time within
`RELAY_BREAK_MS` of its release (this is the meaning of that constant and an
assumption about the hardware). `safe` is `in_safe_state`, `safe.complete` and
`erase_allowed`. A command that waits has its own `pc`; psu_poll (`Poll`) acts
in every wait. RES:PWR and RES:SET are a wait that ends in success or with the
section off. The reply of a command is written before the next one starts and
is part of its last step. Argument errors and the interlocks of an update in
progress are refusals (`RefusedSet`, or a stutter for what is no setting).

### Sections and the code

`Outputs` knows only whether a section has power; `Sections` has its registers.
An element is named after its place in `elements` (`pot1`, `mtx1` of the odd
channel; `pot2`, `poth`, `mtx2` of the even one), and its codes are abstracted
to the one after power-up and another. `op` is the command with its rung of the
ladder, `work` the transfers that rung has still to make, as `set_once`,
`ad_init`, `matrix_init` and `power_on` would make them. A check that compares
is `check`, the one that also enters `section_code` is `confirm`. The read of
the shared register before a matrix is written is one step with the write: no
other step can come between that would change the register. `stopped` is
`!service()`: once the deadline has passed or the command is aborted it stays
so. The chips behave as in `hal/host/sections_model.c`; that a chip keeps its
registers while it is powered and not in reset, and that a read which reports
success returns them, is assumed. `Reset` is also what SAFE between two
commands does to a section. `section_test` and RES:STAT? only read.

### Console and the code

`rx` is the static struct of `console.c` under its names; `ring` is what lies
between `head` and `tail`, each byte with its `safe_end`. A byte
(`USART3_IRQHandler`) and a read (`hal_console_read`, which masks the interrupt)
are single steps. `WORD` stands for the four letters of SAFE; letters are
compared without case in the code and are one letter here. The core's side is
`Typed` and `Fed`, the part of `pump_channel` that makes lines; its ring and
queue are in `Superloop`. A read hands over its bytes one by one: `ReadOne` is one
turn of the two loops, from the recovered lines (`FromRecovery`) as long as there
are any, else from the ring (`FromRing`), and `hal_console_read` makes `max` of
them. `owed` is history: the lines that were sent whole and have not reached the
core. `Saturated` blanks the SAFE lines in it beyond the width of
`recovered_safe`, which is the one case where the code drops them.

### Observe and the code

`dut`, `net` and `button` are the static variables of `dut.c` and `netcfg.c` and the interface of
`net.c`; times are ages that stop at the limit they are compared with. `svc_poll`
runs `hal_net_poll`, `dut_poll`, `psu_poll` (an alarm, which logs and pushes
an error) and `netcfg_poll` in the order of the code. A reply is a record: `LogTakes` is
the call of `log_at`, `LogPuts` the reading through its pointer, and between
any two such steps a full buffer may be written, which runs `svc_poll`
(`Writing`). `cmd_execute` logs what it refuses and each DUT command.
Entries are numbered in the order of their occurrence. What LwIP does with its DHCP client
(`Leased`, `Unleased`), what hands, cables and servers do (`Outside`,
`ServerAnswers`) is outside. `told`, `reported` and `tries` are history.

### Bridge and the code

`w` is the worker with the place it stands at (`pc`), the operation and the
steps left of it (`plan`), the epoch it runs under (`active`, `active_epoch` in
the code), and the exchange under way. A step ends where the code takes the
lock, tests or sets an event, or waits. `safe()` is one critical section, but the
worker tests `cancel` and `urgent` without the lock, so it is two steps;
`cancel_job` and `answer_prompt` set `answer` after the lock. Link and device
are external: a command is answered once and in order, the link may break at
any moment, a device that loses its client makes itself safe (which
`Superloop` shows), an update follows `UpdateProtocol` as far as the host sees
it. `dev.by` is the epoch in which the command was meant that took the device
out of the safe state, NONE while it is safe; `meant` of the worker, `served` and
`dev.safe_at` are history, too. A reply is `ok` or not, and its `info` tells the rest the
bridge looks at: the state of an update, the identity of an image, and `unsafe`
for ERR:NOT_SAFE, ERR:PSU_FAULT and a SYST:SAFE? with a failed step, each of which
takes back the acknowledgement. A setting command may fail and yet have left the
safe state: it was interrupted by SAFE, or the DAC did not answer (`psu.c`,
which answers PSU_FAULT). One DATA of an image stands for all its blocks: a stop, a SAFE, a
refusal or a broken link before, at and after it is what it is at any block, and
ends with the ABORT of `_run_update`. The panels polled one after the other are one query.

## 3. Runs

| Run | Question | States | Bounds and why they are enough |
| --- | --- | --- | --- |
| `cfg_safety` | journal: the inductive invariant with the types, no stale replay, readable while recovery is pending, blank tail, generations never back, recovery completes | 182k | 3 slots and 2 types: full journal, superseded records and room after compaction all occur; 3 disturbances: a failure during the recovery from a failed recovery; generations up to 4 (the last one is the refusal at the end of their range) |
| `cfg_refine` | journal implements `CfgStore` | 167k | 2 values (an old and a new one), 2 disturbances; symmetric in the values |
| `update` | whole image in the boot bank, way back, protocol, trials end | 40k | 2 blocks (first and last differ), a sound, a hanging and a foreign image, 2 failures or resets in any step |
| `loop_safety` | SAFE noticed and kept, order of SAFE and client, frames | 691k | ring of 2 usable bytes and a queue of 1, so that both overflow within one line or two |
| `loop_channel` | implements `CommandChannel` on both channels | 97k | all bytes on TCP, queue of 2, 3 waiting lines |
| `loop_live` | loss makes SAFE, the console is served | 18k | smallest sizes, endless traffic on TCP |
| `loop_next` | *violation*: the comment at `core.c:474` | - | two commands and a SAFE fit the ring |
| `sections` | what is announced is what the registers hold; the matrices show nothing else; neighbours are kept; commands end | 77k | all five elements, two codes each (the one after power-up and one that a reset or a wrong image loses), 2 retries |
| `outputs` | safe state, erase, voltage, relays; SAFE and trips end off | 328k | 2 relays of one group, 1 line, 1 section, 2 calibrations: a pair that may conflict, and an old and a new calibration |
| `console` | a SAFE received whole reaches the core once; nothing is pieced together | 242k | ring of 4 usable bytes and lines of 2: overflow in the middle of a line, and with a whole SAFE in the ring; reads of 1 byte (a recovered SAFE is cut) and of 3; 3 lines under way, 2 recovered (saturation) |
| `bridge` | replies stay with their commands, no old intention, SAFE goes out, panels are true, jobs end | 294k | 2 operations, 2 presses of SAFE (one before, one during the exchange of the other), 1 answer or stop, 3 sessions: first, after a restart, after another break; a script of a prompt and a setting |
| `observe` | presses reported, order of the log and of errors, address, button | 1.1M | a log of 3 and a stack of 2, so that both turn under a reply; 4 commands or outside changes; time-outs of 1 and 2 polls |

The bounds `MAX_DISTURBANCES`, `MAX_FAULTS`, `MAX_PENDING` limit the
environment only: how often flash fails or the board resets, and how many
complete lines a peer has outstanding, `MAX_OWED` the same of the console;
`MAX_SAFES`, `MAX_TASKS`, `MAX_ANSWERS`, `MAX_SESSIONS` what operators do and how
often a link is opened; `MAX_CHANGES` commands and what happens around the board. `RECOVERED_MAX` and `GEN_MAX` stand for
the widths of the integers in the code. Deadlock is checked in every run
but `bridge`, which stops when the operator has used up these bounds and the
program waits.

### Fairness

- Journal: `WF(FlashStep)`, a call in progress goes on (single thread);
  `WF(PowerOn)`, the claim is about a board that is switched on again.
- Update: `WF(Inner)`, calls run to their end and the watchdog resets a hung
  image (it is started at boot and cannot be stopped); `WF(TrialTimeout)`,
  `upd_poll` runs in every turn of the loop and the clock goes on.
- Superloop: `WF(Loop)` and `WF(Tick)`. Peers owe nothing: they may send for
  ever, never read, or leave.
- Sections: `WF(Goes)`, a transfer ends (bounded by 25 ms in `i2c.c`) and the
  command goes on.
- Bridge: `WF(Worker)`, a thread that never waits without a time-out;
  `WF(SafeSet)` and `WF(AnswerSet)`, an HTTP thread that has begun goes on. The
  device and the link owe nothing: they may stay silent for ever.
- Outputs: `WF` of the ends of waits, of `Poll` (in every `svc_poll`) and of
  `Tick`. DC-OK and ALARM are free.

### What the runs show

- No sequence of failures, resets and commands within the bounds loses an
  acknowledged record, replays an older snapshot, or leaves a board without a
  whole image to start. The order inside `restore_backup` (stamp, its commit,
  then retirement) and the special case at `cfg.c:287-289` are both needed: each
  has a mutant without it that fails. At the end of the generations
  (`cfg.c:272`) compaction has to be refused before it begins, or a backup is
  committed with the reserved generation that no boot takes: `JournalInv` fails in
  the mutant without the guard, though no older backup wins even there.
- A section is never announced with a code that its registers do not hold, on
  whichever rung of the ladder a command ends or is stopped. The RESET of the
  shared expander needs the image of both matrices, in the order latch,
  direction.
- An update runs an unconfirmed image once. A COMMIT that fails late leaves an open
  trial record; the next boot closes it and cannot be misled by it.
- SAFE survives overflow, full queues and waits on either channel.
- On the console every SAFE received whole is executed once, through overflows and
  line errors; the NUL that `rx_reject` leaves in the ring is needed to keep
  the two sides of a gap apart, and so is the distrust of a line feed after a
  line error. Each has a mutant without it that fails.
- In the bridge the epoch of the submission, not of the start, has to be compared;
  SAFE is sent once per press at most and no press is lost, because a second one
  waits for the end of the exchange.
- DUT:STAT? may be trusted without its INTERVENTION flag only because the flag
  is taken together with the snapshot; releases of a line set it, too.
- Two weaknesses of SYST:LOG? that no document excludes: `log_at` is called
  before a write that may turn the ring, so that an entry can come out of order
  when one write logs more than was shown before (`ReportsInOrder` excepts it);
  and a reply may skip an entry, after which the UI takes the others for
  new (`bridge.py:290-295`). A third of the network: the time of the DHCP
  fallback counts from the start, so a cable that is plugged in again later
  leads to the static address at once, if the old lease is asked for again.
  Each is listed under hazards.
- The one disagreement: after a command was interrupted by SAFE, a command that
  was already queued before runs first, and is not interrupted itself
  (`loop_next`, finding in `PROJECT.json`).
- The refusal of a setting command forbids erasing although the board is still
  safe (`cmd.c:549`); harmless, but a COMMIT that has to compact is refused until
  the next SAFE. Listed under hazards.

## 4. Proofs

TLC shows the properties on the instances above. The central ones are also
proved, for every value of the constants, in modules beside the specification.

### The journal (`CfgJournalProofs`)

Assumed of the constants: `SizesAssumption`, `MarksAssumption`,
`TornAssumption` in `CfgJournal` (the sizes are naturals and a journal has room
for a record of each type; the marks for blank and torn are no records).
Nothing is assumed about how many slots, types, values, failures or resets there
are.

`NoStaleReplay` is not inductive: that no committed backup outranks a primary in
use depends on which step of a compaction or of a recovery was cut, possibly
several boots ago. `JournalInv` adds what carries it:

- `BackupInv`: a committed backup is newer than the primary only while
  something still remembers it - RAM (`recovery_pending`), a restore in
  progress, or a start-up that has not scanned yet. Otherwise `Quiet` holds.
- `CacheInv`: the index in RAM points into the area that is in use and at whole
  records, and behind `used_records` there is nothing but erased slots.
- `TypeOK`, with the ranges of the addresses that a step programs.

From `[]JournalInv` follow the types, `NoStaleReplay`, `TailIsBlank`, and, as an
action property, `EpochNeverRegresses`: the generation the next boot would adopt
is the primary's when `Quiet`, the backup's when `backup_needed`, and each step
leads from one to the same or to a newer one.

That the journal is the plain store needs to know what its copies hold.
`StoreInv` says it: `snapshot` is the view of the readers during a compaction and
the records of the backup during a restore, the primary is the image of it from
the last record to the commit word of the stamp, and while recovery is pending
the view is the backup. `ReadableWhilePending` follows at once. For
`ImplementsStore`, each step is shown to be a step of `CfgStore` or a stutter:

- `ImageReadsBack`: scanning the image of a snapshot gives the snapshot. Two
  types never share a slot (`RankFacts`), by counting the types before them, so
  the newest record of a type is its only one. It makes the commit word of the
  stamp, and the fallback of the readers, invisible.
- `WriteCommitStore`: the commit word of the backup makes what the readers see
  durable, as a whole; the steps before it change nothing (`CompactStepStore`).
- `AppendedContents`: a record in the first erased slot changes its own type and
  no other, a torn one changes nothing; so a write is applied or not, also when
  it reports an error or a reset cuts it.
- `FinishInitStore`, `PowerOffStore`: after a scan, and after a reset, the view is
  the durable store.

### The update (`UpdateProofs`)

Assumed: `UpdateAssumption` (an image has at least one block; an erased or
half-written cell is not a block of an image). Nothing is assumed about the
number of images, crashes or failed writes.

That the board can always start rests on records in two banks that are written
at different moments, each write of which may fail or be cut. `UpdateInv` adds to
the types and to `BootBankComplete`:

- `FlashInv`: the record beside an accepted image starts no trial of it, so it can
  never be left for another one; if the selected image is not accepted, the other
  bank holds an accepted and complete one, and the new image has entered service
  only if its record counts the start.
- `ServiceInv`: what the RAM of the running image says agrees with that. An image
  on trial has one of two ways on, confirmation or return.
- `TransferInv`: a transfer writes only to a bank that was given up, and from the
  check of the CRC on the steps of COMMIT find the verified image there; before
  the option bytes switch, the record of the trial is in place.

`ProtocolTheorem` is the refinement: what a running board makes of the two banks
is a step of `UpdateProtocol` or no step, through crashes and writes whose
outcome is not known.

### The superloop (`SuperloopProofs`)

Assumed: `SuperloopAssumption` (sizes are positive, SAFE fits in a line, the ends
of a line are no letters, and the counter of rescued SAFE lines is wider than
what a peer can have outstanding). Nothing is assumed about the texts, the
buffers or the number of bytes, clients and waits.

A channel holds lines in four forms: finished in the queue, counted in
`recovered_safe`, unparsed in the ring, begun in `partial`. `Owed` is what all of
them amount to, and the proof is about `Owed`:

- The parser is a fold over the bytes of the ring. Its facts (`ParseInTwo`: what
  is parsed in two parts is what is parsed at once; `ParseTypes`: as many lines as
  line ends) are proved for rings of any length by taking the least length that
  fails (`AllNaturals`, `AllSequences`), which needs no induction over an operator.
- `PumpedFacts`: the pump moves lines between the forms and changes neither what
  is owed nor the line in hand. `ReceivedFacts`: a byte appends at most one line.
  `OverflowedFacts`, `OverflowKeepsSafe`: an overflow loses lines, but a SAFE among
  them, the one in `partial` or still unparsed included, is counted and owed.

`Inv` adds for the loop around them: `ClientInv` (what the client sent is there
only while there is a client, and a line of it is taken only after its SAFE),
`RunInv` (a line is in hand exactly where a command runs or its reply is written),
`AbortInv` (a SAFE that came during a command is noticed before its next step, and
whoever was stopped was stopped for one that is owed), `FramesInv` (a frame may be
open only while the reply is in hand or a resynchronisation is due).
`ImplementsChannelTheorem` then shows every step, for each of the two channels, to be
a step of `CommandChannel` or none.

### The outputs (`OutputsProofs`)

Assumed: `OutputsAssumption` (groups are finite sets of relays, NONE is no
calibration, the sections have names of their own).

What the firmware calls the safe state is decided by flags that are set at the
end of a wait, while the outputs they speak of were switched before it, and in
between a trip, an abort or a reset may come. `OutputsInv` adds to the
properties:

- `DacInv`: as long as the code is `known` it is the code of the DAC and belongs
  to the calibration, or to the service mode, in force; the supply is on only
  with a known code.
- `WaitInv`: for each wait, what has been switched off before it began, and
  what a command that never left the safe state may have on until it ends (the
  supply in its start, the section being powered); during a break the goal has
  no conflict, and when its time is up no released contact is still closed.

`NextInv` goes through the actions one by one; the relays need
`ConflictMonotone`, that fewer closed contacts make no conflict, which is where
the groups have to be finite. From `[]OutputsInv` follow all safety properties of
the run `outputs`.

### The sections (`SectionsProofs`)

Assumed: `SectionsAssumption` (the code after power-up is a code, -1 is none, the
retries are a natural number). What a section announces and what its chips hold
differ as soon as a step fails; they agree again only because of the steps that are
left. So `SectionsInv` speaks of `work`, the program a command has still to run:

- `UnderWay`: a section that is on, or in a command, has power, or the step that
  turns it on is left; the same for its chips in reset, the locked wiper, the
  direction of the matrices and the announcement itself. A `set` has no such step,
  so a RETRY always meets a section in service.
- `Kept`, for RES:SET until the section is restarted: each other element shows its
  announced code, or the matrices have still to be checked against the image with
  that code (`ImageLeft`). No write of the direction comes before such a check
  (`Ordered`), so with the matrices driving there is none left. This is the comment
  "Latch first" of `matrix_init`, and with the latch second the step fails.
- `Lost`, for a power-up: each element has the code after power-up, or its
  confirmation with that code is left; the matrices never hold anything but that
  code and the one RES:SET asks for.
- `Ends`: the last step of RES:SET confirms its own code, and no step before it
  confirms a code but the one after power-up.
- `Rests`: between commands, the properties themselves.

`Did` and `Tried` say what a step that is done, or that failed, may have changed;
`DoneKept`, `DoneLost`, `DoneEnds` and `FailsInv` rest on nothing else of it.
`Behind` and `ThenSet` are about programs that are put together, and give
`PowerOnIs` and `ResetStepsAre`, what the two long programs are made of.

### Reception on the console (`ConsoleProofs`)

Assumed: `ConsoleAssumption` (the ring has room for two bytes, which `rx_reject` and
the line feed after it need; the word is made of letters and fits in a line; blank,
CR, LF, NUL and the letters differ). Nothing is assumed about the word, the sizes,
the bytes or the order of interrupts and reads.

The interrupt decides what a SAFE is before the core has seen the line, and each
may be anywhere in another line. `Inv` (its parts together are `Consistent`) ties
both to what the sender sent:

- `Recog`: the state of the recognizer is the prefix of a SAFE line that the
  sender's line is, or it is invalid and the line is none (`Reached`; only one
  prefix can be, `ReachedOnce`, and `ReachedGrows` and `ReachedFrom` are a byte of
  `safe_byte`).
- `Following`, while nothing is discarded: there is a state of the core's line
  before and behind each byte of the ring, from `partial` (or an empty line, if
  recovered lines come first) to the line the sender is in. At each line feed
  that ends a line, it ends one of the owed lines, in their order. The
  line feed is marked `safe_end` exactly where that line is SAFE. The SAFE lines owed
  before it are the recovered ones and those marked before it in the ring, so none
  is overtaken.
- `Discarding`: the ring holds the NUL of `rx_reject`, or the core has taken it
  and its line is spoilt; nothing queued is left.
- `Recovering`: what the core has of a recovered line that a read cut.

`Rejects` and `Resumes` are the loss of the ring and the line feed that ends the
discarding, `Stores` a byte that is put behind the others; `RecoveryKeeps` and
`RingKeeps` are one byte of a read, and a read of any size follows by taking the
least number of bytes for which it would be wrong. The run leaves CR out of the
bytes that arrive; the theorems include it. `Saturated` needs no exception in `SafeOnceOnly`: at the limit, as many
lines are owed as are counted.

### What the board notices (`ObserveProofs`)

Assumed: `DutAssumption`, `NetAssumption` and `ObserveAssumption` (the lines are
finitely many, the periods and timeouts are naturals, a ring has a place). Nothing
is assumed about how often something happens. `Inv` takes the types of the three records and adds to
the properties:

- `Holds`: a board with an address that is not a lease runs no DHCP client, so no
  lease can come later to replace what was announced.
- `Tried`: behind the one write of the settings is a press that was attempted and
  still lasts, so the button has to be seen released before the next.
- `Quiet`: while INTERVENTION is off, the lines are as the last reply showed them,
  or as the one under way shows them. This is what `cmd_dut_stat` keeps by clearing
  the flag together with its snapshot and before it writes: a press during the
  reply sets it again.

`DutPolls`, `NetSteps` and `ButtonPolls` are the facts about the operators of
`DutLines` and `NetAddress`; the steps of `Observe` follow from them.

`ReportsInOrder` has an invariant of its own, `OrderInv`, beside `Inv`:

- `Ring`: the entries of a ring are numbered as they came, and it holds the newest
  `count` of them from its head on. `PushedAllFollows` says what some more entries
  do: at most as many of the oldest are dropped, and every other entry keeps its
  place in the array, only its index from the head falls by the dropped ones. (The
  recursion of `PushedAll` is over the entries of one poll; the proof takes the
  least length for which it would be wrong.) `PoppedRing` is the same of `err_pop`.
- `Shown`: what SYST:LOG? has written is older than the entry with the next index.
  While an entry is in hand, `InHand` says which one it is: it had an index `k` when
  it was taken, and `i - k` of the entries logged since then have moved it down. As
  long as no more than `i` entries came since, it is still in the ring. With more,
  the place it points to may have been given to a newer entry, and the reply counts
  as `overrun`; this is exactly where `log_at` in `core/errlog.c` stops protecting
  its caller.
- `Told`: the last error reported, and those written in this reply, are older than
  all that is left in the stack, because `err_pop` takes the oldest.

### The bridge (`BridgeProofs`)

Assumed: `BridgeAssumption` (the script is a sequence of the four kinds of steps,
the kinds of jobs are among the two there are, the bounds are naturals). The
number of presses, operations, answers and sessions is any. The four properties
look at the two ends of the link; `Inv` has to speak of all that is between them:

- `StepInv` (`Synced`): with the link up, the replies that wait in `lines` and the
  commands behind them in `wire` are, one by one, what the worker still has to
  read for, which is never more than a command and a SAFE. On a link that broke
  unnoticed the replies are a part of it and end with the end of the link. The
  lemmas `SyncedSend`, `SyncedReply`, `SyncedRead` and `SyncedBreak` say what each
  end may do to them; a time-out keeps them only because it closes the link.
- `EpochInv`: no setting command on its way is older than the SAFE the device
  executed last, and no SAFE on its way is newer than the count of presses. It
  holds because the epoch is checked where the command is put into the stream.
- `AckInv`: a device that left the safe state while the panel says otherwise is
  owed a reply that is not read yet: of a setting command, which is OK or says
  that the state is not safe (`Telling`), or of a SAFE.
- `JobInv`: one job at a time, and it stays active until its operation ends.
- `RepliesInv`, `Founded`: what a reply says of the update is still true when it is
  read, and what led to the next question of the verdict (`*IDN?`, `UPD:CONFIRM`,
  `SYST:ERR?`) still holds when that is answered; a trial that runs out in between
  takes nothing back but TRIAL, on which no verdict rests.

`DeviceStep`, `HttpStep` and `WorkerStep` go through the device, the HTTP threads and
the worker; the lemmas `Ended`, `Raised`, `Returned`, `Judged` and `LinkFailed` follow
the ways in which an exchange and an operation end.

### What is only model-checked

- Liveness (`RecoveryCompletes`, `TrialEnds`, `LossMakesSafe`, `ConsoleServed`,
  `SafeEndsOff`, `FaultTrips`, `CommandEnds`, `SafeIsSent`, `StopEnds`): they rest on fairness, which TLAPS
  does not reason about.

Every safety invariant, action property and refinement that a passing run checks is
also a theorem.

## 5. Plan

Modules, in this order:

1. `CfgStore`, `CfgJournal`, `CfgJournalProofs` - done.
2. `UpdateProtocol`, `Update`, `UpdateProofs` - done.
3. `CommandChannel`, `Superloop`, `SuperloopProofs` - done.
4. `Outputs`, `OutputsProofs` - done.
5. `Sections`, `SectionsProofs` - done.
6. `Bridge`, `BridgeProofs` - done.
7. `Console`, `ConsoleProofs`; `DutLines`, `NetAddress`, `Errlog` and their composition `Observe`, `ObserveProofs` - done.
8. `ClientPort`: the pcb of a client, the refused second one, errors during a
   send - left; `Superloop` takes the end of a session as one event.

Every safety property has its theorem; those of `ClientPort` come with it.

## 6. Disagreements with the repository's own words

`loop_next`: the comment at `core.c:474` promises that the SAFE which
interrupted a command is executed next. The queue is first-in first-out, so a
command that was complete before the interrupted one started comes in between
and runs to its end. Everything else that the comments and documents say of the
modelled parts holds in the runs.

## 7. What is not modelled, and why

- Host build, `hal/host`: stand-ins for tests.
- Emulator: another implementation of the same commands; the firmware is the
  reference.
- Tools and generated tables: no state. The relay groups are a constant.
- `dbg.c`: exists only in the bring-up build, whose purpose is to go around the
  interlocks.
- Drivers of the target below `hal.h`, but for reception on the console: registers. Their outcomes (done, failed
  with or without effect, cut) are in the models that call them.
- LwIP and the Ethernet DMA: external; `Superloop` and `NetAddress` take their
  events.
- Pins, signals and shift registers: writes that keep no state of their own.
- Of the UI: the web server and its pages, which only show the state of the
  bridge; ERR:BUSY at connect, the serial console, the end of the program;
  the parsers of scripts and images.
- Formatting and parsing of arguments: a command is valid or refused.
- Self-test and queries: they change no state but their reply.
- The bit level of the flash, apart from torn records, torn headers and
  interrupted erases.
