------------------------------- MODULE Bridge -------------------------------
(***************************************************************************)
(* The operator's browser interface in front of the device,                *)
(* ui/contr_ui/bridge.py: HTTP threads put operations into a queue, press  *)
(* SAFE, stop jobs and answer prompts; one worker thread owns the link and *)
(* does all exchanges, for operations, jobs and its own polls.             *)
(*                                                                         *)
(* A step of the worker or of an HTTP thread ends where it takes the lock, *)
(* tests or sets an event, or waits.  The device and the link are those of *)
(* a TCP session: commands are executed in the order they were sent, each  *)
(* has one reply, the link may break at any moment, and a device that      *)
(* loses its client makes itself safe (Superloop).                         *)
(***************************************************************************)
EXTENDS Naturals, Sequences

CONSTANTS
  SCRIPT,       \* steps of the script an operator may start
  NONE,         \* no epoch
  JOBS,         \* kinds of jobs that may be started
  MAX_SAFES,    \* bound: times SAFE is pressed
  MAX_TASKS,    \* bound: operations and jobs put into the queue
  MAX_ANSWERS,  \* bound: answers to prompts and stops of jobs
  MAX_SESSIONS  \* bound: times a link is opened

ASSUME BridgeAssumption ==
  /\ SCRIPT \in Seq({"set", "query", "wait", "prompt"}) /\ JOBS \subseteq {"script", "update"}
  /\ {MAX_SAFES, MAX_TASKS, MAX_ANSWERS, MAX_SESSIONS} \subseteq Nat /\ NONE \notin Nat

VARIABLES
  epoch,        \* SAFE requests so far
  pressing,     \* an HTTP thread is inside safe(), it holds the lock
  urgent, cancel, answer, \* the events
  answering,    \* HTTP threads that are about to set `answer`
  tasks,        \* the queue: operations with the epoch of their submission
  job,          \* state["job"]: kind and status
  connected, safe_acknowledged, confirm_update,
  w,            \* the worker: place, operation, epoch it runs under (and, history,
                \* in which it was meant), exchange
  session,      \* of the link: "none", "up", "dead" (broken, not yet noticed)
  wire,         \* commands on their way to the device
  lines,        \* replies that wait in link.lines
  dev,          \* the device: who left the safe state, SAFE executed, update
  served,       \* history: presses that a SAFE which was sent, or the end of the link, answers
  used          \* how much of the bounds is used

events == <<urgent, cancel, answer, answering>>
http == <<pressing, confirm_update>>
shown == <<connected, safe_acknowledged, job>>
link == <<session, wire, lines, dev, served>>
vars == <<epoch, http, events, tasks, shown, w, link, used>>

Statuses == {"none", "running", "waiting", "reconnecting", "trial",
             "done", "cancelled", "failed", "rolled_back"}
JobActive == job.status \in {"running", "waiting", "reconnecting", "trial"}

Places == {"loop", "get", "got", "step", "send", "await", "urgent", "safeReply",
           "ask", "prompt", "wait", "watch"}
Operations == {"none", "urgent", "poll", "connect", "disconnect", "set", "query", "refresh",
               "script", "update"}
Commands == {"SAFE", "set", "query", "BEGIN", "DATA", "COMMIT", "ABORT", "STAT", "IDN",
             "CONFIRM", "ERR", "none"}
Epochs == 0 .. MAX_SAFES

TypeOK ==
  /\ epoch \in Epochs /\ served \in Epochs
  /\ {pressing, urgent, cancel, answer, connected, safe_acknowledged, confirm_update}
       \subseteq BOOLEAN
  /\ answering \in 0 .. MAX_ANSWERS /\ Len(tasks) <= MAX_TASKS
  /\ job.status \in Statuses /\ session \in {"none", "up", "dead"}
  /\ w.pc \in Places /\ w.op \in Operations /\ w.cmd \in Commands
  /\ w.active \in Epochs \cup {NONE} /\ dev.by \in Epochs \cup {NONE}
  /\ dev.upd \in {"IDLE", "RECEIVING", "TRIAL", "CONFIRMED"}

-----------------------------------------------------------------------------
(* HTTP threads.                                                           *)

Count(what) == used' = [used EXCEPT ![what] = @ + 1]

submit(op) ==
  /\ ~pressing /\ ~JobActive /\ ~urgent
  /\ used.tasks < MAX_TASKS /\ Count("tasks")
  /\ tasks' = Append(tasks, [op |-> op, epoch |-> epoch])
  /\ UNCHANGED <<epoch, http, events, shown, w, link>>

\* safe(): one critical section, but the worker looks at the events without the lock.
SafeCounts == epoch' = epoch + 1
safe ==
  /\ ~pressing /\ connected /\ epoch < MAX_SAFES
  /\ SafeCounts /\ cancel' = TRUE /\ pressing' = TRUE
  /\ UNCHANGED <<urgent, answer, answering, tasks, confirm_update, shown, w, link, used>>
SafeSet ==
  /\ pressing /\ pressing' = FALSE
  /\ urgent' = TRUE /\ answer' = TRUE
  /\ UNCHANGED <<epoch, cancel, answering, tasks, confirm_update, shown, w, link, used>>

\* cancel_job and answer_prompt: the answer is set after the lock is given back.
cancel_job ==
  /\ used.answers < MAX_ANSWERS /\ Count("answers")
  /\ cancel' = TRUE /\ answering' = answering + 1
  /\ UNCHANGED <<epoch, http, urgent, answer, tasks, shown, w, link>>
answer_prompt(accepted) ==
  /\ ~pressing /\ job.status = "waiting"
  /\ used.answers < MAX_ANSWERS /\ Count("answers")
  /\ cancel' = (cancel \/ ~accepted) /\ answering' = answering + 1
  /\ UNCHANGED <<epoch, http, urgent, answer, tasks, shown, w, link>>
AnswerSet ==
  /\ answering > 0 /\ answering' = answering - 1
  /\ answer' = TRUE
  /\ UNCHANGED <<epoch, http, urgent, cancel, tasks, shown, w, link, used>>

set_confirm(value) ==
  /\ confirm_update # value /\ confirm_update' = value
  /\ "update" \in JOBS /\ used.answers < MAX_ANSWERS /\ Count("answers")
  /\ UNCHANGED <<epoch, pressing, events, tasks, shown, w, link>>

start_job(kind) ==
  /\ ~pressing /\ ~JobActive /\ tasks = <<>> /\ ~urgent /\ connected
  /\ used.tasks < MAX_TASKS /\ Count("tasks")
  /\ cancel' = FALSE /\ answer' = FALSE
  /\ \E confirm \in IF kind = "update" THEN BOOLEAN ELSE {confirm_update} :
       confirm_update' = confirm
  /\ job' = [kind |-> kind, status |-> "running"]
  /\ tasks' = <<[op |-> kind, epoch |-> epoch]>>
  /\ UNCHANGED <<epoch, pressing, urgent, answering, connected, safe_acknowledged, w, link>>

Http ==
  \/ \E op \in {"connect", "disconnect", "set", "query", "refresh"} : submit(op)
  \/ safe \/ SafeSet \/ cancel_job \/ AnswerSet
  \/ \E b \in BOOLEAN : answer_prompt(b) \/ set_confirm(b)
  \/ \E kind \in JOBS : start_job(kind)

-----------------------------------------------------------------------------
(* The link and the device behind it.                                      *)

EOF == [cmd |-> "none", ok |-> FALSE, info |-> "EOF"]
Nothing == [cmd |-> "none", ok |-> FALSE, info |-> "none"]

Send(cmd) ==
  IF session = "up"
  THEN /\ wire' = Append(wire, [cmd |-> cmd, by |-> w.meant, at |-> epoch])
       /\ served' = IF cmd = "SAFE" THEN epoch ELSE served
       /\ UNCHANGED <<session, lines, dev>>
  ELSE UNCHANGED link

\* _close and _open.
Close ==
  /\ session' = "none" /\ wire' = <<>> /\ lines' = <<>>
  /\ dev' = IF session = "up" THEN [dev EXCEPT !.by = NONE] ELSE dev
  /\ connected' = FALSE /\ safe_acknowledged' = FALSE /\ served' = epoch
Open ==
  /\ used.sessions < MAX_SESSIONS /\ Count("sessions")
  /\ session' = "up" /\ wire' = <<>> /\ lines' = <<>>
  /\ connected' = TRUE /\ safe_acknowledged' = FALSE
  /\ dev' = [dev EXCEPT !.by = NONE] /\ served' = epoch

Broken(reply, device) ==
  /\ session' = "dead" /\ wire' = <<>> /\ lines' = lines \o reply \o <<EOF>>
  /\ dev' = [device EXCEPT !.by = NONE]
Replied(c, ok, info, device) ==
  /\ lines' = Append(lines, [cmd |-> c.cmd, ok |-> ok, info |-> info])
  /\ wire' = Tail(wire) /\ dev' = device /\ UNCHANGED session

\* A setting command that SAFE interrupts may have done a part.  One that is refused may say
\* that the state is not safe ("unsafe": ERR:NOT_SAFE, ERR:PSU_FAULT, a step of SAFE failed), and
\* one that finds the DAC silent has ended the safe state, although it fails.
Sets(c) ==
  \/ Replied(c, TRUE, "none", [dev EXCEPT !.by = c.by])
  \/ \E info \in {"none", "unsafe"} : Replied(c, FALSE, info, dev)
  \/ Replied(c, FALSE, "unsafe", [dev EXCEPT !.by = c.by])
  \/ /\ \E i \in 2 .. Len(wire) : wire[i].cmd = "SAFE"
     /\ Replied(c, FALSE, "none", [dev EXCEPT !.by = c.by])
\* A SAFE that fails leaves on what was on, now on its own account.
Safes(c) ==
  \E ok \in BOOLEAN :
    Replied(c, ok, "none", [dev EXCEPT !.safe_at = c.at,
                                       !.by = IF ok \/ @ = NONE THEN NONE ELSE c.at])
\* A transfer that fails may be dropped, or stay open for the host to repeat or to abort.
Dropped(u) == IF u = "RECEIVING" THEN "IDLE" ELSE u
Updates(c) ==
  \/ /\ c.cmd = "BEGIN" /\ dev.by = NONE /\ dev.upd # "TRIAL"
     /\ Replied(c, TRUE, "none", [dev EXCEPT !.upd = "RECEIVING"])
  \/ c.cmd = "BEGIN" /\ Replied(c, FALSE, "unsafe", dev)
  \/ c.cmd = "DATA" /\ dev.upd = "RECEIVING" /\ Replied(c, TRUE, "none", dev)
  \/ /\ c.cmd \in {"BEGIN", "DATA", "COMMIT"}
     /\ \E u \in {dev.upd, Dropped(dev.upd)} : Replied(c, FALSE, "none", [dev EXCEPT !.upd = u])
  \/ /\ c.cmd = "COMMIT" /\ dev.upd = "RECEIVING"
     /\ \E reply \in {<<>>, <<[cmd |-> "COMMIT", ok |-> TRUE, info |-> "none"]>>} :
          Broken(reply, [dev EXCEPT !.upd = "TRIAL", !.rolled = FALSE])
  \/ c.cmd = "ABORT" /\ Replied(c, TRUE, "none", [dev EXCEPT !.upd = Dropped(@)])
  \/ /\ c.cmd = "CONFIRM" /\ dev.upd = "TRIAL"
     /\ Replied(c, TRUE, "none", [dev EXCEPT !.upd = "CONFIRMED"])
  \/ c.cmd = "CONFIRM" /\ Replied(c, FALSE, "none", dev)
Asks(c) ==
  \/ c.cmd = "query" /\ \E info \in {"none", "unsafe"} : Replied(c, TRUE, info, dev)
  \/ c.cmd = "query" /\ Replied(c, FALSE, "none", dev)
  \/ c.cmd = "STAT" /\ Replied(c, TRUE, dev.upd, dev)
  \/ /\ c.cmd = "IDN"
     /\ Replied(c, TRUE, IF dev.upd \in {"TRIAL", "CONFIRMED"} THEN "new" ELSE "old", dev)
  \/ /\ c.cmd = "ERR"
     /\ Replied(c, TRUE, IF dev.rolled THEN "rolled_back" ELSE "none",
                [dev EXCEPT !.rolled = FALSE])

DeviceExecutes ==
  /\ wire # <<>>
  /\ LET c == Head(wire) IN
       \/ c.cmd = "set" /\ Sets(c)
       \/ c.cmd = "SAFE" /\ Safes(c)
       \/ Updates(c)
       \/ Asks(c)
  /\ UNCHANGED <<epoch, http, events, tasks, shown, w, served, used>>

\* The link breaks, or the trial runs out and the device restarts with the old image.
LinkBreaks ==
  /\ session = "up" /\ Broken(<<>>, dev)
  /\ UNCHANGED <<epoch, http, events, tasks, shown, w, served, used>>
TrialRunsOut ==
  /\ dev.upd = "TRIAL"
  /\ LET old == [dev EXCEPT !.upd = "IDLE", !.rolled = TRUE]
     IN IF session = "up" THEN Broken(<<>>, old)
        ELSE dev' = old /\ UNCHANGED <<session, wire, lines>>
  /\ UNCHANGED <<epoch, http, events, tasks, shown, w, served, used>>

-----------------------------------------------------------------------------
(* The worker: how an operation goes on and ends.                          *)

Idle == [pc |-> "loop", op |-> "none", active |-> NONE, meant |-> NONE,
         cmd |-> "none", plan |-> <<>>, safe_sent |-> FALSE, reply |-> Nothing, about |-> Nothing,
         raised |-> "none"]
Exchange(cmd) == [w EXCEPT !.pc = "send", !.cmd = cmd, !.safe_sent = FALSE]
At(pc) == [w EXCEPT !.pc = pc]
JobIs(status) == job' = [job EXCEPT !.status = status]

\* The end of an operation; a job shows its outcome.
Ends(status) ==
  /\ w' = Idle
  /\ IF w.op \in {"script", "update"} THEN JobIs(status) ELSE UNCHANGED job

\* An exception in the exchange, or from a check; from BEGIN to the last block the transfer is
\* aborted first.
Loading ==
  /\ w.op = "update"
  /\ (IF w.pc = "step" THEN Head(w.plan) ELSE w.cmd) \in {"BEGIN", "DATA"}
Raises(status, linked) ==
  IF Loading /\ linked
  THEN w' = [Exchange("ABORT") EXCEPT !.raised = status] /\ UNCHANGED job
  ELSE Ends(status)

Watching == w.op = "update" /\ w.plan = <<>> /\ w.cmd \notin {"SAFE", "BEGIN", "DATA", "ABORT"}

\* OSError: the link is closed; a lost COMMIT and the watch go on without it.
LinkFails ==
  /\ Close
  /\ IF Watching
     THEN /\ w' = [At("watch") EXCEPT !.cmd = "STAT"]
          /\ IF w.cmd = "COMMIT" THEN JobIs("reconnecting") ELSE UNCHANGED job
     ELSE Raises("failed", FALSE)

\* _require_ok.
Accepted_Any(r) == TRUE
Accepted(r) == r.ok

\* What the watched device says.
Verdict(r) ==
  CASE r.cmd = "STAT" /\ r.info = "TRIAL" ->
         /\ JobIs("trial")
         /\ w' = IF confirm_update THEN [Exchange("IDN") EXCEPT !.about = r] ELSE At("watch")
    [] r.cmd = "STAT" /\ r.info = "CONFIRMED" ->
         w' = [Exchange("IDN") EXCEPT !.about = r] /\ UNCHANGED job
    [] r.cmd = "STAT" /\ r.info = "IDLE" -> w' = Exchange("ERR") /\ UNCHANGED job
    [] r.cmd = "STAT" /\ r.info = "RECEIVING" -> Ends("failed")
    [] r.cmd = "IDN" /\ r.info = "old" -> Ends("failed")
    [] r.cmd = "IDN" /\ r.info = "new" /\ w.about.info = "TRIAL" ->
         IF cancel THEN Ends("cancelled") ELSE w' = Exchange("CONFIRM") /\ UNCHANGED job
    [] r.cmd = "IDN" /\ r.info = "new" /\ w.about.info # "TRIAL" -> Ends("done")
    [] r.cmd = "CONFIRM" ->
         IF Accepted(r) THEN w' = [Exchange("query") EXCEPT !.about = r] /\ UNCHANGED job
         ELSE Ends("failed")
    [] r.cmd = "ERR" -> w' = [Exchange("query") EXCEPT !.about = r] /\ UNCHANGED job
    [] OTHER -> Ends(CASE w.about.cmd = "CONFIRM" -> "done"
                       [] w.about.info = "rolled_back" -> "rolled_back"
                       [] OTHER -> "failed")

\* The exchange returned reply r.
Returns(r) ==
  CASE w.op \in {"urgent", "poll", "set", "query"} -> Ends("done")
    [] w.op \in {"connect", "refresh"} ->
         /\ w' = IF r.cmd = "SAFE" THEN [Exchange(Head(w.plan)) EXCEPT !.plan = Tail(@)]
                 ELSE At("step")
         /\ UNCHANGED job
    [] w.op = "update" /\ r.cmd = "ABORT" -> Ends(w.raised)
    [] w.op = "update" /\ Watching /\ r.cmd # "COMMIT" -> Verdict(r)
    [] OTHER -> IF Accepted(r) THEN w' = At("step") /\ UNCHANGED job
                ELSE Raises("failed", TRUE)

-----------------------------------------------------------------------------
(* The worker: _loop, the operations, _exchange.                           *)

\* A SAFE that was pressed while nothing ran.
LoopTop ==
  /\ w.pc = "loop"
  /\ IF urgent THEN urgent' = FALSE /\ w' = [Exchange("SAFE") EXCEPT !.op = "urgent"]
     ELSE UNCHANGED urgent /\ w' = At("get")
  /\ UNCHANGED <<epoch, http, cancel, answer, answering, tasks, shown, link, used>>

\* The epoch an operation runs under is that of its submission.
Taken_Now(task) == epoch
Taken(task) == task.epoch

\* An operation from the queue, or else a poll of the panels.
Get ==
  /\ w.pc = "get"
  /\ \/ /\ tasks # <<>> /\ tasks' = Tail(tasks)
        /\ w' = [At("got") EXCEPT !.op = Head(tasks).op, !.active = Taken(Head(tasks)),
                                  !.meant = Head(tasks).epoch]
     \/ /\ tasks = <<>> /\ UNCHANGED tasks
        /\ w' \in {Idle} \cup IF session = "none" THEN {}
                             ELSE {[Exchange("query") EXCEPT !.op = "poll"]}
  /\ UNCHANGED <<epoch, http, events, shown, link, used>>

Plan(op) == CASE op = "script" -> SCRIPT
              [] op = "update" -> <<"SAFE", "BEGIN", "DATA", "COMMIT">>
              [] OTHER -> <<"query", "query">>

\* _dispatch, unless SAFE was pressed since the operation was submitted.
Dispatch ==
  /\ w.pc = "got" /\ ~pressing /\ w.active = epoch
  /\ CASE w.op = "disconnect" -> Close /\ Ends("done") /\ UNCHANGED used
       [] w.op = "connect" ->
            \/ Open /\ w' = [At("step") EXCEPT !.plan = Plan("connect")] /\ UNCHANGED job
            \/ Close /\ Ends("failed") /\ UNCHANGED used
       [] w.op \in {"set", "query"} ->
            w' = Exchange(w.op) /\ UNCHANGED <<shown, link, used>>
       [] OTHER -> /\ w' = [At("step") EXCEPT !.plan = Plan(w.op)]
                   /\ UNCHANGED <<shown, link, used>>
  /\ UNCHANGED <<epoch, http, events, tasks>>
Outdated ==
  /\ w.pc = "got" /\ ~pressing /\ w.active # epoch
  /\ Ends("cancelled")
  /\ UNCHANGED <<epoch, http, events, tasks, connected, safe_acknowledged, link, used>>

\* The next step of a refresh, a script or the loading of an image.
Refresh ==
  /\ w.op \in {"connect", "refresh"} /\ UNCHANGED job
  /\ CASE w.plan = <<>> -> w' = Idle /\ UNCHANGED urgent
       [] w.plan # <<>> /\ urgent -> urgent' = FALSE /\ w' = Exchange("SAFE")
       [] OTHER -> w' = [Exchange(Head(w.plan)) EXCEPT !.plan = Tail(@)] /\ UNCHANGED urgent
ScriptStep ==
  /\ w.op = "script" /\ w.plan # <<>> /\ UNCHANGED urgent
  /\ IF cancel THEN Ends("cancelled")
     ELSE /\ JobIs("running")
          /\ w' = [(CASE Head(w.plan) = "wait" -> At("wait")
                      [] Head(w.plan) = "prompt" -> At("ask")
                      [] OTHER -> Exchange(Head(w.plan))) EXCEPT !.plan = Tail(@)]
UpdateStep ==
  /\ w.op = "update" /\ w.plan # <<>> /\ UNCHANGED urgent
  /\ IF cancel THEN Raises("cancelled", session # "none")
     ELSE w' = [Exchange(Head(w.plan)) EXCEPT !.plan = Tail(@)] /\ UNCHANGED job
Step ==
  /\ w.pc = "step" /\ ~pressing
  /\ Refresh \/ ScriptStep \/ UpdateStep
  /\ UNCHANGED <<epoch, http, cancel, answer, answering, tasks, connected, safe_acknowledged,
                 link, used>>
\* The plan is done: a script is, an update closes the link and watches.
PlanDone ==
  /\ w.pc = "step" /\ ~pressing /\ w.plan = <<>> /\ w.op \in {"script", "update"}
  /\ IF w.op = "script" THEN Ends("done") /\ UNCHANGED <<connected, safe_acknowledged, link>>
     ELSE Close /\ JobIs("reconnecting") /\ w' = At("watch")
  /\ UNCHANGED <<epoch, http, events, tasks, used>>

\* A prompt is shown; an answer or a stop ends it.  A pause ends or is stopped.
Ask ==
  /\ w.pc = "ask" /\ ~pressing
  /\ answer' = FALSE /\ JobIs("waiting") /\ w' = At("prompt")
  /\ UNCHANGED <<epoch, http, urgent, cancel, answering, tasks, connected, safe_acknowledged,
                 link, used>>
PromptEnds_Answered ==
  /\ (w.pc = "prompt" /\ answer) \/ w.pc = "wait"
  /\ IF cancel THEN Ends("cancelled") ELSE w' = At("step") /\ UNCHANGED job
  /\ UNCHANGED <<epoch, http, events, tasks, connected, safe_acknowledged, link, used>>
PromptEnds ==
  /\ \/ w.pc = "prompt" /\ (answer \/ cancel)
     \/ w.pc = "wait"
  /\ IF cancel THEN Ends("cancelled") ELSE w' = At("step") /\ UNCHANGED job
  /\ UNCHANGED <<epoch, http, events, tasks, connected, safe_acknowledged, link, used>>

\* _exchange: the epoch is checked and the command sent in one critical section.
Stale == w.cmd # "SAFE" /\ w.active # NONE /\ w.active # epoch
ExchangeSends ==
  /\ w.pc = "send" /\ ~pressing
  /\ \/ /\ session = "none" /\ Raises("failed", FALSE)
        /\ UNCHANGED <<connected, safe_acknowledged, link>>
     \/ /\ session # "none" /\ Stale /\ Raises("cancelled", TRUE)
        /\ UNCHANGED <<connected, safe_acknowledged, link>>
     \/ /\ session # "none" /\ ~Stale /\ Send(w.cmd) /\ w' = At("await")
        /\ UNCHANGED shown
     \/ session = "dead" /\ ~Stale /\ LinkFails
  /\ UNCHANGED <<epoch, http, events, tasks, used>>

\* SAFE goes out while the reply is awaited.
TakeUrgent_Twice ==
  /\ w.pc = "await" /\ urgent /\ w.cmd # "SAFE"
  /\ urgent' = FALSE /\ w' = IF w.safe_sent THEN w ELSE At("urgent")
  /\ UNCHANGED <<epoch, http, cancel, answer, answering, tasks, shown, link, used>>
TakeUrgent ==
  /\ w.pc = "await" /\ urgent /\ w.cmd # "SAFE" /\ ~w.safe_sent
  /\ urgent' = FALSE /\ w' = At("urgent")
  /\ UNCHANGED <<epoch, http, cancel, answer, answering, tasks, shown, link, used>>
SafeDuring ==
  /\ w.pc = "urgent"
  /\ \/ Send("SAFE") /\ w' = [At("await") EXCEPT !.safe_sent = TRUE] /\ UNCHANGED shown
     \/ session = "dead" /\ LinkFails
  /\ UNCHANGED <<epoch, http, events, tasks, used>>

\* _observe, of a reply r to command cmd.
Queries == {"query", "STAT", "IDN", "ERR"}
Acknowledged_SafeOnly(cmd, r) == IF cmd = "SAFE" THEN r.ok ELSE safe_acknowledged
Acknowledged(cmd, r) ==
  CASE cmd = "SAFE" -> r.ok
    [] cmd # "SAFE" /\ (r.info = "unsafe" \/ (r.ok /\ cmd \notin Queries)) -> FALSE
    [] OTHER -> safe_acknowledged
Observe(cmd, r) == safe_acknowledged' = Acknowledged(cmd, r) /\ UNCHANGED connected

\* _read_reply, first of the command, then of the SAFE that was sent after it.
ReadReply ==
  /\ w.pc \in {"await", "safeReply"} /\ ~pressing /\ lines # <<>>
  /\ LET r == Head(lines) IN
     IF r = EOF THEN LinkFails
     ELSE /\ lines' = Tail(lines) /\ UNCHANGED <<session, wire, dev, served>>
          /\ Observe(IF w.pc = "await" THEN w.cmd ELSE "SAFE", r)
          /\ IF w.pc = "await" /\ w.safe_sent
             THEN w' = [At("safeReply") EXCEPT !.reply = r] /\ UNCHANGED job
             ELSE Returns(IF w.pc = "await" THEN r ELSE w.reply)
  /\ UNCHANGED <<epoch, http, events, tasks, used>>
ReplyTimeout_KeepsLink ==
  /\ w.pc \in {"await", "safeReply"} /\ lines = <<>>
  /\ Raises("failed", TRUE)
  /\ UNCHANGED <<epoch, http, events, tasks, used, connected, safe_acknowledged, link>>
ReplyTimeout ==
  /\ w.pc \in {"await", "safeReply"} /\ lines = <<>>
  /\ LinkFails
  /\ UNCHANGED <<epoch, http, events, tasks, used>>

\* After COMMIT: reopen the link and ask, until the outcome is known or time is up.
Watch ==
  /\ w.pc = "watch"
  /\ \/ Ends(IF cancel THEN "cancelled" ELSE "failed")
        /\ UNCHANGED <<connected, safe_acknowledged, link, used>>
     \/ /\ ~cancel /\ session = "none" /\ Open /\ w' = Exchange("STAT") /\ UNCHANGED job
     \/ /\ ~cancel /\ session # "none" /\ w' = Exchange("STAT") /\ UNCHANGED <<shown, link, used>>
  /\ UNCHANGED <<epoch, http, events, tasks>>

Worker == \/ LoopTop \/ Get \/ Dispatch \/ Outdated \/ Step \/ PlanDone \/ Ask \/ PromptEnds
          \/ ExchangeSends \/ TakeUrgent \/ SafeDuring \/ ReadReply \/ ReplyTimeout \/ Watch

Init ==
  /\ epoch = 0 /\ pressing = FALSE /\ confirm_update = TRUE
  /\ urgent = FALSE /\ cancel = FALSE /\ answer = FALSE /\ answering = 0
  /\ tasks = <<>> /\ job = [kind |-> "none", status |-> "none"]
  /\ connected = FALSE /\ safe_acknowledged = FALSE /\ w = Idle
  /\ session = "none" /\ wire = <<>> /\ lines = <<>> /\ served = 0
  /\ dev = [by |-> NONE, safe_at |-> 0, upd |-> "IDLE", rolled |-> FALSE]
  /\ used = [tasks |-> 0, answers |-> 0, sessions |-> 0]
Next == Http \/ Worker \/ DeviceExecutes \/ LinkBreaks \/ TrialRunsOut
Spec == Init /\ [][Next]_vars
FairSpec == Spec /\ WF_vars(Worker) /\ WF_vars(SafeSet) /\ WF_vars(AnswerSet)

-----------------------------------------------------------------------------
(* Properties.                                                             *)

\* What the worker owes a reading, in order.
Awaited == CASE w.pc = "await" -> <<w.cmd>> \o IF w.safe_sent THEN <<"SAFE">> ELSE <<>>
             [] w.pc = "urgent" -> <<w.cmd>>
             [] w.pc = "safeReply" -> <<"SAFE">>
             [] OTHER -> <<>>
Outstanding == [i \in DOMAIN lines |-> lines[i].cmd] \o [i \in DOMAIN wire |-> wire[i].cmd]

\* The state is well typed, and the replies under way on a working link are those the worker
\* is reading for, in this order: no reply, and none of a SAFE that interrupted, is taken for
\* the reply of another command, whatever was cancelled in between (_exchange, bridge.py:3-5).
InStep == TypeOK /\ (session = "up" => Outstanding = Awaited)

\* What was meant before SAFE was pressed is not done after it: once the device executed
\* the SAFE, only a command meant later takes it out of the safe state (epoch, active_epoch).
NoOldIntention == dev.by # NONE => dev.by >= dev.safe_at

\* The interface shows SAFE acknowledged only while the device is safe, but for the time in
\* which the reply of a setting command, or of the SAFE that interrupted it, is not read
\* yet (_observe).
AckIsTrue ==
  safe_acknowledged /\ (\A i \in DOMAIN Awaited : Awaited[i] \in Queries) => dev.by = NONE

\* An update that is shown as done is confirmed in the device, and one that is shown as
\* rolled back is not running, whatever links and restarts were between (_run_update).
VerdictIsTrue ==
  job.kind = "update" =>
    /\ job.status = "done" => dev.upd = "CONFIRMED"
    /\ job.status = "rolled_back" => dev.upd = "IDLE"

\* A SAFE that was pressed is sent, or the link is closed, whatever the worker was doing.
SafeIsSent == \A e \in 1 .. MAX_SAFES : epoch >= e ~> served >= e

\* A job that was stopped comes to an end: no wait, prompt, exchange or watch holds it.
StopEnds == (JobActive /\ cancel) ~> ~JobActive
=============================================================================
