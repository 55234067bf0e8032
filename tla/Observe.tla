------------------------------- MODULE Observe -------------------------------
(***************************************************************************)
(* What the board notices by itself and how it tells: svc_poll watches the *)
(* lines, the network and the USER button (DutLines, NetAddress) and logs  *)
(* what it sees (Errlog); DUT:STAT?, SYST:LOG? and SYST:ERR? stream replies *)
(* longer than their buffer, and every write of a reply runs svc_poll      *)
(* again, core/cmd.c and core/core.c.                                      *)
(*                                                                         *)
(* A step of a reply ends where a full buffer may be written.              *)
(***************************************************************************)
EXTENDS DutLines, NetAddress, Errlog, Sequences

CONSTANTS LOG_DEPTH, ERR_STACK_DEPTH,
          MAX_CHANGES  \* bound: commands, and what hands, cables and servers do

ASSUME ObserveAssumption == {LOG_DEPTH, ERR_STACK_DEPTH} \subseteq Nat \ {0}

VARIABLES
  dut, net, button, \* DutLines and NetAddress
  logs, errs,       \* the rings
  logged, pushed,   \* history: how many entries each ring has been given
  hands, cable, user, \* lines raised, cable plugged, USER button pressed, from outside
  reply,            \* the reply under way
  told,             \* history: lines the last DUT:STAT? showed MANUAL that nobody drove since
  reported,         \* history: the last error that was reported
  tries,            \* history: writes of the settings since a poll saw USER released
  changes           \* how much of the bound is used

outside == <<hands, cable, user>>
rings == <<logs, errs, logged, pushed>>
history == <<told, reported, tries>>
vars == <<dut, net, button, rings, outside, reply, history, changes>>

\* core_step polls before it takes a line; kind of the reply, entries to write and written, the entry in hand and what was
\* logged since it was taken, the snapshot of DUT:STAT?, whether the channel is gone.
NoReply == [kind |-> "none", polled |-> FALSE, n |-> 0, i |-> 0, e |-> 0, in_hand |-> FALSE, burst |-> 0,
            overrun |-> FALSE, out |-> <<>>, pressed |-> {}, on |-> {}, flag |-> FALSE,
            closed |-> FALSE]

TypeOK ==
  /\ IsDut(dut) /\ IsNet(net) /\ IsButton(button)
  /\ logs.count \in 0 .. LOG_DEPTH /\ logs.head \in 0 .. LOG_DEPTH - 1
  /\ errs.count \in 0 .. ERR_STACK_DEPTH /\ errs.head \in 0 .. ERR_STACK_DEPTH - 1
  /\ reply.kind \in {"none", "log", "err", "stat"} /\ reply.i \in 0 .. reply.n

-----------------------------------------------------------------------------
(* The log and the error stack.                                            *)

PushedAll(r, depth, first, n) ==
  LET f[k \in 0 .. n] == IF k = 0 THEN r ELSE Pushed(f[k - 1], depth, first + k)
  IN f[n]
log_events(n) ==
  /\ logs' = PushedAll(logs, LOG_DEPTH, logged, n) /\ logged' = logged + n
err_pushes(n) ==
  /\ errs' = PushedAll(errs, ERR_STACK_DEPTH, pushed, n) /\ pushed' = pushed + n

-----------------------------------------------------------------------------
(* svc_poll, in the loop and in every write of a reply.                    *)

Writing == reply.kind # "none" /\ ~reply.closed /\ ~(reply.in_hand /\ reply.i = 0)

\* USER was held and its settings are saved: the board restarts with the defaults.
hal_reset ==
  /\ dut' = dut_init /\ net' = netcfg_start(FALSE, "default") /\ button' = Released
  /\ logs' = Pushed(Unused(LOG_DEPTH), LOG_DEPTH, 1) /\ logged' = 1
  /\ errs' = Unused(ERR_STACK_DEPTH) /\ pushed' = 0
  /\ reply' = NoReply /\ told' = {} /\ reported' = 0 /\ tries' = 0

Bit(b) == IF b THEN 1 ELSE 0
svc_poll ==
  /\ reply.kind = "none" \/ Writing
  /\ \E up \in {net.link, cable}, saved \in BOOLEAN, alarm \in BOOLEAN :
       /\ changes' = changes + Bit(alarm) /\ changes' <= MAX_CHANGES
       /\ LET d == dut_poll(dut, hands)
              n == hal_net_poll(net, up)
              b == Seen(button, user)
              events == DutEvents(dut, d) + Bit(alarm) + Bit(FallsBack(n)) + Bit(Held(b))
          IN IF Held(b) /\ saved THEN hal_reset
             ELSE /\ ~saved
                  /\ dut' = d /\ net' = Fallback(n) /\ button' = Attempted(b)
                  /\ log_events(events) /\ err_pushes(Bit(alarm) + Bit(Held(b)))
                  /\ reply' = [reply EXCEPT !.polled = reply.kind = "none",
                                !.burst = IF reply.in_hand THEN @ + events ELSE 0]
                  /\ tries' = (IF user THEN tries ELSE 0) + Bit(Held(b))
                  /\ UNCHANGED <<told, reported>>
  /\ UNCHANGED outside

\* A write fails: the channel takes no more of this reply, which is made to its end.
WriteFails ==
  /\ Writing /\ reply' = [reply EXCEPT !.closed = TRUE]
  /\ UNCHANGED <<dut, net, button, rings, outside, history, changes>>

-----------------------------------------------------------------------------
(* Commands.                                                               *)

Change == changes < MAX_CHANGES /\ changes' = changes + 1
Idle == reply.kind = "none" /\ reply.polled

\* DUT:SET of some lines; DUT:OFF:ALL and SAFE release them all.  The command is logged too.
cmd_dut_set(mask, on) ==
  /\ Idle /\ Change
  /\ dut' = set_lines(dut, mask, on)
  /\ log_events(1 + DutEvents(dut, set_lines(dut, mask, on)))
  /\ told' = told \ Flipped(dut.dut_lines, dut'.dut_lines)
  /\ reply' = NoReply
  /\ UNCHANGED <<net, button, errs, pushed, outside, reported, tries>>

\* A command that is refused: resp_err.
Refused ==
  /\ Idle /\ Change
  /\ log_events(1) /\ err_pushes(1) /\ reply' = NoReply
  /\ UNCHANGED <<dut, net, button, outside, history>>

\* DUT:STAT? takes its snapshot before it writes.
cmd_dut_stat ==
  /\ Idle
  /\ reply' = [NoReply EXCEPT !.kind = "stat", !.on = dut.dut_lines, !.pressed = dut.manual,
                              !.flag = dut.intervention]
  /\ dut' = [dut EXCEPT !.intervention = FALSE]
  /\ UNCHANGED <<net, button, rings, outside, history, changes>>

h_syst_log ==
  /\ Idle
  /\ reply' = [NoReply EXCEPT !.kind = "log", !.n = logs.count]
  /\ UNCHANGED <<dut, net, button, rings, outside, history, changes>>
\* The pointer is taken, the separator put, and only then the entry is read.
LogTakes ==
  /\ reply.kind = "log" /\ ~reply.in_hand /\ reply.i < reply.n
  /\ reply' = [reply EXCEPT !.e = Place(logs, LOG_DEPTH, reply.i), !.in_hand = TRUE, !.burst = 0]
  /\ UNCHANGED <<dut, net, button, rings, outside, history, changes>>
LogPuts ==
  /\ reply.kind = "log" /\ reply.in_hand
  /\ reply' = [reply EXCEPT !.out = Append(@, logs.items[reply.e]), !.i = @ + 1,
                            !.in_hand = FALSE, !.burst = 0,
                            !.overrun = @ \/ reply.burst > reply.i]
  /\ UNCHANGED <<dut, net, button, rings, outside, history, changes>>

h_syst_err ==
  /\ Idle
  /\ reply' = [NoReply EXCEPT !.kind = "err"]
  /\ UNCHANGED <<dut, net, button, rings, outside, history, changes>>
ErrPuts ==
  /\ reply.kind = "err" /\ errs.count > 0
  /\ errs' = err_pop(errs, ERR_STACK_DEPTH)
  /\ reply' = [reply EXCEPT !.out = Append(@, errs.items[Place(errs, ERR_STACK_DEPTH, 0)])]
  /\ UNCHANGED <<dut, net, button, logs, logged, pushed, outside, history, changes>>

resp_end ==
  /\ \/ reply.kind = "log" /\ ~reply.in_hand /\ reply.i = reply.n
     \/ reply.kind = "err" /\ errs.count = 0
     \/ reply.kind = "stat"
  /\ reply' = NoReply
  /\ told' = IF reply.kind = "stat" THEN reply.pressed ELSE told
  /\ reported' = IF reply.kind = "err" /\ ~reply.closed /\ reply.out # <<>>
                 THEN reply.out[Len(reply.out)] ELSE reported
  /\ UNCHANGED <<dut, net, button, rings, outside, tries, changes>>

-----------------------------------------------------------------------------
(* Hands on the device and the button, the cable, the server, the clock.   *)

Outside ==
  /\ Change
  /\ \/ \E l \in LINES : hands' = Flipped(hands, {l}) /\ UNCHANGED <<cable, user, net>>
     \/ cable' = ~cable /\ UNCHANGED <<hands, user, net>>
     \/ user' = ~user /\ UNCHANGED <<hands, cable, net>>
     \/ net.running /\ net' = Unleased(net) /\ UNCHANGED outside
  /\ UNCHANGED <<dut, button, rings, reply, history>>
ServerAnswers ==
  /\ net.running /\ net.link /\ net' = Leased(net)
  /\ UNCHANGED <<dut, button, rings, outside, reply, history, changes>>

Tick ==
  /\ dut' = DutAges(dut) /\ net' = NetAges(net) /\ button' = ButtonAges(button)
  /\ UNCHANGED <<rings, outside, reply, history, changes>>

Init ==
  /\ dut = dut_init /\ button = Released
  /\ \E dhcp \in BOOLEAN : net = netcfg_start(dhcp, "own")
  /\ logs = Pushed(Unused(LOG_DEPTH), LOG_DEPTH, 1) /\ logged = 1
  /\ errs = Unused(ERR_STACK_DEPTH) /\ pushed = 0
  /\ hands = {} /\ cable = FALSE /\ user = FALSE
  /\ reply = NoReply /\ told = {} /\ reported = 0
  /\ tries = 0 /\ changes = 0

Commands ==
  \/ \E mask \in SUBSET LINES \ {{}}, on \in BOOLEAN : cmd_dut_set(mask, on)
  \/ Refused
  \/ cmd_dut_stat \/ h_syst_log \/ h_syst_err
Streams == LogTakes \/ LogPuts \/ ErrPuts \/ resp_end

Next == svc_poll \/ WriteFails \/ Commands \/ Streams \/ Outside \/ ServerAnswers \/ Tick
Spec == Init /\ [][Next]_vars

-----------------------------------------------------------------------------
(* Properties.                                                             *)

\* A DUT:STAT? reply without the INTERVENTION flag may be trusted: every line that was not
\* driven in between is as the reply before it showed it, whatever was pressed while that
\* one was streamed (cmd_dut_stat, dut_poll).
QuietMeansUnchanged == reply.kind = "stat" /\ ~reply.flag => reply.pressed = told

Rising(s) == \A i \in 2 .. Len(s) : s[i - 1] < s[i]

\* The state is well typed, and SYST:LOG? shows entries from the oldest to the newest and none twice although the ring
\* turns while it is streamed, unless one write brought more entries than were shown
\* before it (the pointer of log_at is older than the write); SYST:ERR? shows an error
\* once, in one reply, in the order of their occurrence.
ReportsInOrder ==
  /\ TypeOK
  /\ reply.kind = "log" /\ ~reply.overrun => Rising(reply.out)
  /\ reply.kind = "err" => Rising(<<reported>> \o reply.out)

\* An address of its own or by default is announced whenever the line is up, in whatever
\* order line, address and server came, and a board that fell back keeps the address it
\* announced: no late lease replaces it (apply_static, hal_net_poll, netcfg_poll).
AddressHolds ==
  /\ net.link /\ net.addr \in {"own", "default"} => net.announced
  /\ net.dhcp_fallback_done => net.addr = "default" /\ ~net.running

\* However long USER is held over a flash that fails, and whatever is polled meanwhile, the
\* settings are written once for a press (netcfg_poll).
OneTryPerPress == tries <= 1
=============================================================================
