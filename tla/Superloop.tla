----------------------------- MODULE Superloop ------------------------------
(***************************************************************************)
(* The superloop and its two command channels, core/core.c: rings, line    *)
(* queues, the service step nested in every wait, the lives of the TCP     *)
(* client, the arbitration between the channels and the writing of the     *)
(* replies.                                                                *)
(*                                                                         *)
(* A step of the loop ends where svc_poll may run; while `polling` holds   *)
(* svc_poll is taking in what the network and the console bring.  Text is  *)
(* abstracted to a few letters: SAFE_TEXT is SAFE, any other text of at    *)
(* most CMD_LINE_MAX letters is a command.                                 *)
(***************************************************************************)
EXTENDS Naturals, Sequences, SequencesExt, FiniteSetsExt

CONSTANTS RING_SIZE, LINE_QUEUE, CMD_LINE_MAX,
          LETTERS, NUL, NL, SAFE_TEXT,
          FEED,          \* bytes that may arrive on each channel
          RECOVERED_MAX, \* UINT16_MAX, the width of recovered_safe
          MAX_PENDING    \* bound: a source sends while fewer lines than this wait

CH == {"tcp", "console"}
BYTES == LETTERS \cup {NUL, NL}

ASSUME SuperloopAssumption ==
  /\ RING_SIZE \in Nat \ {0, 1} /\ LINE_QUEUE \in Nat \ {0} /\ CMD_LINE_MAX \in Nat \ {0}
  /\ SAFE_TEXT \in Seq(LETTERS) /\ Len(SAFE_TEXT) \in 1 .. CMD_LINE_MAX
  /\ NUL # NL /\ {NUL, NL} \cap LETTERS = {}
  /\ FEED \in [CH -> SUBSET BYTES]
  /\ MAX_PENDING \in [CH -> Nat]
  /\ RECOVERED_MAX \in Nat /\ \A ch \in CH : RECOVERED_MAX > MAX_PENDING[ch]

VARIABLES
  chan,            \* struct channel of each channel
  client_connected, accept_pending, client_lost,
  client_up,       \* the HAL has a TCP client
  executing, abort_requested, next_channel,
  console_resync,
  pc,              \* place in core_step, or in the command it runs
  polling,         \* svc_poll is under way
  expired,         \* the deadline of the wait in progress has passed
  current,         \* line being answered, its channel and what becomes of it
  part,            \* of its reply: "some" is out, or the client was tried
  line_open,       \* history: the console's last byte was not a line feed
  session,         \* history: "none", "new", "safe" once SAFE has run for it
  safe_during      \* history: a SAFE was completed during this command

client == <<client_connected, accept_pending, client_lost, client_up, session>>
run == <<executing, abort_requested, current, safe_during>>
reply == <<part, line_open, console_resync>>
vars == <<chan, client, run, next_channel, pc, polling, expired, reply>>

KindOf(text, bad) == IF bad THEN "bad"
                     ELSE IF text = SAFE_TEXT THEN "safe"
                     ELSE IF text = <<>> THEN "empty" ELSE "command"
LineOf(text, bad, busy) ==
  LET kind == KindOf(text, bad) IN [kind |-> kind, busy |-> busy /\ kind \notin {"safe", "bad"}]
SafeLine == [kind |-> "safe", busy |-> FALSE]
Kinds == {"bad", "safe", "empty", "command"}
Idle == [ch |-> "none", kind |-> "none", verdict |-> "none"]

Emptied == [ring |-> <<>>, partial |-> <<>>, partial_overflow |-> FALSE,
            ring_overflow |-> FALSE, recovered_safe |-> 0, queue |-> <<>>]

TypeOK ==
  /\ \A ch \in CH :
       /\ chan[ch].ring \in Seq([byte : BYTES, busy : BOOLEAN]) /\ Len(chan[ch].ring) < RING_SIZE
       /\ chan[ch].partial \in Seq(LETTERS) /\ Len(chan[ch].partial) <= CMD_LINE_MAX
       /\ chan[ch].partial_overflow \in BOOLEAN /\ chan[ch].ring_overflow \in BOOLEAN
       /\ chan[ch].recovered_safe \in 0 .. RECOVERED_MAX
       /\ chan[ch].queue \in Seq([kind : Kinds, busy : BOOLEAN])
       /\ Len(chan[ch].queue) <= LINE_QUEUE
  /\ {client_connected, accept_pending, client_lost, client_up} \subseteq BOOLEAN
  /\ {executing, abort_requested, polling, expired, console_resync, line_open, safe_during}
       \subseteq BOOLEAN
  /\ next_channel \in CH
  /\ pc \in {"top", "lostSafe", "acceptSafe", "dispatch", "run", "reply"}
  /\ current.ch \in CH \cup {"none"}
  /\ current.verdict \in {"none", "RANGE", "BUSY", "execute"}
  /\ part \in {"none", "some"} /\ session \in {"none", "new", "safe"}

-----------------------------------------------------------------------------
(* Bytes to lines.                                                         *)

\* One byte of pump_channel, and of buffered_safe_count.
Parse1(p, r) ==
  CASE r.byte = NL -> [text |-> <<>>, bad |-> FALSE,
                       lines |-> Append(p.lines, LineOf(p.text, p.bad, r.busy))]
    [] r.byte # NL /\ (r.byte = NUL \/ Len(p.text) = CMD_LINE_MAX) -> [p EXCEPT !.bad = TRUE]
    [] OTHER -> [p EXCEPT !.text = Append(@, r.byte)]
Parse(c, bytes) ==
  LET p[n \in 0 .. Len(bytes)] ==
        IF n = 0 THEN [text |-> c.partial, bad |-> c.partial_overflow, lines |-> <<>>]
        ELSE Parse1(p[n - 1], bytes[n])
  IN p[Len(bytes)]

Safes(lines) == Cardinality({i \in DOMAIN lines : lines[i].kind = "safe"})
buffered_safe_count(c, extra) == Safes(Parse(c, c.ring \o extra).lines)

\* ring_push of one byte: what the channel becomes, and whether SAFE was seen.
Overflowing(c, b) == /\ ~c.ring_overflow \/ b = NL
                     /\ Len(c.ring) = RING_SIZE - 1
Arriving(b) == [byte |-> b, busy |-> executing]
Pushed_DropsSafe(c, b) ==
  CASE c.ring_overflow /\ b # NL -> c
    [] Overflowing(c, b) -> [Emptied EXCEPT !.queue = c.queue,
                               !.recovered_safe = c.recovered_safe,
                               !.partial_overflow = TRUE,
                               !.ring_overflow = b # NL,
                               !.ring = IF b = NL THEN <<Arriving(b)>> ELSE <<>>]
    [] OTHER -> [c EXCEPT !.ring_overflow = FALSE, !.ring = Append(@, Arriving(b))]
Pushed(c, b) ==
  CASE c.ring_overflow /\ b # NL -> c
    [] Overflowing(c, b) -> [Emptied EXCEPT !.queue = c.queue,
                               !.recovered_safe = Min({RECOVERED_MAX, c.recovered_safe
                                   + buffered_safe_count(c, <<Arriving(b)>>)}),
                               !.partial_overflow = TRUE,
                               !.ring_overflow = b # NL,
                               !.ring = IF b = NL THEN <<Arriving(b)>> ELSE <<>>]
    [] OTHER -> [c EXCEPT !.ring_overflow = FALSE, !.ring = Append(@, Arriving(b))]

\* pump_channel: rescued SAFE lines first, then lines until the queue is full.
Rescued(c) == Min({c.recovered_safe, LINE_QUEUE - Len(c.queue)})
Taken(c) ==
  LET free == LINE_QUEUE - Len(c.queue) - Rescued(c)
      Ends(n) == Cardinality({i \in 1 .. n : c.ring[i].byte = NL})
  IN Max({n \in 0 .. Len(c.ring) : n = 0 \/ Ends(n - 1) < free})
Pumped(c) ==
  LET p == Parse(c, SubSeq(c.ring, 1, Taken(c))) IN
  [c EXCEPT !.queue = @ \o [i \in 1 .. Rescued(c) |-> SafeLine] \o p.lines,
            !.recovered_safe = @ - Rescued(c),
            !.partial = p.text, !.partial_overflow = p.bad,
            !.ring = SubSeq(@, Taken(c) + 1, Len(@))]

\* A SAFE found on the way to the queue, or still behind a full one.
SafeSeen_QueueOnly(c) ==
  Rescued(c) > 0 \/ Safes(Parse(c, SubSeq(c.ring, 1, Taken(c))).lines) > 0
SafeSeen(c) == Rescued(c) > 0 \/ buffered_safe_count(c, <<>>) > 0

-----------------------------------------------------------------------------
(* What a channel owes its peer.                                           *)

Pending(ch) ==
  LET c == chan[ch] IN
  c.queue \o [i \in 1 .. c.recovered_safe |-> SafeLine] \o Parse(c, c.ring).lines

TypedLine(ch) ==
  LET c == chan[ch]
      p == Parse(c, c.ring)
  IN IF c.ring_overflow \/ p.bad THEN [text |-> <<>>, bad |-> TRUE]
     ELSE [text |-> p.text, bad |-> FALSE]

-----------------------------------------------------------------------------
(* svc_poll: the network, then the console, then both pumps.               *)

ByteArrives(ch, b) ==
  /\ polling /\ b \in FEED[ch] /\ (ch = "tcp" => client_up)
  /\ Len(Pending(ch)) < MAX_PENDING[ch]
  /\ chan' = [chan EXCEPT ![ch] = Pushed(@, b)]
  /\ abort_requested' = \/ abort_requested
                        \/ /\ executing /\ Overflowing(chan[ch], b)
                           /\ buffered_safe_count(chan[ch], <<Arriving(b)>>) > 0
  /\ safe_during' = \/ safe_during
                    \/ executing /\ b = NL /\ KindOf(TypedLine(ch).text, TypedLine(ch).bad) = "safe"
  /\ UNCHANGED <<client, executing, current, next_channel, pc, polling, expired, reply>>

\* core_net_on_accept; a second client is answered ERR:BUSY by the HAL.
MayAccept_HalFree == ~accept_pending /\ ~client_up
MayAccept == ~client_connected /\ ~accept_pending /\ ~client_lost
NetAccept ==
  /\ polling /\ MayAccept
  /\ chan' = [chan EXCEPT !["tcp"] = Emptied]
  /\ accept_pending' = TRUE /\ client_up' = TRUE /\ session' = "new"
  /\ UNCHANGED <<client_connected, client_lost, run, next_channel, pc, polling, expired, reply>>

NetClosed ==
  /\ polling /\ client_up
  /\ client_up' = FALSE /\ client_lost' = TRUE
  /\ UNCHANGED <<chan, client_connected, accept_pending, session, run, next_channel, pc, polling,
                 expired, reply>>

Pump ==
  /\ polling /\ polling' = FALSE
  /\ chan' = [ch \in CH |-> Pumped(chan[ch])]
  /\ abort_requested' = (abort_requested \/ (executing /\ \E ch \in CH : SafeSeen(chan[ch])))
  /\ UNCHANGED <<client, executing, current, safe_during, next_channel, pc, expired, reply>>

\* The clock reaches the deadline of the wait in progress.
Tick ==
  /\ pc \in {"lostSafe", "acceptSafe", "run", "reply"} /\ ~expired
  /\ expired' = TRUE
  /\ UNCHANGED <<chan, client, run, next_channel, pc, polling, reply>>

-----------------------------------------------------------------------------
(* core_step.                                                              *)

had_client_Connected == client_connected
had_client == client_connected \/ accept_pending

\* The loss of the client comes first, then a client that has just arrived;
\* both run safe_enter, which waits for DC-OK with svc_poll.
LostFirst ==
  /\ pc = "top" /\ ~polling
  /\ IF client_lost
     THEN /\ client_lost' = FALSE /\ accept_pending' = FALSE
          /\ IF had_client
             THEN /\ pc' = "lostSafe" /\ expired' = FALSE
                  /\ client_connected' = FALSE /\ session' = "none"
                  /\ chan' = [chan EXCEPT !["tcp"] = Emptied]
             ELSE /\ pc' = "dispatch" /\ UNCHANGED <<client_connected, session, chan, expired>>
     ELSE /\ accept_pending' = FALSE
          /\ client_connected' = (client_connected \/ accept_pending)
          /\ IF accept_pending THEN pc' = "acceptSafe" /\ expired' = FALSE
             ELSE pc' = "dispatch" /\ UNCHANGED expired
          /\ UNCHANGED <<client_lost, session, chan>>
  /\ UNCHANGED <<client_up, run, next_channel, polling, reply>>

SafePoll ==
  /\ pc \in {"lostSafe", "acceptSafe"} /\ ~polling /\ ~expired
  /\ polling' = TRUE
  /\ UNCHANGED <<chan, client, run, next_channel, pc, expired, reply>>

LostSafeDone ==
  /\ pc = "lostSafe" /\ ~polling
  /\ accept_pending' = FALSE
  /\ client_connected' = accept_pending
  /\ IF accept_pending THEN pc' = "acceptSafe" /\ expired' = FALSE
     ELSE pc' = "dispatch" /\ UNCHANGED expired
  /\ UNCHANGED <<chan, client_lost, client_up, session, run, next_channel, polling, reply>>

\* The SAFE of a new client ends: what it sent meanwhile is pumped.
AcceptSafeDone ==
  /\ pc = "acceptSafe" /\ ~polling
  /\ session' = "safe"
  /\ chan' = [chan EXCEPT !["tcp"] = Pumped(@)]
  /\ pc' = "dispatch"
  /\ UNCHANGED <<client_connected, accept_pending, client_lost, client_up, run, next_channel,
                 polling, expired, reply>>

Verdict(line) == IF line.kind = "bad" THEN "RANGE" ELSE IF line.busy THEN "BUSY" ELSE "execute"

\* The channel whose turn it is, or the other one if it has nothing.
Servable(ch) == chan[ch].queue # <<>> /\ (ch = "tcp" => client_connected)
Turn_TcpFirst == IF Servable("tcp") THEN "tcp" ELSE "console"
Turn == IF Servable(next_channel) THEN next_channel
        ELSE CHOOSE ch \in CH : ch # next_channel

Dispatch ==
  /\ pc = "dispatch" /\ Servable(Turn)
  /\ LET line == Head(chan[Turn].queue)
         verdict == Verdict(line)
     IN /\ current' = [ch |-> Turn, kind |-> line.kind, verdict |-> verdict]
        /\ executing' = (verdict = "execute")
        /\ pc' = IF verdict = "execute" THEN "run" ELSE "reply"
  /\ chan' = [chan EXCEPT ![Turn].queue = Tail(@)]
  /\ next_channel' \in CH \ {Turn}
  /\ abort_requested' = FALSE /\ safe_during' = FALSE
  /\ expired' = FALSE /\ part' = "none"
  /\ UNCHANGED <<client, polling, line_open, console_resync>>

NothingToDo ==
  /\ pc = "dispatch" /\ ~Servable(Turn)
  /\ pc' = "top" /\ polling' = TRUE
  /\ UNCHANGED <<chan, client, run, next_channel, expired, reply>>

-----------------------------------------------------------------------------
(* A command runs, with svc_poll in its waits, then its reply is written.  *)

EndLine ==
  /\ pc' = "top" /\ polling' = TRUE
  /\ executing' = FALSE /\ abort_requested' = FALSE /\ safe_during' = FALSE /\ current' = Idle

\* A wait polls until its time is over.  A command whose poll reported SAFE leaves its waits,
\* but may poll again before it ends (service, sections.c:32); SAFE itself goes on.
RunPoll ==
  /\ pc = "run" /\ ~polling /\ ~expired /\ current.kind # "empty"
  /\ polling' = TRUE
  /\ UNCHANGED <<chan, client, run, next_channel, pc, expired, reply>>

RunEnds ==
  /\ pc = "run" /\ ~polling
  /\ IF current.kind = "empty"
     THEN EndLine
     ELSE pc' = "reply" /\ UNCHANGED <<run, polling>>
  /\ expired' = FALSE
  /\ UNCHANGED <<chan, client, next_channel, reply>>

\* channel_write to the client: all of the frame, or some of it and a poll.
TcpWrite ==
  /\ pc = "reply" /\ ~polling /\ current.ch = "tcp"
  /\ \/ /\ ~client_connected \/ client_lost
        /\ EndLine /\ UNCHANGED <<client, part>>
     \/ /\ client_connected /\ ~client_lost
        /\ \/ EndLine /\ UNCHANGED <<client, part>>
           \/ /\ expired \/ (abort_requested /\ part = "some")
              /\ client_up' = FALSE /\ client_lost' = TRUE
              /\ EndLine
              /\ UNCHANGED <<client_connected, accept_pending, session, part>>
           \/ /\ ~expired /\ ~(abort_requested /\ part = "some")
              /\ part' = "some" /\ polling' = TRUE
              /\ UNCHANGED <<client, run, pc>>
  /\ UNCHANGED <<chan, next_channel, expired, line_open, console_resync>>

\* A console frame that was cut is closed by a line feed before the next one.
Stalled_NoResync == EndLine /\ UNCHANGED reply
Stalled == EndLine /\ console_resync' = TRUE /\ UNCHANGED <<part, line_open>>
ConsoleWrite ==
  /\ pc = "reply" /\ ~polling /\ current.ch = "console"
  /\ \/ expired /\ Stalled
     \/ /\ console_resync /\ ~expired
        /\ \E taken \in BOOLEAN : /\ console_resync' = ~taken
                                  /\ line_open' = (line_open /\ ~taken)
        /\ polling' = TRUE /\ UNCHANGED <<run, pc, part>>
     \/ ~console_resync /\ line_open' = FALSE /\ EndLine /\ UNCHANGED <<part, console_resync>>
     \/ /\ ~console_resync /\ ~expired
        /\ \/ part' = "some" /\ line_open' = TRUE
           \/ UNCHANGED <<part, line_open>>
        /\ polling' = TRUE /\ UNCHANGED <<run, pc, console_resync>>
  /\ UNCHANGED <<chan, client, next_channel, expired>>

-----------------------------------------------------------------------------

Init ==
  /\ chan = [ch \in CH |-> Emptied]
  /\ client_connected = FALSE /\ accept_pending = FALSE /\ client_lost = FALSE
  /\ client_up = FALSE /\ session = "none"
  /\ executing = FALSE /\ abort_requested = FALSE /\ current = Idle /\ safe_during = FALSE
  /\ next_channel = "console"
  /\ pc = "top" /\ polling = TRUE /\ expired = FALSE
  /\ part = "none" /\ line_open = FALSE /\ console_resync = FALSE

Loop == \/ Pump
        \/ LostFirst \/ SafePoll \/ LostSafeDone \/ AcceptSafeDone
        \/ Dispatch \/ NothingToDo
        \/ RunPoll \/ RunEnds \/ TcpWrite \/ ConsoleWrite

Environment == \/ \E ch \in CH, b \in BYTES : ByteArrives(ch, b)
               \/ NetAccept \/ NetClosed

Next == Loop \/ Tick \/ Environment

Spec == Init /\ [][Next]_vars

\* The loop runs and the clock goes on; the peers owe nothing.
FairSpec == Spec /\ WF_vars(Loop) /\ WF_vars(Tick)

-----------------------------------------------------------------------------
(* Properties.                                                             *)

\* A SAFE completed while a command runs, on either channel and wherever it
\* had to be kept, is known to the command after the next poll; and a command is
\* not stopped for nothing: the SAFE it made way for is still there to be answered.
SafeAborts ==
  /\ executing /\ ~polling /\ safe_during => abort_requested
  /\ abort_requested =>
       \E ch \in CH : \E i \in DOMAIN Pending(ch) : Pending(ch)[i].kind = "safe"

\* Nothing that a client sent is answered before the SAFE its connection
\* causes has run to its end.
SafeBeforeClient == current.ch = "tcp" => session = "safe"

\* The state is well typed, and the console's output never joins the end of a cut frame
\* to the next one.
FramesKeptApart ==
  /\ TypeOK
  /\ line_open => \/ console_resync
                  \/ pc = "reply" /\ current.ch = "console" /\ part = "some"

AnswerOn(ch) == IF current.ch = ch THEN [kind |-> current.kind, verdict |-> current.verdict]
                ELSE [kind |-> "none", verdict |-> "none"]
Tcp == INSTANCE CommandChannel WITH
  pending <- Pending("tcp"), typed <- TypedLine("tcp"), answering <- AnswerOn("tcp")
Console == INSTANCE CommandChannel WITH
  pending <- Pending("console"), typed <- TypedLine("console"), answering <- AnswerOn("console")

\* Rings, queues and overflows keep the promise of the channel: order, ERR:BUSY
\* for the right lines, and no SAFE lost.
ImplementsChannel == Tcp!Spec /\ Console!Spec

\* "SAFE came during the command: the SAFE line itself is in the queue and runs
\* next" (core.c:474): no other command runs before it.
SafeRunsNext ==
  [][current.kind = "command" /\ abort_requested /\ ~executing' /\ ~client_lost' /\ Servable(Turn)
       => LET next == Head(chan[Turn].queue)
          IN Verdict(next) = "execute" => next.kind # "command"]_vars

\* A client that is gone brings the board to its safe state, also when it
\* left before the loop had noticed it.
LossMakesSafe == client_lost ~> pc = "lostSafe"

\* Whatever the client does, a line of the console gets its turn.
ConsoleServed == chan["console"].queue # <<>> ~> current.ch = "console"
=============================================================================
