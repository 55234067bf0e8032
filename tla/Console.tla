------------------------------ MODULE Console -------------------------------
(***************************************************************************)
(* Reception on the console, hal/target/console.c: the interrupt handler   *)
(* puts bytes into a ring, recognises SAFE lines on the way, and gives up  *)
(* the whole ring when it is full or the line is disturbed; the SAFE lines *)
(* it gave up are handed to the core again as text.  The core reads with   *)
(* the interrupt masked and puts the bytes together to lines as            *)
(* pump_channel of core.c does.                                            *)
(*                                                                         *)
(* Each byte and each read is one step.  WORD stands for the four letters  *)
(* of SAFE, in either case.                                                *)
(***************************************************************************)
EXTENDS Naturals, Sequences, FiniteSets, FiniteSetsExt

CONSTANTS RX_RING_SIZE, CMD_LINE_MAX, WORD, LETTERS, BLANK, CR, LF, NUL,
          RECOVERED_MAX, \* UINT16_MAX, the width of recovered_safe
          FEED,          \* bytes that may arrive
          CHUNKS,        \* sizes of the buffers the core reads with
          MAX_OWED       \* bound: the sender waits while so many lines are on their way

BYTES == LETTERS \cup {BLANK, CR, LF, NUL}
ASSUME ConsoleAssumption ==
  /\ RX_RING_SIZE \in Nat /\ RX_RING_SIZE >= 3
  /\ WORD \in Seq(LETTERS) /\ Len(WORD) \in 1 .. CMD_LINE_MAX /\ CMD_LINE_MAX \in Nat
  /\ LETTERS \cap {BLANK, CR, LF, NUL} = {}
  /\ BLANK \notin {CR, LF, NUL} /\ CR \notin {LF, NUL} /\ LF # NUL
  /\ RECOVERED_MAX \in Nat \ {0} /\ FEED \subseteq BYTES /\ CHUNKS \subseteq Nat \ {0} /\ MAX_OWED \in Nat

VARIABLES
  rx,      \* the receiver: ring, counters, recognizer
  partial, \* the core's unfinished line: its text, and whether it is spoilt
  line,    \* history: the same of the line the sender is in
  owed,    \* history: lines sent whole that the core has not got yet
  alien    \* history: the core got a line that it was not owed
vars == <<rx, partial, line, owed, alien>>

INVALID == Len(WORD) + 1
Empty == [text |-> <<>>, bad |-> FALSE]

TypeOK ==
  /\ rx.ring \in Seq([byte : BYTES, safe_end : BOOLEAN]) /\ Len(rx.ring) < RX_RING_SIZE
  /\ rx.queued_safe \in 0 .. RX_RING_SIZE - 1 /\ rx.recovered_safe \in 0 .. RECOVERED_MAX
  /\ rx.safe_state \in 0 .. INVALID /\ rx.line_len \in 0 .. CMD_LINE_MAX + 1
  /\ rx.discard_line \in BOOLEAN /\ rx.recovery_pos \in 0 .. Len(WORD) + 2
  /\ {partial.bad, line.bad, alien} \subseteq BOOLEAN
  /\ Len(partial.text) <= CMD_LINE_MAX /\ Len(line.text) <= CMD_LINE_MAX

-----------------------------------------------------------------------------
(* Lines as the core understands them.                                     *)

\* One byte of pump_channel that does not end the line.
Typed(l, b) == IF b = CR THEN l
               ELSE IF b = NUL \/ Len(l.text) = CMD_LINE_MAX THEN [l EXCEPT !.bad = TRUE]
               ELSE [l EXCEPT !.text = Append(@, b)]
\* cmd_is_safe_line: SAFE between blanks.
IsSafe(text) ==
  \E i \in 0 .. Len(text), j \in 0 .. Len(text) :
    text = [n \in 1 .. i |-> BLANK] \o WORD \o [n \in 1 .. j |-> BLANK]
LineOf(text) == IF IsSafe(text) THEN WORD ELSE text
Safes(lines) == Cardinality({i \in DOMAIN lines : lines[i] = WORD})

\* The core got this line: ordinary lines before it are lost, a SAFE may not be.
Position(lines, text) ==
  {i \in DOMAIN lines : lines[i] = text /\ \A n \in 1 .. i - 1 : lines[n] # WORD}
Got(s, text) == IF Position(s.owed, text) = {} THEN [s EXCEPT !.alien = TRUE]
                ELSE [s EXCEPT !.owed = SubSeq(@, Min(Position(@, text)) + 1, Len(@))]

\* A byte that reaches the core.
Fed(s, b) ==
  IF b # LF THEN [s EXCEPT !.partial = Typed(@, b)]
  ELSE LET ended == [s EXCEPT !.partial = Empty]
       IN IF s.partial.bad \/ s.partial.text = <<>> THEN ended ELSE Got(ended, LineOf(s.partial.text))

-----------------------------------------------------------------------------
(* The interrupt.                                                          *)

\* safe_byte: the recognizer after a byte that is not a line feed, and its verdict at one.
Longer(r) == Min({r.line_len + 1, CMD_LINE_MAX + 1})
Recognized(r, b) ==
  LET state == IF Longer(r) > CMD_LINE_MAX THEN INVALID ELSE r.safe_state
      after == CASE state \in {0, Len(WORD)} /\ b = BLANK -> state
                 [] state < Len(WORD) /\ b = WORD[state + 1] -> state + 1
                 [] OTHER -> INVALID
  IN IF b = CR THEN r ELSE [r EXCEPT !.line_len = Longer(r), !.safe_state = after]
Complete(r) == r.safe_state = Len(WORD) /\ r.line_len <= CMD_LINE_MAX
safe_byte(r, b) == IF b = LF THEN [r EXCEPT !.safe_state = 0, !.line_len = 0]
                   ELSE Recognized(r, b)

recover_safe(r, count) == [r EXCEPT !.recovered_safe = Min({RECOVERED_MAX, @ + count})]
rx_reject_NoPoison(r) == [recover_safe(r, r.queued_safe) EXCEPT
                            !.queued_safe = 0, !.discard_line = TRUE, !.ring = <<>>]
rx_reject(r) == [recover_safe(r, r.queued_safe) EXCEPT
                   !.queued_safe = 0, !.discard_line = TRUE,
                   !.ring = <<[byte |-> NUL, safe_end |-> FALSE]>>]
Full(r) == ~r.discard_line /\ Len(r.ring) = RX_RING_SIZE - 1
Stored(r, b, safe) == [r EXCEPT !.ring = Append(@, [byte |-> b, safe_end |-> safe]),
                                !.queued_safe = IF safe THEN @ + 1 ELSE @]

\* A line feed ends the discarding; a SAFE that ends there lost its beginning.
Resumed(r, safe) ==
  Stored([recover_safe(r, IF safe THEN 1 ELSE 0) EXCEPT !.discard_line = FALSE], LF, FALSE)
Received(r0, b) ==
  LET safe == b = LF /\ Complete(r0)
      seen == safe_byte(r0, b)
      r == IF Full(seen) THEN rx_reject(seen) ELSE seen
  IN CASE ~r.discard_line -> Stored(r, b, safe)
       [] r.discard_line /\ b # LF -> r
       [] OTHER -> Resumed(r, safe)

\* recovered_safe saturates: the SAFE lines beyond it are not owed any more.
Saturated(r, lines) ==
  LET Kept(i) == lines[i] # WORD \/ Safes(SubSeq(lines, 1, i)) <= r.queued_safe + r.recovered_safe
  IN IF r.recovered_safe < RECOVERED_MAX THEN lines
     ELSE [i \in DOMAIN lines |-> IF Kept(i) THEN lines[i] ELSE Empty.text]

Byte(b) ==
  /\ Len(owed) < MAX_OWED \/ b # LF
  /\ rx' = Received(rx, b)
  /\ line' = IF b = LF THEN Empty ELSE Typed(line, b)
  /\ owed' = Saturated(rx', IF b = LF /\ ~line.bad /\ line.text # <<>> THEN Append(owed, LineOf(line.text))
                           ELSE owed)
  /\ UNCHANGED <<partial, alien>>

\* Overrun, framing or noise: even a line feed is not to be trusted.
AfterError_Trusting(r) == rx_reject(r)
AfterError(r) == [rx_reject(r) EXCEPT !.safe_state = INVALID]
LineError ==
  /\ rx' = AfterError(rx)
  /\ line' = [line EXCEPT !.bad = TRUE]
  /\ owed' = Saturated(rx', owed)
  /\ UNCHANGED <<partial, alien>>

USART3_IRQHandler == LineError \/ \E b \in FEED : Byte(b)

-----------------------------------------------------------------------------
(* The core reads, with the interrupt masked.                              *)

RecoveryText == <<NUL, LF>> \o WORD \o <<LF>>

\* Recovered SAFE lines first; a buffer may end in the middle of one.
FromRecovery(r) ==
  LET last == r.recovery_pos = Len(RecoveryText) - 1
  IN [r EXCEPT !.recovery_pos = IF last THEN 0 ELSE @ + 1,
               !.recovered_safe = IF last THEN @ - 1 ELSE @]
FromRing(r) == [r EXCEPT !.ring = Tail(@),
                         !.queued_safe = IF Head(r.ring).safe_end THEN @ - 1 ELSE @]
ReadOne(s) ==
  IF s.rx.recovered_safe > 0
  THEN Fed([s EXCEPT !.rx = FromRecovery(@)], RecoveryText[s.rx.recovery_pos + 1])
  ELSE IF s.rx.ring # <<>> THEN Fed([s EXCEPT !.rx = FromRing(@)], Head(s.rx.ring).byte)
  ELSE s

hal_console_read(max) ==
  LET now == [rx |-> rx, partial |-> partial, owed |-> owed, alien |-> alien]
      after[n \in 0 .. max] == IF n = 0 THEN now ELSE ReadOne(after[n - 1])
  IN /\ rx.recovered_safe > 0 \/ rx.ring # <<>>
     /\ rx' = after[max].rx /\ partial' = after[max].partial
     /\ owed' = after[max].owed /\ alien' = after[max].alien
     /\ UNCHANGED line

-----------------------------------------------------------------------------
Init ==
  /\ rx = [ring |-> <<>>, discard_line |-> FALSE, queued_safe |-> 0, recovered_safe |-> 0,
           line_len |-> 0, recovery_pos |-> 0, safe_state |-> 0]
  /\ partial = Empty /\ line = Empty /\ owed = <<>> /\ alien = FALSE
Next == USART3_IRQHandler \/ \E max \in CHUNKS : hal_console_read(max)
Spec == Init /\ [][Next]_vars

\* Every SAFE line that was received whole is on its way to the core once: in the
\* ring, or recovered from a ring that was given up. So none is lost to an overflow
\* or a disturbed line, and none executed twice or made of pieces (rx_reject, safe_end).
SafeOnceOnly == Safes(owed) = rx.queued_safe + rx.recovered_safe

\* The state is well typed, and the core gets no line that was not sent whole, in the order
\* of sending, and a SAFE is never overtaken: neither a recovered SAFE nor what follows the
\* NUL of rx_reject continues a line whose beginning the core has taken already.
NothingPieced == TypeOK /\ ~alien
=============================================================================
