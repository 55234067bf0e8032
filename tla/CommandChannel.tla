--------------------------- MODULE CommandChannel ---------------------------
(***************************************************************************)
(* What a command channel promises its peer, whatever the sizes of the     *)
(* buffers behind it: complete lines are answered one at a time in the     *)
(* order they came, ERR:BUSY goes to exactly the lines that ended while a  *)
(* command was running, and an overflow may take lines away but never a    *)
(* complete SAFE.                                                          *)
(***************************************************************************)
EXTENDS Naturals, Sequences, FiniteSets

CONSTANTS BYTES, NUL, NL, SAFE_TEXT, CMD_LINE_MAX

VARIABLES pending,   \* complete lines not yet answered
          typed,     \* the line under way
          answering, \* the line being answered, if any
          executing  \* a command is running, on this or on the other channel

channelVars == <<pending, typed, answering, executing>>

KindOf(t) == IF t.bad THEN "bad"
             ELSE IF t.text = SAFE_TEXT THEN "safe"
             ELSE IF t.text = <<>> THEN "empty" ELSE "command"
\* SAFE is never refused; a damaged line is answered ERR:RANGE.
LineOf(t, busy) == [kind |-> KindOf(t), busy |-> busy /\ KindOf(t) \notin {"safe", "bad"}]

NewLine == [text |-> <<>>, bad |-> FALSE]
Damaged == [text |-> <<>>, bad |-> TRUE]
SafeLine == [kind |-> "safe", busy |-> FALSE]
Nothing == [kind |-> "none", verdict |-> "none"]

Verdict(line) == IF line.kind = "bad" THEN "RANGE" ELSE IF line.busy THEN "BUSY" ELSE "execute"

Typed(t, b) == IF t.bad \/ b = NUL \/ Len(t.text) = CMD_LINE_MAX
               THEN Damaged ELSE [t EXCEPT !.text = Append(@, b)]

Init == pending = <<>> /\ typed = NewLine /\ answering = Nothing /\ executing = FALSE

Receive(b) ==
  /\ IF b = NL
     THEN pending' = Append(pending, LineOf(typed, executing)) /\ typed' = NewLine
     ELSE typed' = Typed(typed, b) /\ UNCHANGED pending
  /\ UNCHANGED <<answering, executing>>

\* Lines behind the k-th are dropped, but for the SAFE among them.
Overflow(b) ==
  /\ \E k \in 0 .. Len(pending) :
       LET all == IF b = NL THEN Append(pending, LineOf(typed, executing)) ELSE pending
           lost == SubSeq(all, k + 1, Len(all))
           safes == Cardinality({i \in DOMAIN lost : lost[i].kind = "safe"})
       IN pending' = SubSeq(pending, 1, k) \o [i \in 1 .. safes |-> SafeLine]
                     \o (IF b = NL THEN <<LineOf(Damaged, executing)>> ELSE <<>>)
  /\ typed' = IF b = NL THEN NewLine ELSE Damaged
  /\ UNCHANGED <<answering, executing>>

Answer ==
  /\ pending # <<>> /\ answering = Nothing
  /\ answering' = [kind |-> Head(pending).kind, verdict |-> Verdict(Head(pending))]
  /\ pending' = Tail(pending)
  /\ executing' = (answering'.verdict = "execute")
  /\ UNCHANGED typed

Answered == /\ answering # Nothing
            /\ answering' = Nothing /\ executing' = FALSE
            /\ UNCHANGED <<pending, typed>>

\* The other channel starts or ends a command.
OtherExecutes == /\ answering = Nothing
                 /\ executing' = ~executing
                 /\ UNCHANGED <<pending, typed, answering>>

\* A new session, or the loss of the old one.
Reset == /\ pending' = <<>> /\ typed' = NewLine
         /\ UNCHANGED <<answering, executing>>

Next == \/ \E b \in BYTES : Receive(b) \/ Overflow(b)
        \/ Answer \/ Answered \/ OtherExecutes \/ Reset

Spec == Init /\ [][Next]_channelVars
=============================================================================
