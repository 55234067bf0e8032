--------------------------- MODULE ConsoleProofs ----------------------------
(***************************************************************************)
(* What reception on the console promises, for every size of the ring and  *)
(* of a line, every word in place of SAFE and every order of bytes,        *)
(* errors and reads.                                                       *)
(*                                                                         *)
(* The inductive invariant follows each line twice.  On the side of the    *)
(* interrupt, the state of the recognizer says which prefix of a SAFE line *)
(* the sender is in.  On the side of the core, there is a state of the     *)
(* unfinished line at each byte of the ring and, at each line feed that    *)
(* ends a line, the owed line that it ends; the SAFE lines owed before it  *)
(* are the recovered ones and those that end before it in the ring.  While *)
(* the receiver discards, the ring holds the NUL of rx_reject or the core  *)
(* has taken it.                                                           *)
(***************************************************************************)
EXTENDS Console, TLAPS, FiniteSetTheorems, NaturalsInduction, WellFoundedInduction

W == Len(WORD)
Entries == [byte : BYTES, safe_end : BOOLEAN]
Texts == Seq(BYTES)
Lines == {l \in [text : Texts, bad : BOOLEAN] : Len(l.text) <= CMD_LINE_MAX}
Receivers ==
  {r \in [ring : Seq(Entries), discard_line : BOOLEAN, queued_safe : Nat,
          recovered_safe : 0 .. RECOVERED_MAX, line_len : 0 .. CMD_LINE_MAX + 1,
          recovery_pos : 0 .. W + 2, safe_state : 0 .. INVALID] : Len(r.ring) < RX_RING_SIZE}

\* The text is blanks, the first st letters of WORD and, after the whole of it, blanks.
ReachedAt(st, text, i) ==
  /\ i + st <= Len(text) /\ (st < W => i + st = Len(text))
  /\ \A n \in 1 .. Len(text) :
       text[n] = IF n > i /\ n <= i + st THEN WORD[n - i] ELSE BLANK
Reached(st, text) == \E i \in 0 .. Len(text) : ReachedAt(st, text, i)

\* The recognizer knows where the line of the sender stands.
Recog(r, l) ==
  \/ /\ r.safe_state \in 0 .. W /\ ~l.bad
     /\ r.line_len = Len(l.text) /\ Reached(r.safe_state, l.text)
  \/ /\ r.safe_state = INVALID
     /\ l.bad \/ \A st \in 0 .. W : ~Reached(st, l.text)

\* A recovered SAFE line that the core has begun to take.
Recovering(r, p) ==
  /\ r.recovery_pos > 0 => r.recovered_safe > 0
  /\ r.recovery_pos = 1 => p.bad
  /\ r.recovery_pos > 1 => ~p.bad /\ p.text = SubSeq(WORD, 1, r.recovery_pos - 2)

\* While bytes are discarded the core's line is spoilt, or the NUL that spoils it waits.
Discarding(r, p) ==
  /\ r.queued_safe = 0
  /\ \/ r.ring = <<[byte |-> NUL, safe_end |-> FALSE]>>
     \/ r.ring = <<>> /\ r.recovered_safe = 0 /\ p.bad

\* Members of A up to n.
Below(A, n) == Cardinality({k \in A : k <= n})
Words(lines) == {i \in DOMAIN lines : lines[i] = WORD}
Ends(ring) == {i \in DOMAIN ring : ring[i].safe_end}

After(l, b) == IF b = LF THEN Empty ELSE Typed(l, b)
Counts(l) == ~l.bad /\ l.text # <<>>

\* Byte i of the ring leads from line s[i - 1] to s[i] and ends the owed line f[i], if any.
Sent(r, o, s, f, i) ==
  /\ s[i] = After(s[i - 1], r.ring[i].byte)
  /\ f[i] # 0 <=> (r.ring[i].byte = LF /\ Counts(s[i - 1]))
  /\ f[i] = 0 => ~r.ring[i].safe_end
  /\ f[i] # 0 => /\ o[f[i]] = LineOf(s[i - 1].text)
                 /\ r.ring[i].safe_end <=> o[f[i]] = WORD
                 /\ Below(Words(o), f[i] - 1) = r.recovered_safe + Below(Ends(r.ring), i - 1)
Rising(f, n) == \A i, j \in 1 .. n : i < j /\ f[i] # 0 /\ f[j] # 0 => f[i] < f[j]
Tracked(r, p, o, l, s, f) ==
  /\ s \in [0 .. Len(r.ring) -> Lines] /\ f \in [1 .. Len(r.ring) -> 0 .. Len(o)]
  /\ s[0] = IF r.recovered_safe > 0 THEN Empty ELSE p
  /\ s[Len(r.ring)] = l
  /\ \A i \in 1 .. Len(r.ring) : Sent(r, o, s, f, i)
  /\ Rising(f, Len(r.ring))
  /\ r.queued_safe = Cardinality(Ends(r.ring))
Following(r, p, o, l) == \E s, f : Tracked(r, p, o, l, s, f)

Typing(r, p, o, l) == r \in Receivers /\ p \in Lines /\ o \in Seq(Texts) /\ l \in Lines
Consistent(r, p, o, a, l) ==
  /\ Typing(r, p, o, l) /\ a = FALSE
  /\ Recog(r, l) /\ Recovering(r, p)
  /\ r.discard_line => Discarding(r, p)
  /\ ~r.discard_line => Following(r, p, o, l)
  /\ Safes(o) = r.queued_safe + r.recovered_safe
Inv == Consistent(rx, partial, owed, alien, line)

-----------------------------------------------------------------------------
(* Bytes, words and prefixes.                                              *)

\* The word is made of letters, which are none of the bytes with a meaning of their own.
LEMMA WordFacts ==
  /\ W \in Nat /\ W >= 1 /\ W <= CMD_LINE_MAX /\ CMD_LINE_MAX \in Nat
  /\ WORD \in Texts
  /\ \A k \in 1 .. W : /\ WORD[k] \in BYTES /\ WORD[k] # BLANK /\ WORD[k] # CR
                       /\ WORD[k] # LF /\ WORD[k] # NUL
  /\ BLANK \in BYTES /\ NUL \in BYTES /\ LF \in BYTES /\ CR \in BYTES
  /\ BLANK # CR /\ BLANK # LF /\ BLANK # NUL /\ CR # LF /\ CR # NUL /\ LF # NUL
<1>1. W \in Nat /\ W >= 1 /\ W <= CMD_LINE_MAX /\ CMD_LINE_MAX \in Nat
  BY ConsoleAssumption DEF W
<1>2. ASSUME NEW k \in 1 .. W PROVE WORD[k] \in LETTERS
  BY ConsoleAssumption DEF W
<1>3. WORD \in Texts
  BY ConsoleAssumption DEF Texts, BYTES
<1> QED BY <1>1, <1>2, <1>3, ConsoleAssumption DEF BYTES

\* Only one prefix of the word can have been reached.
LEMMA ReachedOnce ==
  ASSUME NEW text \in Texts, NEW a \in 0 .. W, NEW b \in 0 .. W,
         Reached(a, text), Reached(b, text)
  PROVE  a = b
<1>1. PICK i \in 0 .. Len(text) : ReachedAt(a, text, i)
  BY DEF Reached
<1>2. PICK j \in 0 .. Len(text) : ReachedAt(b, text, j)
  BY DEF Reached
<1>3. Len(text) \in Nat
  BY DEF Texts
<1>4. i >= j
  <2> SUFFICES ASSUME i < j PROVE FALSE
    BY <1>3
  <2>1. i + 1 \in 1 .. Len(text) /\ a >= 1
    BY <1>1, <1>3, WordFacts DEF ReachedAt
  <2>2. text[i + 1] = WORD[1]
    BY <1>1, <1>3, <2>1 DEF ReachedAt
  <2>3. text[i + 1] = BLANK
    BY <1>2, <1>3, <2>1 DEF ReachedAt
  <2>4. 1 \in 1 .. W
    BY WordFacts
  <2> QED BY <2>2, <2>3, <2>4, WordFacts
<1>5. j >= i
  <2> SUFFICES ASSUME j < i PROVE FALSE
    BY <1>3
  <2>1. j + 1 \in 1 .. Len(text) /\ b >= 1
    BY <1>2, <1>3, WordFacts DEF ReachedAt
  <2>2. text[j + 1] = WORD[1]
    BY <1>2, <1>3, <2>1 DEF ReachedAt
  <2>3. text[j + 1] = BLANK
    BY <1>1, <1>3, <2>1 DEF ReachedAt
  <2>4. 1 \in 1 .. W
    BY WordFacts
  <2> QED BY <2>2, <2>3, <2>4, WordFacts
<1> QED BY <1>1, <1>2, <1>3, <1>4, <1>5, WordFacts DEF ReachedAt

\* The byte takes the recognizer from prefix a to prefix b.
Leads(a, byte, b) == \/ a \in {0, W} /\ byte = BLANK /\ b = a
                     \/ a < W /\ byte = WORD[a + 1] /\ b = a + 1

\* A byte the recognizer follows extends the prefix it has reached.
LEMMA ReachedGrows ==
  ASSUME NEW text \in Texts, NEW byte \in BYTES, NEW a \in 0 .. W, NEW b \in 0 .. W,
         Reached(a, text), Leads(a, byte, b)
  PROVE  Reached(b, Append(text, byte))
<1>1. PICK i \in 0 .. Len(text) : ReachedAt(a, text, i)
  BY DEF Reached
<1> DEFINE n == Len(text)
           longer == Append(text, byte)
<1>2. n \in Nat /\ Len(longer) = n + 1 /\ longer[n + 1] = byte
      /\ \A k \in 1 .. n : longer[k] = text[k]
  BY DEF Texts
<1> HIDE DEF longer
<1>3. CASE a = 0 /\ byte = BLANK /\ b = a
  <2>1. ReachedAt(0, longer, n + 1)
    BY <1>1, <1>2, <1>3, WordFacts DEF ReachedAt
  <2> QED BY <1>2, <1>3, <2>1 DEF Reached, longer
<1>4. CASE a = W /\ byte = BLANK /\ b = a
  <2>1. ReachedAt(W, longer, i)
    BY <1>1, <1>2, <1>4, WordFacts DEF ReachedAt
  <2>2. i \in 0 .. Len(longer)
    BY <1>2
  <2> QED BY <1>4, <2>1, <2>2 DEF Reached, longer
<1>5. CASE a < W /\ byte = WORD[a + 1] /\ b = a + 1
  <2>1. ReachedAt(a + 1, longer, i)
    <3>1. i + a = n
      BY <1>1, <1>5 DEF ReachedAt
    <3>2. ASSUME NEW k \in 1 .. n + 1
          PROVE  longer[k] = IF k > i /\ k <= i + (a + 1) THEN WORD[k - i] ELSE BLANK
      <4>1. CASE k = n + 1
        BY <1>2, <1>5, <3>1, <4>1
      <4>2. CASE k # n + 1
        <5>1. k \in 1 .. n
          BY <1>2, <4>2
        <5>2. text[k] = IF k > i /\ k <= i + a THEN WORD[k - i] ELSE BLANK
          BY <1>1, <5>1 DEF ReachedAt
        <5>3. longer[k] = text[k]
          BY <1>2, <5>1
        <5> QED BY <1>2, <3>1, <5>1, <5>2, <5>3
      <4> QED BY <4>1, <4>2
    <3>3. /\ i + (a + 1) <= Len(longer)
          /\ a + 1 < W => i + (a + 1) = Len(longer)
      BY <1>2, <1>5, <3>1
    <3>4. \A k \in 1 .. Len(longer) :
            longer[k] = IF k > i /\ k <= i + (a + 1) THEN WORD[k - i] ELSE BLANK
      BY <1>2, <3>2
    <3> QED BY <3>3, <3>4 DEF ReachedAt
  <2>2. i \in 0 .. Len(longer)
    BY <1>2
  <2> QED BY <1>5, <2>1, <2>2 DEF Reached, longer
<1> QED BY <1>3, <1>4, <1>5 DEF Leads

\* What a line has reached after a byte, it reached by following that byte (safe_byte).
LEMMA ReachedFrom ==
  ASSUME NEW text \in Texts, NEW byte \in BYTES, NEW b \in 0 .. W,
         Reached(b, Append(text, byte))
  PROVE  \E a \in 0 .. W : Reached(a, text) /\ Leads(a, byte, b)
<1> DEFINE n == Len(text)
           longer == Append(text, byte)
<1>1. n \in Nat /\ Len(longer) = n + 1 /\ longer[n + 1] = byte
      /\ \A k \in 1 .. n : longer[k] = text[k]
  BY DEF Texts
<1>2. PICK i \in 0 .. Len(longer) : ReachedAt(b, longer, i)
  BY DEF Reached
<1> HIDE DEF longer
<1>3. CASE b = 0
  <2>1. i = n + 1 /\ byte = BLANK
    BY <1>1, <1>2, <1>3, WordFacts DEF ReachedAt
  <2>2. ReachedAt(0, text, n)
    BY <1>1, <1>2, <1>3, <2>1, WordFacts DEF ReachedAt
  <2>3. Reached(0, text) /\ Leads(0, byte, b)
    BY <1>1, <1>3, <2>1, <2>2 DEF Reached, Leads
  <2> QED BY <2>3, WordFacts
<1>4. CASE b # 0 /\ i + b = n + 1
  <2>1. i \in 0 .. n /\ b - 1 \in 0 .. W /\ b - 1 < W
    BY <1>1, <1>2, <1>4, WordFacts
  <2>2. byte = WORD[b - 1 + 1]
    <3>1. n + 1 \in 1 .. Len(longer) /\ n + 1 > i /\ n + 1 <= i + b /\ (n + 1) - i = b - 1 + 1
      BY <1>1, <1>4, <2>1
    <3> QED BY <1>1, <1>2, <3>1 DEF ReachedAt
  <2>3. ReachedAt(b - 1, text, i)
    <3>1. ASSUME NEW k \in 1 .. n
          PROVE  text[k] = IF k > i /\ k <= i + (b - 1) THEN WORD[k - i] ELSE BLANK
      <4>1. k \in 1 .. Len(longer) /\ text[k] = longer[k]
        BY <1>1
      <4>2. longer[k] = IF k > i /\ k <= i + b THEN WORD[k - i] ELSE BLANK
        BY <1>2, <4>1 DEF ReachedAt
      <4> QED BY <1>1, <1>4, <2>1, <4>1, <4>2
    <3> QED BY <1>1, <1>4, <2>1, <3>1 DEF ReachedAt
  <2>4. Reached(b - 1, text) /\ Leads(b - 1, byte, b)
    BY <1>1, <2>1, <2>2, <2>3 DEF Reached, Leads
  <2> QED BY <2>1, <2>4
<1>5. CASE b # 0 /\ i + b # n + 1
  <2>1. b = W /\ i + b <= n /\ i \in 0 .. n
    BY <1>1, <1>2, <1>5, WordFacts DEF ReachedAt
  <2>2. byte = BLANK
    BY <1>1, <1>2, <2>1 DEF ReachedAt
  <2>3. ReachedAt(W, text, i)
    <3>1. ASSUME NEW k \in 1 .. n
          PROVE  text[k] = IF k > i /\ k <= i + W THEN WORD[k - i] ELSE BLANK
      <4>1. k \in 1 .. Len(longer) /\ text[k] = longer[k]
        BY <1>1
      <4> QED BY <1>2, <2>1, <4>1 DEF ReachedAt
    <3> QED BY <1>1, <2>1, <3>1, WordFacts DEF ReachedAt
  <2>4. Reached(W, text) /\ Leads(W, byte, b)
    BY <1>1, <2>1, <2>2, <2>3 DEF Reached, Leads
  <2> QED BY <2>1, <2>4, WordFacts
<1> QED BY <1>3, <1>4, <1>5

\* A text is a SAFE line exactly when the recognizer has reached the end of the word.
LEMMA SafeIsReached ==
  ASSUME NEW text \in Texts
  PROVE  IsSafe(text) <=> Reached(W, text)
<1> DEFINE Blanks(k) == [n \in 1 .. k |-> BLANK]
<1>0. Len(text) \in Nat
  BY DEF Texts
<1>1. ASSUME NEW i \in Nat, NEW j \in Nat
      PROVE  /\ Blanks(i) \o WORD \o Blanks(j) \in Seq(BYTES)
             /\ Len(Blanks(i) \o WORD \o Blanks(j)) = i + W + j
             /\ \A n \in 1 .. i + W + j :
                  (Blanks(i) \o WORD \o Blanks(j))[n]
                    = IF n > i /\ n <= i + W THEN WORD[n - i] ELSE BLANK
  <2>1. ASSUME NEW k \in Nat
        PROVE  Blanks(k) \in Seq(BYTES) /\ Len(Blanks(k)) = k /\ \A n \in 1 .. k : Blanks(k)[n] = BLANK
    BY WordFacts
  <2> DEFINE x == Blanks(i)
             y == Blanks(j)
  <2>2. x \in Seq(BYTES) /\ Len(x) = i /\ \A n \in 1 .. i : x[n] = BLANK
    BY <2>1
  <2>3. y \in Seq(BYTES) /\ Len(y) = j /\ \A n \in 1 .. j : y[n] = BLANK
    BY <2>1
  <2> HIDE DEF x, y
  <2>4. x \o WORD \in Seq(BYTES) /\ Len(x \o WORD) = i + W
        /\ \A n \in 1 .. i + W : (x \o WORD)[n] = IF n <= i THEN x[n] ELSE WORD[n - i]
    <3>1. WORD \in Seq(BYTES) /\ W \in Nat
      BY WordFacts DEF Texts
    <3> QED BY <2>2, <3>1 DEF W
  <2> DEFINE z == x \o WORD
  <2>5. z \in Seq(BYTES) /\ Len(z) = i + W /\ \A n \in 1 .. i + W : z[n] = IF n <= i THEN BLANK ELSE WORD[n - i]
    BY <2>2, <2>4
  <2> HIDE DEF z
  <2>6. z \o y \in Seq(BYTES) /\ Len(z \o y) = i + W + j
        /\ \A n \in 1 .. i + W + j : (z \o y)[n] = IF n <= i + W THEN z[n] ELSE y[n - (i + W)]
    BY <2>3, <2>5, WordFacts
  <2>7. ASSUME NEW n \in 1 .. i + W + j
        PROVE  (z \o y)[n] = IF n > i /\ n <= i + W THEN WORD[n - i] ELSE BLANK
    BY <2>3, <2>5, <2>6, WordFacts
  <2> QED BY <2>6, <2>7 DEF z, x, y
<1>2. ASSUME IsSafe(text) PROVE Reached(W, text)
  <2>1. PICK i \in 0 .. Len(text) : \E j \in 0 .. Len(text) : text = Blanks(i) \o WORD \o Blanks(j)
    BY <1>2 DEF IsSafe
  <2>2. PICK j \in 0 .. Len(text) : text = Blanks(i) \o WORD \o Blanks(j)
    BY <2>1
  <2> HIDE DEF Blanks
  <2>3. Len(text) = i + W + j /\ \A n \in 1 .. i + W + j :
            text[n] = IF n > i /\ n <= i + W THEN WORD[n - i] ELSE BLANK
    <3>1. i \in Nat /\ j \in Nat
      BY <1>0
    <3> QED BY <1>1, <2>2, <3>1
  <2>4. ReachedAt(W, text, i)
    BY <1>0, <2>3, WordFacts DEF ReachedAt
  <2> QED BY <2>4 DEF Reached
<1>3. ASSUME Reached(W, text) PROVE IsSafe(text)
  <2>1. PICK i \in 0 .. Len(text) : ReachedAt(W, text, i)
    BY <1>3 DEF Reached
  <2> DEFINE j == Len(text) - (i + W)
  <2>2. j \in 0 .. Len(text) /\ Len(text) = i + W + j
    BY <1>0, <2>1, WordFacts DEF ReachedAt
  <2> HIDE DEF Blanks, j
  <2>3. text = Blanks(i) \o WORD \o Blanks(j)
    <3> DEFINE u == Blanks(i) \o WORD \o Blanks(j)
    <3>1. u \in Seq(BYTES) /\ Len(u) = Len(text)
          /\ \A n \in 1 .. Len(text) : u[n] = IF n > i /\ n <= i + W THEN WORD[n - i] ELSE BLANK
      <4>1. i \in Nat /\ j \in Nat
        BY <1>0, <2>2
      <4> QED BY <1>1, <2>2, <4>1
    <3> HIDE DEF u
    <3>2. \A n \in 1 .. Len(text) : u[n] = text[n]
      BY <2>1, <3>1 DEF ReachedAt
    <3>3. u = text
      BY <3>1, <3>2 DEF Texts
    <3> QED BY <3>3 DEF u
  <2> QED BY <2>2, <2>3 DEF IsSafe, Blanks
<1> QED BY <1>2, <1>3

\* A line is taken for SAFE exactly when the end of the word was reached.
LEMMA LineIsSafe ==
  ASSUME NEW text \in Texts
  PROVE  LineOf(text) \in Texts /\ (LineOf(text) = WORD <=> Reached(W, text))
         /\ (Reached(W, text) => text # <<>>)
<1>1. Reached(W, WORD)
  <2>1. ReachedAt(W, WORD, 0)
    BY WordFacts DEF ReachedAt, W
  <2> QED BY <2>1, WordFacts DEF Reached, W
<1>2. Reached(W, text) => text # <<>>
  BY WordFacts DEF Reached, ReachedAt
<1> QED BY <1>1, <1>2, SafeIsReached, WordFacts DEF LineOf

-----------------------------------------------------------------------------
(* Counting.                                                               *)

\* Below(A, n) counts the numbers of A up to n: there are finitely many.
LEMMA BelowFinite ==
  ASSUME NEW A \in SUBSET Nat, NEW n \in Nat
  PROVE  IsFiniteSet({k \in A : k <= n}) /\ Below(A, n) \in Nat
<1>1. IsFiniteSet(0 .. n)
  BY FS_Interval
<1>2. ASSUME NEW k \in A, k <= n PROVE k \in 0 .. n
  BY <1>2
<1>3. {k \in A : k <= n} \in SUBSET (0 .. n)
  BY <1>2
<1> QED BY <1>1, <1>3, FS_Subset, FS_CardinalityType DEF Below

\* Nothing is counted exactly when no number of A is as small.
LEMMA BelowNone ==
  ASSUME NEW A \in SUBSET Nat, NEW n \in Nat
  PROVE  Below(A, n) = 0 <=> \A k \in A : ~(k <= n)
<1>1. IsFiniteSet({k \in A : k <= n})
  BY BelowFinite
<1>2. Below(A, n) = 0 <=> {k \in A : k <= n} = {}
  BY <1>1, FS_EmptySet DEF Below
<1> QED BY <1>2

\* One more number is counted exactly when it is in A.
LEMMA BelowStep ==
  ASSUME NEW A \in SUBSET Nat, NEW n \in Nat
  PROVE  Below(A, n + 1) = Below(A, n) + (IF n + 1 \in A THEN 1 ELSE 0)
<1> DEFINE lower == {k \in A : k <= n}
           upper == {k \in A : k <= n + 1}
<1>1. IsFiniteSet(lower) /\ Cardinality(lower) \in Nat
  BY BelowFinite DEF Below
<1>4. n + 1 \notin lower
  OBVIOUS
<1>5. ASSUME NEW k \in A PROVE k <= n + 1 <=> (k <= n \/ k = n + 1)
  OBVIOUS
<1>2. CASE n + 1 \in A
  <2>1. upper = lower \cup {n + 1}
    BY <1>2, <1>5
  <2> HIDE DEF lower, upper
  <2>2. Cardinality(upper) = Cardinality(lower) + 1
    BY <1>1, <1>4, <2>1, FS_AddElement
  <2> QED BY <1>2, <2>2 DEF lower, upper, Below
<1>3. CASE n + 1 \notin A
  <2>1. upper = lower
    BY <1>3, <1>5
  <2> HIDE DEF lower, upper
  <2> QED BY <1>1, <1>3, <2>1 DEF lower, upper, Below
<1> QED BY <1>2, <1>3

\* Sets that agree up to n count the same up to n.
LEMMA BelowSame ==
  ASSUME NEW A \in SUBSET Nat, NEW B \in SUBSET Nat, NEW n \in Nat,
         \A k \in 1 .. n : k \in A <=> k \in B, 0 \notin A, 0 \notin B
  PROVE  Below(A, n) = Below(B, n)
<1>1. ASSUME NEW k \in Nat, k <= n PROVE k \in A <=> k \in B
  <2>1. k = 0 \/ k \in 1 .. n
    BY <1>1
  <2> QED BY <2>1
<1>2. {k \in A : k <= n} = {k \in B : k <= n}
  BY <1>1
<1> QED BY <1>2 DEF Below

\* A set of numbers up to n has as many members as are counted up to n.
LEMMA BelowAll ==
  ASSUME NEW n \in Nat, NEW A \in SUBSET (1 .. n)
  PROVE  Cardinality(A) = Below(A, n) /\ A \in SUBSET Nat /\ Below(A, n) <= n
<1>0. ASSUME NEW k \in A PROVE k \in Nat /\ k <= n
  OBVIOUS
<1>1. {k \in A : k <= n} = A /\ A \in SUBSET Nat
  BY <1>0
<1>2. IsFiniteSet(1 .. n) /\ Cardinality(1 .. n) = n
  BY FS_Interval
<1>3. Cardinality(A) <= Cardinality(1 .. n)
  BY <1>2, FS_Subset
<1> QED BY <1>1, <1>2, <1>3 DEF Below

\* The count never falls.
LEMMA BelowMore ==
  ASSUME NEW A \in SUBSET Nat, NEW m \in Nat, NEW n \in Nat, m <= n
  PROVE  Below(A, m) <= Below(A, n)
<1>0. ASSUME NEW k \in A, k <= m PROVE k <= n
  BY <1>0
<1>1. {k \in A : k <= m} \in SUBSET {k \in A : k <= n}
  BY <1>0
<1> QED BY <1>1, BelowFinite, FS_Subset DEF Below

\* What is left of a set after its first p numbers.
LEMMA BelowShift ==
  ASSUME NEW A \in SUBSET Nat, NEW B \in SUBSET Nat, NEW p \in Nat, NEW n \in Nat,
         0 \notin B, \A k \in 1 .. n : k \in B <=> k + p \in A
  PROVE  Below(A, n + p) = Below(A, p) + Below(B, n)
<1> DEFINE Wrong == {m \in 0 .. n : Below(A, m + p) # Below(A, p) + Below(B, m)}
<1> SUFFICES ASSUME Wrong # {} PROVE FALSE
  OBVIOUS
<1>1. PICK m \in Wrong : \A y \in Wrong : ~(y < m)
  <2>1. Wrong \in SUBSET Nat
    OBVIOUS
  <2> HIDE DEF Wrong
  <2>2. \E m \in Wrong : \A y \in Wrong : ~(<<y, m>> \in OpToRel(<, Nat))
    BY <2>1, NatLessThanWellFounded, WFMin
  <2> QED BY <2>1, <2>2 DEF OpToRel
<1>2. m # 0
  <2>1. Below(B, 0) = 0
    BY BelowNone
  <2>2. Below(A, p) \in Nat
    BY BelowFinite
  <2> QED BY <1>1, <2>1, <2>2
<1> DEFINE l == m - 1
<1>3. l \in 0 .. n /\ l \in Nat /\ l \notin Wrong /\ m = l + 1 /\ m \in 1 .. n
  BY <1>1, <1>2
<1>4. Below(A, l + p) = Below(A, p) + Below(B, l)
  BY <1>3
<1>5. Below(B, l + 1) = Below(B, l) + (IF l + 1 \in B THEN 1 ELSE 0)
  BY <1>3, BelowStep
<1>6. Below(A, (l + p) + 1) = Below(A, l + p) + (IF (l + p) + 1 \in A THEN 1 ELSE 0)
  BY <1>3, BelowStep
<1>7. (l + p) + 1 = m + p /\ (m \in B <=> m + p \in A)
  BY <1>3
<1>8. Below(A, p) \in Nat /\ Below(B, l) \in Nat
  BY <1>3, BelowFinite
<1> HIDE DEF l
<1>9. Below(A, m + p) = Below(A, p) + Below(B, m)
  BY <1>3, <1>4, <1>5, <1>6, <1>7, <1>8
<1> QED BY <1>1, <1>9

\* The positions of the SAFE lines and of their ends.
LEMMA WordsIn ==
  ASSUME NEW lines \in Seq(Texts)
  PROVE  Words(lines) \in SUBSET (1 .. Len(lines)) /\ Len(lines) \in Nat
         /\ Safes(lines) = Below(Words(lines), Len(lines)) /\ Safes(lines) \in Nat
<1>1. Words(lines) \in SUBSET (1 .. Len(lines)) /\ Len(lines) \in Nat
  BY DEF Words
<1>2. Safes(lines) = Cardinality(Words(lines))
  BY DEF Safes, Words
<1>3. Words(lines) \in SUBSET Nat /\ Cardinality(Words(lines)) = Below(Words(lines), Len(lines))
  BY <1>1, BelowAll
<1> QED BY <1>1, <1>2, <1>3, BelowFinite

\* The ends of SAFE lines are places of the ring (safe_end).
LEMMA EndsIn ==
  ASSUME NEW ring \in Seq(Entries)
  PROVE  Ends(ring) \in SUBSET (1 .. Len(ring)) /\ Len(ring) \in Nat
         /\ Cardinality(Ends(ring)) = Below(Ends(ring), Len(ring))
         /\ Cardinality(Ends(ring)) \in 0 .. Len(ring)
<1>1. Ends(ring) \in SUBSET (1 .. Len(ring)) /\ Len(ring) \in Nat
  BY DEF Ends
<1>2. Ends(ring) \in SUBSET Nat
        /\ Cardinality(Ends(ring)) = Below(Ends(ring), Len(ring)) /\ Below(Ends(ring), Len(ring)) <= Len(ring)
  BY <1>1, BelowAll
<1>3. Below(Ends(ring), Len(ring)) \in Nat
  BY <1>1, <1>2, BelowFinite
<1> QED BY <1>1, <1>2, <1>3

-----------------------------------------------------------------------------
(* Lines owed.                                                             *)

\* The lesser of two numbers, as the saturation of recover_safe takes it.
LEMMA MinPair ==
  ASSUME NEW a \in Nat, NEW b \in Nat
  PROVE  Min({a, b}) = IF a <= b THEN a ELSE b
<1> DEFINE m == IF a <= b THEN a ELSE b
<1>1. m \in {a, b} /\ (\A y \in {a, b} : m <= y)
  OBVIOUS
<1>2. ASSUME NEW x \in {a, b}, \A y \in {a, b} : x <= y PROVE x = m
  BY <1>2
<1>3. Min({a, b}) = CHOOSE x \in {a, b} : \A y \in {a, b} : x <= y
  BY DEF Min
<1> HIDE DEF m
<1>4. Min({a, b}) = m
  BY <1>1, <1>2, <1>3
<1> QED BY <1>4 DEF m

\* A line that is owed, with no SAFE owed before it, is found: there or at an equal line before.
Cuts(s, text, p, g) ==
  /\ g = [s EXCEPT !.owed = SubSeq(s.owed, p + 1, Len(s.owed))]
  /\ s.owed[p] = text
  /\ \A n \in 1 .. p - 1 : s.owed[n] # WORD
LEMMA GotOwed ==
  ASSUME NEW s, s.owed \in Seq(Texts), NEW text, NEW k \in 1 .. Len(s.owed),
         s.owed[k] = text, Below(Words(s.owed), k - 1) = 0
  PROVE  \E p \in 1 .. k : Cuts(s, text, p, Got(s, text))
<1> DEFINE P == Position(s.owed, text)
<1>1. k \in P
  <2>1. k - 1 \in Nat /\ Words(s.owed) \in SUBSET Nat
    BY WordsIn
  <2>2. ASSUME NEW n \in 1 .. k - 1 PROVE s.owed[n] # WORD
    <3>1. n \notin Words(s.owed)
      BY <2>1, BelowNone
    <3>2. n \in DOMAIN s.owed
      OBVIOUS
    <3> QED BY <3>1, <3>2 DEF Words
  <2> QED BY <2>2 DEF Position
<1>2. P \in SUBSET Nat
  <2>1. Len(s.owed) \in Nat
    OBVIOUS
  <2> QED BY <2>1 DEF Position
<1>3. PICK m \in P : \A y \in P : m <= y
  <2> HIDE DEF P
  <2>1. \E m \in P : \A y \in P : ~(<<y, m>> \in OpToRel(<, Nat))
    BY <1>1, <1>2, NatLessThanWellFounded, WFMin
  <2>2. PICK m \in P : \A y \in P : ~(y < m)
    BY <1>2, <2>1 DEF OpToRel
  <2>3. \A y \in P : m <= y
    BY <1>2, <2>2
  <2> QED BY <2>3
<1> DEFINE p == Min(P)
<1>4. p \in P /\ p <= k
  <2> HIDE DEF P
  <2>1. p \in P /\ \A y \in P : p <= y
    BY <1>3 DEF Min
  <2> QED BY <1>1, <2>1
<1>5. Got(s, text) = [s EXCEPT !.owed = SubSeq(s.owed, p + 1, Len(s.owed))]
  BY <1>1 DEF Got
<1>6. p \in 1 .. k
  BY <1>4 DEF Position
<1>7. s.owed[p] = text /\ \A n \in 1 .. p - 1 : s.owed[n] # WORD
  BY <1>4 DEF Position
<1> HIDE DEF p
<1>8. Cuts(s, text, p, Got(s, text))
  BY <1>5, <1>7 DEF Cuts
<1> QED BY <1>6, <1>8

\* q is what remains of the owed lines o after the first p.
Remains(o, p, q) ==
  /\ q \in Seq(Texts) /\ Len(q) = Len(o) - p
  /\ \A k \in 1 .. Len(q) : q[k] = o[k + p]
  /\ \A n \in 0 .. Len(q) : Below(Words(o), n + p) = Below(Words(o), p) + Below(Words(q), n)
LEMMA OwedAfter ==
  ASSUME NEW o \in Seq(Texts), NEW p \in 1 .. Len(o), NEW q, q = SubSeq(o, p + 1, Len(o))
  PROVE  Remains(o, p, q)
<1>1. q \in Seq(Texts) /\ Len(q) = Len(o) - p /\ \A k \in 1 .. Len(q) : q[k] = o[k + p]
  OBVIOUS
<1>2. Words(o) \in SUBSET Nat /\ Words(q) \in SUBSET Nat /\ 0 \notin Words(q)
  <2>1. Words(o) \in SUBSET (1 .. Len(o)) /\ Words(q) \in SUBSET (1 .. Len(q))
    BY <1>1, WordsIn
  <2> QED BY <2>1
<1>3. ASSUME NEW n \in 0 .. Len(q)
      PROVE  Below(Words(o), n + p) = Below(Words(o), p) + Below(Words(q), n)
  <2>1. ASSUME NEW k \in 1 .. n PROVE k \in Words(q) <=> k + p \in Words(o)
    <3>1. k \in DOMAIN q /\ k + p \in DOMAIN o /\ q[k] = o[k + p]
      BY <1>1
    <3> QED BY <3>1 DEF Words
  <2>2. n \in Nat /\ p \in Nat
    BY <1>1
  <2> QED BY <1>2, <2>1, <2>2, BelowShift
<1> QED BY <1>1, <1>3 DEF Remains

\* The SAFE lines of a prefix.
LEMMA SafesOfPrefix ==
  ASSUME NEW o \in Seq(Texts), NEW i \in 1 .. Len(o)
  PROVE  Safes(SubSeq(o, 1, i)) = Below(Words(o), i)
<1> DEFINE q == SubSeq(o, 1, i)
<1>1. q \in Seq(Texts) /\ Len(q) = i /\ \A k \in 1 .. i : q[k] = o[k]
  OBVIOUS
<1> HIDE DEF q
<1>2. Safes(q) = Below(Words(q), i) /\ Words(q) \in SUBSET (1 .. i)
  BY <1>1, WordsIn
<1>3. Words(o) \in SUBSET (1 .. Len(o))
  BY WordsIn
<1>4. \A k \in 1 .. i : k \in Words(q) <=> k \in Words(o)
  BY <1>1 DEF Words
<1>5. i \in Nat /\ Words(q) \in SUBSET Nat /\ Words(o) \in SUBSET Nat /\ 0 \notin Words(q) /\ 0 \notin Words(o)
  BY <1>2, <1>3
<1>6. Below(Words(q), i) = Below(Words(o), i)
  BY <1>4, <1>5, BelowSame
<1> QED BY <1>2, <1>6 DEF q

\* When recovered_safe is at its limit just the SAFE lines on their way are still owed.
LEMMA SaturatedOwes ==
  ASSUME NEW r, r.recovered_safe \in Nat, r.queued_safe \in Nat, NEW o \in Seq(Texts),
         Safes(o) >= r.queued_safe + r.recovered_safe,
         r.recovered_safe < RECOVERED_MAX => Safes(o) = r.queued_safe + r.recovered_safe
  PROVE  /\ Saturated(r, o) \in Seq(Texts)
         /\ Safes(Saturated(r, o)) = r.queued_safe + r.recovered_safe
         /\ Safes(o) = r.queued_safe + r.recovered_safe => Saturated(r, o) = o
<1> DEFINE due == r.queued_safe + r.recovered_safe
           A == Words(o)
           cut == [i \in DOMAIN o |-> IF o[i] # WORD \/ Safes(SubSeq(o, 1, i)) <= due
                                      THEN o[i] ELSE Empty.text]
           B == Words(cut)
<1>1. CASE r.recovered_safe < RECOVERED_MAX
  BY <1>1 DEF Saturated
<1>2. CASE ~(r.recovered_safe < RECOVERED_MAX)
  <2>1. Saturated(r, o) = cut
    BY <1>2 DEF Saturated
  <2>2. due \in Nat /\ Len(o) \in Nat /\ A \in SUBSET (1 .. Len(o)) /\ A \in SUBSET Nat
        /\ Safes(o) = Below(A, Len(o)) /\ Safes(o) >= due /\ Safes(o) \in Nat
    BY WordsIn
  <2> HIDE DEF due, A
  <2>3. ASSUME NEW i \in 1 .. Len(o)
        PROVE  cut[i] = IF i \in A /\ Below(A, i) > due THEN <<>> ELSE o[i]
    <3>1. i \in DOMAIN o /\ Safes(SubSeq(o, 1, i)) = Below(A, i)
      BY SafesOfPrefix DEF A
    <3>2. i \in A <=> o[i] = WORD
      BY <3>1 DEF Words, A
    <3>3. Below(A, i) \in Nat
      <4>1. i \in Nat
        BY <2>2
      <4> QED BY <2>2, <4>1, BelowFinite
    <3>4. cut[i] = IF o[i] # WORD \/ Safes(SubSeq(o, 1, i)) <= due THEN o[i] ELSE <<>>
      BY DEF Empty
    <3> HIDE DEF cut
    <3> QED BY <2>2, <3>1, <3>2, <3>3, <3>4 DEF A
  <2>4. cut \in Seq(Texts) /\ Len(cut) = Len(o) /\ DOMAIN cut = 1 .. Len(o)
    <3>1. \A i \in 1 .. Len(o) : cut[i] \in Texts
      <4> HIDE DEF cut
      <4>1. <<>> \in Texts
        BY DEF Texts
      <4> QED BY <2>3, <4>1
    <3>2. cut = [i \in 1 .. Len(o) |-> cut[i]]
      OBVIOUS
    <3> HIDE DEF cut
    <3> QED BY <2>2, <3>1, <3>2
  <2>5. B \in SUBSET (1 .. Len(o)) /\ B \in SUBSET Nat /\ Safes(cut) = Below(B, Len(o))
    <3> HIDE DEF cut
    <3>1. Words(cut) \in SUBSET (1 .. Len(o)) /\ Safes(cut) = Below(Words(cut), Len(o))
      BY <2>4, WordsIn
    <3> QED BY <2>2, <3>1
  <2> HIDE DEF cut
  <2>6. ASSUME NEW i \in 1 .. Len(o) PROVE i \in B <=> i \in A /\ Below(A, i) <= due
    <3>1. <<>> # WORD
      BY WordFacts DEF W
    <3>2. i \in A <=> o[i] = WORD
      BY DEF Words, A
    <3>3. i \in B <=> cut[i] = WORD
      BY <2>4 DEF Words
    <3>4. Below(A, i) \in Nat
      <4>1. i \in Nat
        BY <2>2
      <4> QED BY <2>2, <4>1, BelowFinite
    <3> HIDE DEF B
    <3> QED BY <2>2, <2>3, <3>1, <3>2, <3>3, <3>4
  <2> HIDE DEF B
  <2> DEFINE Same(n) == Below(B, n) = IF Below(A, n) <= due THEN Below(A, n) ELSE due
             Wrong == {n \in 0 .. Len(o) : ~Same(n)}
  <2>7. Wrong = {}
    <3> SUFFICES ASSUME Wrong # {} PROVE FALSE
      OBVIOUS
    <3>1. PICK m \in Wrong : \A y \in Wrong : ~(y < m)
      <4>1. Wrong \in SUBSET Nat
        BY <2>2
      <4> HIDE DEF Wrong
      <4>2. \E m \in Wrong : \A y \in Wrong : ~(<<y, m>> \in OpToRel(<, Nat))
        BY <4>1, NatLessThanWellFounded, WFMin
      <4> QED BY <4>1, <4>2 DEF OpToRel
    <3>2. m # 0
      <4>1. Below(A, 0) = 0 /\ Below(B, 0) = 0
        BY <2>2, <2>5, BelowNone
      <4> QED BY <2>2, <3>1, <4>1
    <3> DEFINE l == m - 1
    <3>3. l \in 0 .. Len(o) /\ l \in Nat /\ l \notin Wrong /\ m = l + 1 /\ m \in 1 .. Len(o)
      BY <2>2, <3>1, <3>2
    <3>4. Same(l)
      BY <3>3
    <3>5. Below(B, l + 1) = Below(B, l) + (IF l + 1 \in B THEN 1 ELSE 0)
      BY <2>5, <3>3, BelowStep
    <3>6. Below(A, l + 1) = Below(A, l) + (IF l + 1 \in A THEN 1 ELSE 0)
      BY <2>2, <3>3, BelowStep
    <3>7. m \in B <=> m \in A /\ Below(A, m) <= due
      BY <2>6, <3>3
    <3>8. Below(A, l) \in Nat /\ Below(B, l) \in Nat
      BY <2>2, <2>5, <3>3, BelowFinite
    <3> HIDE DEF l
    <3>9. Same(m)
      BY <2>2, <3>3, <3>4, <3>5, <3>6, <3>7, <3>8
    <3> QED BY <3>1, <3>9
  <2>8. Safes(cut) = due
    <3>1. Same(Len(o))
      <4>1. Len(o) \in 0 .. Len(o)
        BY <2>2
      <4> QED BY <2>7, <4>1
    <3> QED BY <2>2, <2>5, <3>1
  <2>9. ASSUME Safes(o) = due PROVE cut = o
    <3>1. ASSUME NEW i \in 1 .. Len(o) PROVE cut[i] = o[i]
      <4>1. Below(A, i) <= Below(A, Len(o)) /\ Below(A, i) \in Nat
        <5>1. i \in Nat /\ i <= Len(o)
          BY <2>2
        <5> QED BY <2>2, <5>1, BelowMore, BelowFinite
      <4> QED BY <2>2, <2>3, <2>9, <4>1
    <3> QED BY <2>4, <3>1
  <2> QED BY <2>1, <2>4, <2>8, <2>9 DEF due
<1> QED BY <1>1, <1>2

-----------------------------------------------------------------------------
(* The recognizer.                                                         *)

\* What a step of the recognizer leaves alone.
SameQueue(r, q) ==
  /\ q.ring = r.ring /\ q.discard_line = r.discard_line /\ q.queued_safe = r.queued_safe
  /\ q.recovered_safe = r.recovered_safe /\ q.recovery_pos = r.recovery_pos

\* The core's line stays within its buffer, whatever byte follows.
LEMMA TypedLine ==
  ASSUME NEW l \in Lines, NEW b \in BYTES
  PROVE  Typed(l, b) \in Lines /\ After(l, b) \in Lines /\ Empty \in Lines
<1>0. CMD_LINE_MAX \in Nat /\ l.text \in Seq(BYTES) /\ l.bad \in BOOLEAN /\ Len(l.text) <= CMD_LINE_MAX
      /\ l = [text |-> l.text, bad |-> l.bad]
  BY WordFacts DEF Lines, Texts
<1>1. Empty \in Lines
  BY <1>0 DEF Lines, Empty, Texts
<1>2. [l EXCEPT !.bad = TRUE] \in Lines
  BY <1>0 DEF Lines, Texts
<1>3. ASSUME Len(l.text) # CMD_LINE_MAX PROVE [l EXCEPT !.text = Append(l.text, b)] \in Lines
  <2>1. Append(l.text, b) \in Seq(BYTES) /\ Len(Append(l.text, b)) <= CMD_LINE_MAX
    BY <1>0, <1>3
  <2>2. [l EXCEPT !.text = Append(l.text, b)] = [text |-> Append(l.text, b), bad |-> l.bad]
    BY <1>0
  <2> QED BY <1>0, <2>1, <2>2 DEF Lines, Texts
<1>4. Typed(l, b) \in Lines
  BY <1>2, <1>3 DEF Typed
<1> QED BY <1>1, <1>4 DEF After

\* The recognizer keeps knowing where the line of the sender stands.
LEMMA RecogFollows ==
  ASSUME NEW r \in Receivers, NEW l \in Lines, Recog(r, l), NEW b \in BYTES
  PROVE  /\ safe_byte(r, b) \in Receivers /\ SameQueue(r, safe_byte(r, b))
         /\ Recog(safe_byte(r, b), After(l, b))
<1> DEFINE q == safe_byte(r, b)
<1>1. CASE b = LF
  <2>1. q = [r EXCEPT !.safe_state = 0, !.line_len = 0] /\ After(l, b) = Empty
    BY <1>1 DEF safe_byte, After
  <2>2. q \in Receivers /\ SameQueue(r, q)
    <3>1. 0 \in 0 .. INVALID /\ 0 \in 0 .. CMD_LINE_MAX + 1
      BY WordFacts DEF INVALID, W
    <3> QED BY <2>1, <3>1 DEF Receivers, SameQueue
  <2>3. ReachedAt(0, <<>>, 0)
    BY WordFacts DEF ReachedAt
  <2>4. Reached(0, <<>>)
    BY <2>3 DEF Reached
  <2>5. q.safe_state = 0 /\ q.line_len = 0
    BY <2>1 DEF Receivers
  <2>6. 0 \in 0 .. W /\ Empty.text = <<>> /\ ~Empty.bad /\ Len(Empty.text) = 0
    BY WordFacts DEF Empty
  <2>7. Recog(q, Empty)
    BY <2>4, <2>5, <2>6 DEF Recog
  <2> QED BY <2>1, <2>2, <2>7
<1>2. CASE b = CR
  <2>1. q = r /\ After(l, b) = l
    BY <1>2, WordFacts DEF safe_byte, Recognized, After, Typed
  <2> QED BY <2>1 DEF SameQueue
<1>3. CASE b # LF /\ b # CR
  <2> DEFINE longer == IF r.line_len + 1 <= CMD_LINE_MAX + 1 THEN r.line_len + 1 ELSE CMD_LINE_MAX + 1
             state == IF longer > CMD_LINE_MAX THEN INVALID ELSE r.safe_state
             after == CASE state \in {0, Len(WORD)} /\ b = BLANK -> state
                        [] state < Len(WORD) /\ b = WORD[state + 1] -> state + 1
                        [] OTHER -> INVALID
  <2>1. r.line_len \in 0 .. CMD_LINE_MAX + 1 /\ r.safe_state \in 0 .. W + 1 /\ INVALID = W + 1
    BY DEF Receivers, INVALID, W
  <2>2. Longer(r) = longer
    <3>1. r.line_len + 1 \in Nat /\ CMD_LINE_MAX + 1 \in Nat
      BY <2>1, WordFacts
    <3> QED BY <3>1, MinPair DEF Longer
  <2>3. q = [r EXCEPT !.line_len = longer, !.safe_state = after]
    BY <1>3, <2>2 DEF safe_byte, Recognized
  <2>4. longer \in 0 .. CMD_LINE_MAX + 1 /\ state \in 0 .. W + 1
    BY <2>1, WordFacts
  <2> HIDE DEF longer
  <2>5. /\ state \in {0, W} /\ b = BLANK => after = state
        /\ state < W /\ b = WORD[state + 1] => after = state + 1
        /\ ~(state \in {0, W} /\ b = BLANK) /\ ~(state < W /\ b = WORD[state + 1]) => after = W + 1
    <3> HIDE DEF state
    <3>1. state < W /\ b = WORD[state + 1] => b # BLANK
      <4> SUFFICES ASSUME state < W PROVE WORD[state + 1] # BLANK
        OBVIOUS
      <4>1. state + 1 \in 1 .. W
        BY <2>4, WordFacts
      <4> QED BY <4>1, WordFacts
    <3> QED BY <2>1, <3>1 DEF W
  <2> HIDE DEF state
  <2>6. after \in 0 .. W + 1
    BY <2>4, <2>5, WordFacts
  <2> HIDE DEF after
  <2>7. q \in Receivers /\ SameQueue(r, q)
    BY <2>1, <2>3, <2>4, <2>6 DEF Receivers, SameQueue
  <2>8. q.line_len = longer /\ q.safe_state = after
    BY <2>3 DEF Receivers
  <2>9. CASE l.bad \/ b = NUL \/ Len(l.text) = CMD_LINE_MAX
    <3>1. Typed(l, b).bad
      BY <2>9, <1>3 DEF Typed, Lines
    <3>2. after = W + 1
      <4>1. CASE l.bad
        <5>1. r.safe_state = W + 1
          BY <2>1, <4>1 DEF Recog
        <5>2. state = W + 1
          BY <2>1, <5>1 DEF state
        <5> QED BY <2>5, <5>2, WordFacts
      <4>2. CASE b = NUL
        <5>1. state < W => b # WORD[state + 1]
          <6> SUFFICES ASSUME state < W PROVE WORD[state + 1] # NUL
            BY <4>2
          <6>1. state + 1 \in 1 .. W
            BY <2>4, WordFacts
          <6> QED BY <6>1, WordFacts
        <5> QED BY <2>5, <4>2, <5>1, WordFacts
      <4>3. CASE ~l.bad /\ Len(l.text) = CMD_LINE_MAX
        <5>1. CASE r.safe_state = W + 1
          <6>1. state = W + 1
            BY <2>1, <5>1 DEF state
          <6> QED BY <2>5, <6>1, WordFacts
        <5>2. CASE r.safe_state # W + 1
          <6>1. r.line_len = CMD_LINE_MAX
            BY <2>1, <4>3, <5>2 DEF Recog
          <6>2. longer = CMD_LINE_MAX + 1
            BY <6>1, WordFacts DEF longer
          <6>3. state = W + 1
            BY <2>1, <6>2, WordFacts DEF state
          <6> QED BY <2>5, <6>3, WordFacts
        <5> QED BY <5>1, <5>2
      <4> QED BY <2>9, <4>1, <4>2, <4>3
    <3>3. Recog(q, Typed(l, b))
      BY <2>1, <2>8, <3>1, <3>2 DEF Recog
    <3> QED BY <1>3, <2>7, <3>3 DEF After
  <2>10. CASE ~l.bad /\ b # NUL /\ Len(l.text) # CMD_LINE_MAX
    <3> DEFINE t == Typed(l, b)
    <3>1. t = [l EXCEPT !.text = Append(l.text, b)]
      BY <1>3, <2>10 DEF Typed
    <3>2. t.text = Append(l.text, b) /\ ~t.bad
      BY <2>10, <3>1 DEF Lines
    <3>3. l.text \in Texts /\ Len(l.text) < CMD_LINE_MAX /\ Len(l.text) \in Nat /\ Len(t.text) = Len(l.text) + 1
      BY <2>10, <3>2, WordFacts DEF Lines, Texts
    <3> HIDE DEF t
    <3>4. CASE r.safe_state \in 0 .. W
      <4>1. r.line_len = Len(l.text) /\ Reached(r.safe_state, l.text)
        BY <2>1, <3>4, <2>10, WordFacts DEF Recog
      <4>2. longer = Len(t.text) /\ state = r.safe_state
        BY <3>3, <4>1, WordFacts DEF longer, state
      <4>3. CASE after \in 0 .. W
        <5>1. Leads(state, b, after)
          BY <2>4, <2>5, <4>3, WordFacts DEF Leads
        <5>2. Reached(after, t.text)
          BY <3>2, <3>3, <3>4, <4>1, <4>2, <4>3, <5>1, ReachedGrows
        <5>3. Recog(q, t)
          BY <2>8, <3>2, <4>2, <4>3, <5>2 DEF Recog
        <5> QED BY <1>3, <2>7, <5>3 DEF After, t
      <4>4. CASE after = W + 1
        <5>1. ASSUME NEW k \in 0 .. W PROVE ~Reached(k, t.text)
          <6> SUFFICES ASSUME Reached(k, Append(l.text, b)) PROVE FALSE
            BY <3>2
          <6>1. PICK a \in 0 .. W : Reached(a, l.text) /\ Leads(a, b, k)
            BY <3>3, ReachedFrom
          <6>2. a = state
            BY <3>3, <3>4, <4>1, <4>2, <6>1, ReachedOnce
          <6> QED BY <2>5, <4>4, <6>1, <6>2, WordFacts DEF Leads
        <5>2. Recog(q, t)
          BY <2>1, <2>8, <4>4, <5>1 DEF Recog
        <5> QED BY <1>3, <2>7, <5>2 DEF After, t
      <4> QED BY <2>6, <4>3, <4>4, WordFacts
    <3>5. CASE r.safe_state = W + 1
      <4>1. \A k \in 0 .. W : ~Reached(k, l.text)
        BY <2>1, <3>5, <2>10, WordFacts DEF Recog
      <4>2. state = W + 1
        BY <2>1, <3>5 DEF state
      <4>3. after = W + 1
        BY <2>5, <4>2, WordFacts
      <4>4. ASSUME NEW k \in 0 .. W PROVE ~Reached(k, t.text)
        BY <3>2, <3>3, <4>1, ReachedFrom
      <4>5. Recog(q, t)
        BY <2>1, <2>8, <4>3, <4>4 DEF Recog
      <4> QED BY <1>3, <2>7, <4>5 DEF After, t
    <3> QED BY <2>1, <3>4, <3>5, WordFacts
  <2> QED BY <2>9, <2>10
<1> QED BY <1>1, <1>2, <1>3

\* The verdict at a line feed: the line of the sender is SAFE, and nothing spoilt it.
LEMMA CompleteMeans ==
  ASSUME NEW r \in Receivers, NEW l \in Lines, Recog(r, l)
  PROVE  Complete(r) <=> Counts(l) /\ LineOf(l.text) = WORD
<1>1. l.text \in Texts /\ Len(l.text) <= CMD_LINE_MAX
  BY DEF Lines
<1>2. INVALID = W + 1 /\ W \in 0 .. W /\ W # W + 1
  BY WordFacts DEF INVALID, W
<1>3. Complete(r) <=> r.safe_state = W /\ r.line_len <= CMD_LINE_MAX
  BY DEF Complete, W
<1>4. ASSUME r.safe_state = W PROVE Counts(l) /\ LineOf(l.text) = WORD /\ r.line_len <= CMD_LINE_MAX
  <2>1. ~l.bad /\ r.line_len = Len(l.text) /\ Reached(W, l.text)
    BY <1>2, <1>4 DEF Recog
  <2> QED BY <1>1, <2>1, LineIsSafe DEF Counts
<1>5. ASSUME Counts(l) /\ LineOf(l.text) = WORD PROVE r.safe_state = W
  <2>1. ~l.bad /\ Reached(W, l.text)
    BY <1>1, <1>5, LineIsSafe DEF Counts
  <2>2. r.safe_state \in 0 .. W /\ Reached(r.safe_state, l.text)
    BY <1>2, <2>1 DEF Recog
  <2> QED BY <1>1, <1>2, <2>1, <2>2, ReachedOnce
<1> QED BY <1>3, <1>4, <1>5

-----------------------------------------------------------------------------
(* The interrupt.                                                          *)

\* The SAFE lines on their way are owed; beyond the limit of recovered_safe more may be.
Owing(r, o) ==
  /\ Safes(o) >= r.queued_safe + r.recovered_safe
  /\ r.recovered_safe < RECOVERED_MAX => Safes(o) = r.queued_safe + r.recovered_safe
SameLine(r, q) == q.safe_state = r.safe_state /\ q.line_len = r.line_len

\* The fields of a reception, one by one.
LEMMA ReceiverTypes ==
  ASSUME NEW r \in Receivers
  PROVE  /\ r.ring \in Seq(Entries) /\ Len(r.ring) \in Nat /\ Len(r.ring) < RX_RING_SIZE
         /\ r.queued_safe \in Nat /\ r.recovered_safe \in 0 .. RECOVERED_MAX
         /\ r.recovered_safe \in Nat /\ RECOVERED_MAX \in Nat /\ RX_RING_SIZE \in Nat
         /\ RX_RING_SIZE >= 3 /\ RECOVERED_MAX >= 1
BY ConsoleAssumption DEF Receivers

\* A receiver whose queue was replaced.
NewQueue(c, q, ring, d, n) ==
  /\ q \in Receivers /\ SameLine(c, q)
  /\ q.ring = ring /\ q.discard_line = d /\ q.queued_safe = n
  /\ q.recovered_safe = c.recovered_safe /\ q.recovery_pos = c.recovery_pos
LEMMA Requeued ==
  ASSUME NEW c \in Receivers, NEW ring \in Seq(Entries), Len(ring) < RX_RING_SIZE,
         NEW d \in BOOLEAN, NEW n \in Nat,
         NEW q, q = [c EXCEPT !.queued_safe = n, !.discard_line = d, !.ring = ring]
  PROVE  NewQueue(c, q, ring, d, n)
<1>1. c \in [ring : Seq(Entries), discard_line : BOOLEAN, queued_safe : Nat,
             recovered_safe : 0 .. RECOVERED_MAX, line_len : 0 .. CMD_LINE_MAX + 1,
             recovery_pos : 0 .. W + 2, safe_state : 0 .. INVALID]
  BY DEF Receivers
<1>2. q \in [ring : Seq(Entries), discard_line : BOOLEAN, queued_safe : Nat,
             recovered_safe : 0 .. RECOVERED_MAX, line_len : 0 .. CMD_LINE_MAX + 1,
             recovery_pos : 0 .. W + 2, safe_state : 0 .. INVALID]
  BY <1>1
<1>3. /\ q.ring = ring /\ q.discard_line = d /\ q.queued_safe = n
      /\ q.recovered_safe = c.recovered_safe /\ q.recovery_pos = c.recovery_pos
      /\ q.safe_state = c.safe_state /\ q.line_len = c.line_len
  BY <1>1
<1> QED BY <1>2, <1>3 DEF Receivers, SameLine, NewQueue

\* recover_safe adds to the SAFE lines recovered, up to their limit, and touches nothing else.
Recovered(r, q, count) ==
  /\ q \in Receivers /\ SameLine(r, q)
  /\ q.ring = r.ring /\ q.discard_line = r.discard_line
  /\ q.queued_safe = r.queued_safe /\ q.recovery_pos = r.recovery_pos
  /\ q.recovered_safe = IF r.recovered_safe + count <= RECOVERED_MAX
                        THEN r.recovered_safe + count ELSE RECOVERED_MAX
LEMMA Recovers ==
  ASSUME NEW r \in Receivers, NEW count \in Nat, NEW q, q = recover_safe(r, count)
  PROVE  Recovered(r, q, count)
<1> DEFINE n == IF r.recovered_safe + count <= RECOVERED_MAX
                THEN r.recovered_safe + count ELSE RECOVERED_MAX
<1>1. r.recovered_safe + count \in Nat /\ RECOVERED_MAX \in Nat /\ n \in 0 .. RECOVERED_MAX
  BY ReceiverTypes
<1>2. Min({RECOVERED_MAX, r.recovered_safe + count}) = n
  BY <1>1, MinPair
<1> HIDE DEF n
<1>3. q = [r EXCEPT !.recovered_safe = n]
  BY <1>2 DEF recover_safe
<1>4. q \in Receivers /\ SameLine(r, q) /\ q.recovered_safe = n
      /\ q.ring = r.ring /\ q.discard_line = r.discard_line
      /\ q.queued_safe = r.queued_safe /\ q.recovery_pos = r.recovery_pos
  BY <1>1, <1>3 DEF Receivers, SameLine
<1> QED BY <1>4 DEF n, Recovered

\* rx_reject keeps the SAFE lines of the ring, and a line the core has begun to take.
LEMMA Rejects ==
  ASSUME NEW r \in Receivers, NEW p, NEW o \in Seq(Texts), Owing(r, o), Recovering(r, p),
         NEW q, q = rx_reject(r)
  PROVE  /\ q \in Receivers /\ SameLine(r, q) /\ q.discard_line
         /\ Recovering(q, p) /\ Discarding(q, p) /\ Owing(q, o)
<1> DEFINE c == recover_safe(r, r.queued_safe)
           poison == [byte |-> NUL, safe_end |-> FALSE]
<1>1. /\ c \in Receivers /\ SameLine(r, c) /\ c.recovery_pos = r.recovery_pos
      /\ c.recovered_safe = IF r.recovered_safe + r.queued_safe <= RECOVERED_MAX
                            THEN r.recovered_safe + r.queued_safe ELSE RECOVERED_MAX
  <2>1. r.queued_safe \in Nat
    BY ReceiverTypes
  <2>2. Recovered(r, c, r.queued_safe)
    BY <2>1, Recovers
  <2> QED BY <2>2 DEF Recovered
<1> DEFINE kept == <<poison>>
<1>2. q = [c EXCEPT !.queued_safe = 0, !.discard_line = TRUE, !.ring = kept]
  BY DEF rx_reject
<1> HIDE DEF c
<1>3. poison \in Entries
  BY WordFacts DEF Entries
<1> HIDE DEF poison
<1>4. kept \in Seq(Entries) /\ Len(kept) = 1
  BY <1>3
<1> HIDE DEF kept
<1>5. /\ q \in Receivers /\ SameLine(c, q) /\ q.ring = kept /\ q.discard_line = TRUE
      /\ q.queued_safe = 0 /\ q.recovered_safe = c.recovered_safe /\ q.recovery_pos = c.recovery_pos
  <2>1. 0 \in Nat /\ Len(kept) < RX_RING_SIZE
    BY <1>4, ReceiverTypes
  <2>2. NewQueue(c, q, kept, TRUE, 0)
    BY <1>1, <1>2, <1>4, <2>1, Requeued
  <2> QED BY <2>2 DEF NewQueue
<1>6. /\ q.queued_safe = 0 /\ q.discard_line /\ q.ring = kept /\ SameLine(r, q)
      /\ q.recovered_safe = c.recovered_safe /\ q.recovery_pos = r.recovery_pos
  BY <1>1, <1>5 DEF SameLine
<1>7. Recovering(q, p)
  BY <1>1, <1>6, ReceiverTypes DEF Recovering
<1>8. Discarding(q, p)
  BY <1>6 DEF Discarding, kept, poison
<1>9. Owing(q, o)
  BY <1>1, <1>6, ReceiverTypes, WordsIn DEF Owing
<1> QED BY <1>5, <1>6, <1>7, <1>8, <1>9

\* A disturbed or lost byte spoils the line, whatever the core has of it.
LEMMA ErrorKeeps ==
  ASSUME NEW r \in Receivers, NEW p \in Lines, NEW o \in Seq(Texts), NEW l \in Lines, NEW a,
         Consistent(r, p, o, a, l),
         NEW q, q = AfterError(r), NEW m, m = [l EXCEPT !.bad = TRUE]
  PROVE  Consistent(q, p, Saturated(q, o), a, m)
<1> DEFINE c == rx_reject(r)
<1>1. Owing(r, o) /\ Recovering(r, p) /\ a = FALSE
  BY ReceiverTypes, WordsIn DEF Consistent, Owing
<1>2. /\ c \in Receivers /\ c.discard_line
      /\ Recovering(c, p) /\ Discarding(c, p) /\ Owing(c, o)
  BY <1>1, Rejects
<1>3. q = [c EXCEPT !.safe_state = INVALID]
  BY DEF AfterError
<1> HIDE DEF c
<1>4. INVALID \in 0 .. INVALID
  BY WordFacts DEF INVALID, W
<1>5. /\ q \in Receivers /\ q.discard_line = c.discard_line /\ q.ring = c.ring
      /\ q.queued_safe = c.queued_safe /\ q.recovered_safe = c.recovered_safe
      /\ q.recovery_pos = c.recovery_pos /\ q.safe_state = INVALID
  BY <1>2, <1>3, <1>4 DEF Receivers
<1>6. Recovering(q, p) /\ Discarding(q, p) /\ Owing(q, o)
  BY <1>2, <1>5 DEF Recovering, Discarding, Owing
<1>7. m \in Lines /\ m.bad
  BY DEF Lines
<1>8. Recog(q, m)
  BY <1>5, <1>7 DEF Recog
<1>9. Saturated(q, o) \in Seq(Texts) /\ Safes(Saturated(q, o)) = q.queued_safe + q.recovered_safe
  BY <1>5, <1>6, ReceiverTypes, SaturatedOwes DEF Owing
<1> QED BY <1>1, <1>2, <1>5, <1>6, <1>7, <1>8, <1>9 DEF Consistent, Typing

\* Discarding ends at a line feed: the next line starts in a ring the core can rely on.
Restarted(r, q, p, o, safe) ==
  /\ q \in Receivers /\ SameLine(r, q) /\ ~q.discard_line
  /\ Recovering(q, p) /\ Following(q, p, o, Empty)
  /\ q.queued_safe = r.queued_safe
  /\ q.recovered_safe = IF r.recovered_safe + (IF safe THEN 1 ELSE 0) <= RECOVERED_MAX
                        THEN r.recovered_safe + (IF safe THEN 1 ELSE 0) ELSE RECOVERED_MAX
LEMMA Resumes ==
  ASSUME NEW r \in Receivers, NEW p \in Lines, NEW safe \in BOOLEAN, NEW o \in Seq(Texts),
         Recovering(r, p), Discarding(r, p),
         NEW q, q = Resumed(r, safe)
  PROVE  Restarted(r, q, p, o, safe)
<1> DEFINE count == IF safe THEN 1 ELSE 0
           c == recover_safe(r, count)
           entry == [byte |-> LF, safe_end |-> FALSE]
           poison == [byte |-> NUL, safe_end |-> FALSE]
<1>1. /\ c \in Receivers /\ SameLine(r, c) /\ c.recovery_pos = r.recovery_pos
      /\ c.ring = r.ring /\ c.queued_safe = r.queued_safe
      /\ c.recovered_safe = IF r.recovered_safe + count <= RECOVERED_MAX
                            THEN r.recovered_safe + count ELSE RECOVERED_MAX
  <2>1. count \in Nat
    OBVIOUS
  <2> HIDE DEF count
  <2>2. Recovered(r, c, count)
    BY <2>1, Recovers
  <2> QED BY <2>2 DEF Recovered
<1> DEFINE kept == Append(r.ring, entry)
<1>2. q = [c EXCEPT !.queued_safe = c.queued_safe, !.discard_line = FALSE, !.ring = kept]
  BY <1>1 DEF Resumed, Stored, Receivers
<1> HIDE DEF c
<1>3. entry \in Entries /\ poison \in Entries /\ entry.byte = LF /\ ~entry.safe_end
      /\ poison.byte = NUL /\ ~poison.safe_end
  BY WordFacts DEF Entries
<1>4. /\ r.queued_safe = 0
      /\ r.ring = <<poison>> \/ (r.ring = <<>> /\ r.recovered_safe = 0 /\ p.bad)
  BY DEF Discarding
<1> HIDE DEF entry, poison
<1>5. /\ kept \in Seq(Entries) /\ Len(kept) \in {1, 2}
      /\ r.ring = <<poison>> => Len(kept) = 2 /\ kept[1] = poison /\ kept[2] = entry
      /\ r.ring = <<>> => Len(kept) = 1 /\ kept[1] = entry
  <2>1. CASE r.ring = <<poison>>
    BY <1>3, <2>1
  <2>2. CASE r.ring = <<>>
    BY <1>3, <2>2
  <2> QED BY <1>4, <2>1, <2>2
<1> HIDE DEF kept
<1>6. /\ q \in Receivers /\ SameLine(c, q) /\ q.ring = kept /\ q.discard_line = FALSE
      /\ q.queued_safe = 0 /\ q.recovered_safe = c.recovered_safe /\ q.recovery_pos = c.recovery_pos
  <2>1. c.queued_safe \in Nat /\ c.queued_safe = 0 /\ Len(kept) < RX_RING_SIZE
    <3>1. RX_RING_SIZE >= 3 /\ RX_RING_SIZE \in Nat
      BY ReceiverTypes
    <3>2. Len(kept) = 1 \/ Len(kept) = 2
      BY <1>5
    <3>3. Len(kept) < RX_RING_SIZE
      <4>1. 1 < RX_RING_SIZE /\ 2 < RX_RING_SIZE
        BY <3>1
      <4> QED BY <3>2, <4>1
    <3> QED BY <1>1, <1>4, <3>3
  <2>2. NewQueue(c, q, kept, FALSE, c.queued_safe)
    BY <1>1, <1>2, <1>5, <2>1, Requeued
  <2> QED BY <2>1, <2>2 DEF NewQueue
<1>7. /\ ~q.discard_line /\ q.ring = kept /\ SameLine(r, q)
      /\ q.queued_safe = 0 /\ q.recovered_safe = c.recovered_safe /\ q.recovery_pos = r.recovery_pos
  BY <1>1, <1>6 DEF SameLine
<1>8. Recovering(q, p)
  BY <1>1, <1>7, ReceiverTypes DEF Recovering
<1>9. Following(q, p, o, Empty)
  <2> DEFINE first == IF q.recovered_safe > 0 THEN Empty ELSE p
             spoilt == Typed(first, NUL)
  <2>1. first \in Lines /\ Empty \in Lines /\ Len(o) \in Nat
    BY WordFacts, TypedLine
  <2>2. spoilt \in Lines /\ spoilt.bad
    <3>1. spoilt \in Lines
      BY <2>1, WordFacts, TypedLine
    <3>2. spoilt = [first EXCEPT !.bad = TRUE]
      BY WordFacts DEF Typed
    <3> HIDE DEF first, spoilt
    <3> QED BY <2>1, <3>1, <3>2 DEF Lines
  <2>3. Ends(q.ring) = {} /\ Cardinality(Ends(q.ring)) = 0
    <3>1. \A i \in DOMAIN q.ring : ~q.ring[i].safe_end
      <4>1. DOMAIN q.ring = 1 .. Len(kept) /\ q.ring = kept
        BY <1>5, <1>7
      <4>2. CASE r.ring = <<poison>>
        BY <1>3, <1>5, <4>1, <4>2
      <4>3. CASE r.ring = <<>>
        BY <1>3, <1>5, <4>1, <4>3
      <4> QED BY <1>4, <4>2, <4>3
    <3>2. Ends(q.ring) = {}
      BY <3>1 DEF Ends
    <3> QED BY <3>2, FS_EmptySet
  <2>4. ~Counts(Empty)
    BY DEF Counts, Empty
  <2> HIDE DEF first, spoilt
  <2>5. CASE r.ring = <<poison>>
    <3> DEFINE s == [i \in 0 .. 2 |-> IF i = 0 THEN first ELSE IF i = 1 THEN spoilt ELSE Empty]
               f == [i \in 1 .. 2 |-> 0]
    <3>1. Len(q.ring) = 2 /\ q.ring[1] = poison /\ q.ring[2] = entry
      BY <1>5, <1>7, <2>5
    <3>2. s \in [0 .. 2 -> Lines] /\ f \in [1 .. 2 -> 0 .. Len(o)] /\ f[1] = 0 /\ f[2] = 0
          /\ s[0] = first /\ s[1] = spoilt /\ s[2] = Empty
      BY <2>1, <2>2
    <3> HIDE DEF s, f
    <3>3. Sent(q, o, s, f, 1)
      BY <1>3, <3>1, <3>2, WordFacts DEF Sent, After, spoilt
    <3>4. Sent(q, o, s, f, 2)
      BY <1>3, <2>2, <3>1, <3>2 DEF Sent, After, Counts
    <3>5. \A i \in 1 .. 2 : i = 1 \/ i = 2
      OBVIOUS
    <3>6. Tracked(q, p, o, Empty, s, f)
      BY <1>7, <2>3, <3>1, <3>2, <3>3, <3>4, <3>5 DEF Tracked, Rising, first
    <3> QED BY <3>6 DEF Following
  <2>6. CASE r.ring = <<>>
    <3> DEFINE s == [i \in 0 .. 1 |-> IF i = 0 THEN first ELSE Empty]
               f == [i \in 1 .. 1 |-> 0]
    <3>1. Len(q.ring) = 1 /\ q.ring[1] = entry
      BY <1>5, <1>7, <2>6
    <3>2. s \in [0 .. 1 -> Lines] /\ f \in [1 .. 1 -> 0 .. Len(o)] /\ f[1] = 0
          /\ s[0] = first /\ s[1] = Empty
      BY <2>1
    <3>3. ~Counts(first)
      BY <1>4, <2>4, <2>6 DEF first, Counts
    <3> HIDE DEF s, f
    <3>4. Sent(q, o, s, f, 1)
      BY <1>3, <3>1, <3>2, <3>3 DEF Sent, After
    <3>5. \A i \in 1 .. 1 : i = 1
      OBVIOUS
    <3>6. Tracked(q, p, o, Empty, s, f)
      BY <1>7, <2>3, <3>1, <3>2, <3>4, <3>5 DEF Tracked, Rising, first
    <3> QED BY <3>6 DEF Following
  <2> QED BY <1>4, <2>5, <2>6
<1> QED BY <1>1, <1>4, <1>6, <1>7, <1>8, <1>9 DEF Restarted

\* A line more that is owed, or none.
More(o, x, ends, w) ==
  /\ w \in Seq(Texts) /\ Len(w) = Len(o) + (IF ends THEN 1 ELSE 0)
  /\ \A k \in 1 .. Len(o) : w[k] = o[k]
  /\ ends => w[Len(o) + 1] = x
  /\ \A k \in 0 .. Len(o) : Below(Words(w), k) = Below(Words(o), k)
  /\ Safes(w) = Safes(o) + (IF ends /\ x = WORD THEN 1 ELSE 0)

LEMMA OwedMore ==
  ASSUME NEW o \in Seq(Texts), NEW x \in Texts, NEW ends \in BOOLEAN,
         NEW w, w = IF ends THEN Append(o, x) ELSE o
  PROVE  More(o, x, ends, w)
<1>1. Len(o) \in Nat
  OBVIOUS
<1>2. /\ w \in Seq(Texts) /\ Len(w) = Len(o) + (IF ends THEN 1 ELSE 0)
      /\ \A k \in 1 .. Len(o) : w[k] = o[k]
      /\ ends => w[Len(o) + 1] = x
  <2>1. CASE ends
    BY <1>1, <2>1
  <2>2. CASE ~ends
    BY <1>1, <2>2
  <2> QED BY <2>1, <2>2
<1>3. /\ Words(o) \in SUBSET (1 .. Len(o)) /\ Words(w) \in SUBSET (1 .. Len(w))
      /\ Safes(o) = Below(Words(o), Len(o)) /\ Safes(w) = Below(Words(w), Len(w))
      /\ Safes(o) \in Nat
  BY <1>2, WordsIn
<1>4. /\ Words(o) \in SUBSET Nat /\ 0 \notin Words(o)
      /\ Words(w) \in SUBSET Nat /\ 0 \notin Words(w)
  BY <1>1, <1>2, <1>3
<1>5. ASSUME NEW k \in 0 .. Len(o) PROVE Below(Words(w), k) = Below(Words(o), k)
  <2>1. \A j \in 1 .. k : j \in Words(w) <=> j \in Words(o)
    <3> SUFFICES ASSUME NEW j \in 1 .. k PROVE j \in Words(w) <=> j \in Words(o)
      OBVIOUS
    <3>1. j \in DOMAIN o /\ j \in DOMAIN w /\ w[j] = o[j]
      BY <1>1, <1>2
    <3> QED BY <3>1 DEF Words
  <2>2. k \in Nat
    OBVIOUS
  <2> QED BY <1>4, <2>1, <2>2, BelowSame
<1>6. Below(Words(w), Len(o)) = Safes(o)
  <2>1. Len(o) \in 0 .. Len(o)
    BY <1>1
  <2> QED BY <1>3, <1>5, <2>1
<1>7. Safes(w) = Safes(o) + (IF ends /\ x = WORD THEN 1 ELSE 0)
  <2>1. CASE ends
    <3>1. Below(Words(w), Len(o) + 1) = Below(Words(w), Len(o)) + (IF Len(o) + 1 \in Words(w) THEN 1 ELSE 0)
      BY <1>1, <1>4, BelowStep
    <3>2. Len(o) + 1 \in Words(w) <=> x = WORD
      <4>1. Len(o) + 1 \in DOMAIN w
        BY <1>1, <1>2, <2>1
      <4> QED BY <1>2, <2>1, <4>1 DEF Words
    <3>3. Len(w) = Len(o) + 1
      BY <1>2, <2>1
    <3> QED BY <1>3, <1>6, <2>1, <3>1, <3>2, <3>3
  <2>2. CASE ~ends
    <3>1. Len(w) = Len(o)
      BY <2>2
    <3> QED BY <1>3, <1>6, <2>2, <3>1
  <2> QED BY <2>1, <2>2
<1> QED BY <1>2, <1>5, <1>7 DEF More

\* A byte appended to the ring: the core will make of it what the sender made of it.
Appended(r, q, p, w, m) ==
  /\ q \in Receivers /\ SameLine(r, q) /\ ~q.discard_line
  /\ Recovering(q, p) /\ Following(q, p, w, m)
  /\ w \in Seq(Texts) /\ Safes(w) = q.queued_safe + q.recovered_safe
LEMMA Stores ==
  ASSUME NEW r \in Receivers, NEW p \in Lines, NEW o \in Seq(Texts), NEW l \in Lines,
         NEW b \in BYTES, NEW safe \in BOOLEAN,
         ~r.discard_line, Len(r.ring) < RX_RING_SIZE - 1,
         Recovering(r, p), Following(r, p, o, l), Safes(o) = r.queued_safe + r.recovered_safe,
         safe <=> (b = LF /\ Counts(l) /\ LineOf(l.text) = WORD),
         NEW q, q = Stored(r, b, safe),
         NEW w, w = IF b = LF /\ Counts(l) THEN Append(o, LineOf(l.text)) ELSE o
  PROVE  Appended(r, q, p, w, After(l, b))
<1> DEFINE entry == [byte |-> b, safe_end |-> safe]
           count == IF safe THEN r.queued_safe + 1 ELSE r.queued_safe
           ring == Append(r.ring, entry)
           n == Len(r.ring)
<1>1. entry \in Entries /\ entry.byte = b /\ entry.safe_end = safe
  BY DEF Entries
<1>2. count \in Nat /\ n \in Nat /\ r.ring \in Seq(Entries)
  BY ReceiverTypes
<1>3. q = [r EXCEPT !.queued_safe = count, !.discard_line = FALSE, !.ring = ring]
  BY DEF Stored, Receivers
<1> HIDE DEF entry
<1>4. /\ ring \in Seq(Entries) /\ Len(ring) = n + 1
      /\ \A i \in 1 .. n : ring[i] = r.ring[i]
      /\ ring[n + 1] = entry
  BY <1>1, <1>2
<1>5. NewQueue(r, q, ring, FALSE, count)
  <2> HIDE DEF ring, count
  <2>1. Len(ring) < RX_RING_SIZE
    BY <1>2, <1>4, ReceiverTypes
  <2> QED BY <1>2, <1>3, <1>4, <2>1, Requeued
<1> HIDE DEF ring, count
<1>6. /\ q \in Receivers /\ SameLine(r, q) /\ q.ring = ring /\ q.discard_line = FALSE
      /\ q.queued_safe = count /\ q.recovered_safe = r.recovered_safe
      /\ q.recovery_pos = r.recovery_pos
  BY <1>5 DEF NewQueue
<1>7. Recovering(q, p)
  BY <1>6 DEF Recovering
<1> DEFINE ends == b = LF /\ Counts(l)
           x == LineOf(l.text)
<1>8. x \in Texts /\ Len(o) \in Nat
  BY LineIsSafe DEF Lines
<1>9. /\ w \in Seq(Texts) /\ Len(w) = Len(o) + (IF ends THEN 1 ELSE 0)
      /\ \A k \in 1 .. Len(o) : w[k] = o[k]
      /\ ends => w[Len(o) + 1] = x
      /\ \A k \in 0 .. Len(o) : Below(Words(w), k) = Below(Words(o), k)
      /\ Safes(w) = Safes(o) + (IF ends /\ x = WORD THEN 1 ELSE 0)
  <2>1. ends \in BOOLEAN /\ w = IF ends THEN Append(o, x) ELSE o
    BY DEF Counts, Lines
  <2> HIDE DEF ends, x
  <2>2. More(o, x, ends, w)
    BY <1>8, <2>1, OwedMore
  <2> QED BY <2>2 DEF More
<1>10. Safes(o) = Below(Words(o), Len(o)) /\ Safes(o) \in Nat
  BY WordsIn
<1>12. Safes(w) = count + r.recovered_safe
  <2>1. safe <=> ends /\ x = WORD
    OBVIOUS
  <2> HIDE DEF ends, x
  <2> QED BY <1>9, <1>10, <2>1, ReceiverTypes DEF count
<1>13. PICK s, f : Tracked(r, p, o, l, s, f)
  BY DEF Following
<1>14. /\ s \in [0 .. n -> Lines] /\ f \in [1 .. n -> 0 .. Len(o)]
       /\ s[0] = IF r.recovered_safe > 0 THEN Empty ELSE p
       /\ s[n] = l
       /\ \A i \in 1 .. n : Sent(r, o, s, f, i)
       /\ Rising(f, n)
       /\ r.queued_safe = Cardinality(Ends(r.ring))
  BY <1>13 DEF Tracked
<1> DEFINE t == [i \in 0 .. n + 1 |-> IF i <= n THEN s[i] ELSE After(l, b)]
           g == [i \in 1 .. n + 1 |-> IF i <= n THEN f[i] ELSE IF ends THEN Len(o) + 1 ELSE 0]
<1>15. /\ t \in [0 .. n + 1 -> Lines] /\ t[n + 1] = After(l, b)
       /\ \A i \in 0 .. n : t[i] = s[i]
  BY <1>2, <1>14, TypedLine
<1>16. /\ g \in [1 .. n + 1 -> 0 .. Len(w)] /\ g[n + 1] = IF ends THEN Len(o) + 1 ELSE 0
       /\ \A i \in 1 .. n : g[i] = f[i]
  <2> HIDE DEF ends, t
  <2>1. ASSUME NEW i \in 1 .. n + 1 PROVE (IF i <= n THEN f[i] ELSE IF ends THEN Len(o) + 1 ELSE 0) \in 0 .. Len(w)
    <3>1. CASE i <= n
      <4>1. i \in 1 .. n
        BY <1>2, <3>1
      <4>2. f[i] \in 0 .. Len(o)
        BY <1>14, <4>1
      <4> QED BY <1>8, <1>9, <3>1, <4>2
    <3>2. CASE ~(i <= n)
      BY <1>8, <1>9, <3>2
    <3> QED BY <3>1, <3>2
  <2>2. /\ g[n + 1] = IF ends THEN Len(o) + 1 ELSE 0
        /\ \A i \in 1 .. n : g[i] = f[i]
    BY <1>2
  <2> QED BY <2>1, <2>2
<1> HIDE DEF t, g, ends, x
<1>17. Ends(r.ring) \in SUBSET (1 .. n) /\ Ends(ring) \in SUBSET (1 .. n + 1)
       /\ Cardinality(Ends(r.ring)) = Below(Ends(r.ring), n)
       /\ Cardinality(Ends(ring)) = Below(Ends(ring), n + 1)
  BY <1>2, <1>4, EndsIn
<1>18. Ends(r.ring) \in SUBSET Nat /\ Ends(ring) \in SUBSET Nat /\ 0 \notin Ends(r.ring) /\ 0 \notin Ends(ring)
  BY <1>2, <1>17
<1>19. ASSUME NEW k \in 0 .. n PROVE Below(Ends(ring), k) = Below(Ends(r.ring), k)
  <2>1. \A j \in 1 .. k : j \in Ends(ring) <=> j \in Ends(r.ring)
    <3> SUFFICES ASSUME NEW j \in 1 .. k PROVE j \in Ends(ring) <=> j \in Ends(r.ring)
      OBVIOUS
    <3>1. j \in 1 .. n /\ j \in 1 .. n + 1
      BY <1>2
    <3>2. j \in DOMAIN r.ring
      BY <1>2, <3>1
    <3>3. j \in DOMAIN ring
      BY <1>4, <3>1
    <3>4. ring[j] = r.ring[j]
      BY <1>4, <3>1
    <3> QED BY <3>2, <3>3, <3>4 DEF Ends
  <2>2. k \in Nat
    BY <1>2
  <2> QED BY <1>18, <2>1, <2>2, BelowSame
<1>20. count = Cardinality(Ends(ring))
  <2>1. Below(Ends(ring), n) = r.queued_safe
    <3>1. n \in 0 .. n
      BY <1>2
    <3> QED BY <1>14, <1>17, <1>19, <3>1
  <2>2. Below(Ends(ring), n + 1) = Below(Ends(ring), n) + (IF n + 1 \in Ends(ring) THEN 1 ELSE 0)
    BY <1>2, <1>18, BelowStep
  <2>3. n + 1 \in Ends(ring) <=> safe
    <3>1. n + 1 \in DOMAIN ring
      BY <1>2, <1>4
    <3> QED BY <1>1, <1>4, <3>1 DEF Ends
  <2> QED BY <1>2, <1>17, <2>1, <2>2, <2>3, ReceiverTypes DEF count
<1>21. ASSUME NEW i \in 1 .. n PROVE Sent(q, w, t, g, i)
  <2>1. Sent(r, o, s, f, i)
    BY <1>14
  <2>2. t[i] = s[i] /\ t[i - 1] = s[i - 1] /\ g[i] = f[i] /\ q.ring[i] = r.ring[i]
    <3>1. i \in 0 .. n /\ i - 1 \in 0 .. n
      BY <1>2
    <3> QED BY <1>4, <1>6, <1>15, <1>16, <3>1
  <2>3. ASSUME g[i] # 0
        PROVE  /\ w[g[i]] = o[f[i]]
               /\ Below(Words(w), g[i] - 1) = Below(Words(o), f[i] - 1)
               /\ Below(Ends(q.ring), i - 1) = Below(Ends(r.ring), i - 1)
    <3>1. f[i] \in 1 .. Len(o) /\ f[i] - 1 \in 0 .. Len(o) /\ i - 1 \in 0 .. n
      BY <1>2, <1>8, <1>14, <2>2, <2>3
    <3>2. Below(Ends(ring), i - 1) = Below(Ends(r.ring), i - 1)
      BY <1>19, <3>1
    <3>3. Below(Words(w), f[i] - 1) = Below(Words(o), f[i] - 1) /\ w[f[i]] = o[f[i]]
      BY <1>9, <3>1
    <3> QED BY <1>6, <2>2, <3>2, <3>3
  <2> QED BY <1>6, <2>1, <2>2, <2>3 DEF Sent
<1>22. Sent(q, w, t, g, n + 1)
  <2>1. t[n + 1] = After(l, b) /\ t[n] = l /\ q.ring[n + 1] = entry
    <3>1. n \in 0 .. n
      BY <1>2
    <3>2. t[n] = s[n]
      BY <1>15, <3>1
    <3> QED BY <1>4, <1>6, <1>14, <1>15, <3>2
  <2>2. g[n + 1] # 0 <=> ends
    BY <1>8, <1>16
  <2>3. ASSUME ends
        PROVE  /\ w[g[n + 1]] = x /\ (safe <=> x = WORD)
               /\ Below(Words(w), g[n + 1] - 1) = r.recovered_safe + Below(Ends(ring), n)
    <3>1. g[n + 1] = Len(o) + 1 /\ g[n + 1] - 1 = Len(o)
      BY <1>8, <1>16, <2>3
    <3>2. w[g[n + 1]] = x
      BY <1>9, <2>3, <3>1
    <3>3. safe <=> x = WORD
      BY <2>3 DEF ends, x
    <3>4. Below(Words(w), Len(o)) = Safes(o)
      <4>1. Len(o) \in 0 .. Len(o)
        BY <1>8
      <4> QED BY <1>9, <1>10, <4>1
    <3>5. Below(Ends(ring), n) = r.queued_safe
      <4>1. n \in 0 .. n
        BY <1>2
      <4> QED BY <1>14, <1>17, <1>19, <4>1
    <3> QED BY <3>1, <3>2, <3>3, <3>4, <3>5, ReceiverTypes
  <2>4. (n + 1) - 1 = n
    BY <1>2
  <2>5. ~ends => ~safe
    BY DEF ends
  <2> QED BY <1>1, <1>6, <2>1, <2>2, <2>3, <2>4, <2>5 DEF Sent, ends, x
<1>23. Rising(g, n + 1)
  <2> SUFFICES ASSUME NEW i \in 1 .. n + 1, NEW j \in 1 .. n + 1, i < j, g[i] # 0, g[j] # 0
               PROVE  g[i] < g[j]
    BY DEF Rising
  <2>1. i \in 1 .. n /\ g[i] = f[i] /\ f[i] \in 0 .. Len(o)
    <3>1. i \in 1 .. n
      BY <1>2
    <3> QED BY <1>14, <1>16, <3>1
  <2>2. CASE j \in 1 .. n
    BY <1>14, <1>16, <2>1, <2>2 DEF Rising
  <2>3. CASE j = n + 1
    BY <1>8, <1>16, <2>1, <2>3
  <2> QED BY <1>2, <2>2, <2>3
<1>24. Tracked(q, p, w, After(l, b), t, g)
  <2>1. \A i \in 1 .. n + 1 : Sent(q, w, t, g, i)
    <3>1. \A i \in 1 .. n + 1 : i \in 1 .. n \/ i = n + 1
      BY <1>2
    <3> QED BY <1>21, <1>22, <3>1
  <2>2. Len(q.ring) = n + 1 /\ t[0] = s[0]
    BY <1>2, <1>4, <1>6, <1>15
  <2> QED BY <1>6, <1>14, <1>15, <1>16, <1>20, <1>23, <2>1, <2>2 DEF Tracked
<1> QED BY <1>6, <1>7, <1>9, <1>12, <1>24 DEF Following, Appended

\* The recognizer does not touch what the core is to get.
LEMMA SameQueueKeeps ==
  ASSUME NEW r, NEW p, NEW o, NEW l, NEW q, SameQueue(r, q)
  PROVE  /\ Recovering(r, p) => Recovering(q, p)
         /\ Discarding(r, p) => Discarding(q, p)
         /\ Following(r, p, o, l) => Following(q, p, o, l)
<1>1. /\ Recovering(r, p) => Recovering(q, p)
      /\ Discarding(r, p) => Discarding(q, p)
  BY DEF SameQueue, Recovering, Discarding
<1>2. ASSUME NEW s, NEW f, Tracked(r, p, o, l, s, f) PROVE Tracked(q, p, o, l, s, f)
  BY <1>2 DEF SameQueue, Tracked, Sent
<1> QED BY <1>1, <1>2 DEF Following

\* A byte received keeps everything in step.
LEMMA ByteKeeps ==
  ASSUME NEW r \in Receivers, NEW p \in Lines, NEW o \in Seq(Texts), NEW l \in Lines, NEW a,
         Consistent(r, p, o, a, l), NEW b \in BYTES,
         NEW q, q = Received(r, b),
         NEW w, w = IF b = LF /\ Counts(l) THEN Append(o, LineOf(l.text)) ELSE o
  PROVE  Consistent(q, p, Saturated(q, w), a, After(l, b))
<1> DEFINE safe == b = LF /\ Complete(r)
           seen == safe_byte(r, b)
           m == After(l, b)
           x == LineOf(l.text)
           ends == b = LF /\ Counts(l)
<1>1. /\ a = FALSE /\ Recog(r, l) /\ Recovering(r, p)
      /\ r.discard_line => Discarding(r, p)
      /\ ~r.discard_line => Following(r, p, o, l)
      /\ Safes(o) = r.queued_safe + r.recovered_safe
  BY DEF Consistent
<1>2. seen \in Receivers /\ SameQueue(r, seen) /\ Recog(seen, m) /\ m \in Lines
  BY <1>1, RecogFollows, TypedLine
<1>3. /\ Recovering(seen, p) /\ Safes(o) = seen.queued_safe + seen.recovered_safe
      /\ seen.discard_line => Discarding(seen, p)
      /\ ~seen.discard_line => Following(seen, p, o, l)
  <2> HIDE DEF seen
  <2>1. /\ seen.discard_line = r.discard_line /\ seen.queued_safe = r.queued_safe
        /\ seen.recovered_safe = r.recovered_safe
    BY <1>2 DEF SameQueue
  <2> QED BY <1>1, <1>2, <2>1, SameQueueKeeps
<1>4. safe \in BOOLEAN /\ (safe <=> (b = LF /\ Counts(l) /\ x = WORD))
  BY <1>1, CompleteMeans
<1>5. More(o, x, ends, w)
  <2>1. x \in Texts /\ ends \in BOOLEAN /\ w = IF ends THEN Append(o, x) ELSE o
    BY LineIsSafe DEF Lines, Counts
  <2> HIDE DEF x, ends
  <2> QED BY <2>1, OwedMore
<1>6. w \in Seq(Texts) /\ Safes(o) \in Nat /\ Safes(w) = Safes(o) + (IF safe THEN 1 ELSE 0)
  <2>1. safe <=> ends /\ x = WORD
    BY <1>4
  <2> HIDE DEF safe, ends, x
  <2> QED BY <1>5, <2>1, WordsIn DEF More
<1> HIDE DEF seen, m
<1>7. ASSUME q \in Receivers, Recog(q, m), Recovering(q, p),
             q.discard_line => Discarding(q, p), ~q.discard_line => Following(q, p, Saturated(q, w), m),
             Owing(q, w)
      PROVE  Consistent(q, p, Saturated(q, w), a, m)
  <2>1. Saturated(q, w) \in Seq(Texts) /\ Safes(Saturated(q, w)) = q.queued_safe + q.recovered_safe
    BY <1>6, <1>7, ReceiverTypes, SaturatedOwes DEF Owing
  <2> QED BY <1>1, <1>2, <1>7, <2>1 DEF Consistent, Typing
<1>8. CASE ~seen.discard_line /\ Len(seen.ring) < RX_RING_SIZE - 1
  <2>1. q = Stored(seen, b, safe)
    <3>1. ~Full(seen)
      BY <1>2, <1>8, ReceiverTypes DEF Full
    <3> QED BY <1>8, <3>1 DEF Received, seen
  <2> HIDE DEF safe
  <2>2. /\ q \in Receivers /\ SameLine(seen, q) /\ ~q.discard_line
        /\ Recovering(q, p) /\ Following(q, p, w, m)
        /\ Safes(w) = q.queued_safe + q.recovered_safe
    <3>1. Appended(seen, q, p, w, After(l, b))
      BY <1>2, <1>3, <1>4, <1>8, <2>1, Stores
    <3> QED BY <3>1 DEF Appended, m
  <2>3. Recog(q, m)
    BY <1>2, <2>2 DEF Recog, SameLine
  <2>4. Owing(q, w) /\ Saturated(q, w) = w
    <3>1. q.recovered_safe \in Nat /\ q.queued_safe \in Nat
      BY <2>2, ReceiverTypes
    <3>2. Owing(q, w)
      BY <2>2, <3>1 DEF Owing
    <3> QED BY <1>6, <2>2, <3>1, <3>2, SaturatedOwes DEF Owing
  <2> QED BY <1>7, <2>2, <2>3, <2>4 DEF m
<1>9. CASE ~(~seen.discard_line /\ Len(seen.ring) < RX_RING_SIZE - 1)
  <2> DEFINE c == IF Full(seen) THEN rx_reject(seen) ELSE seen
  <2>1. Owing(seen, o)
    BY <1>2, <1>3, ReceiverTypes DEF Owing
  <2>2. /\ c \in Receivers /\ SameLine(seen, c) /\ c.discard_line
        /\ Recovering(c, p) /\ Discarding(c, p) /\ Owing(c, o)
    <3>1. CASE Full(seen)
      <4>1. c = rx_reject(seen)
        BY <3>1
      <4> HIDE DEF c
      <4> QED BY <1>2, <1>3, <2>1, <4>1, Rejects
    <3>2. CASE ~Full(seen)
      <4>1. seen.discard_line
        <5>1. Len(seen.ring) < RX_RING_SIZE - 1 \/ Len(seen.ring) = RX_RING_SIZE - 1
          BY <1>2, ReceiverTypes
        <5> QED BY <1>9, <3>2, <5>1 DEF Full
      <4> QED BY <1>2, <1>3, <2>1, <3>2, <4>1 DEF SameLine
    <3> QED BY <3>1, <3>2
  <2>3. q = IF b # LF THEN c ELSE Resumed(c, safe)
    BY <2>2 DEF Received, seen
  <2> HIDE DEF c, safe
  <2>4. Recog(c, m)
    BY <1>2, <2>2 DEF Recog, SameLine
  <2>5. CASE b # LF
    <3>1. q = c /\ w = o
      BY <2>3, <2>5
    <3>2. Consistent(q, p, Saturated(q, w), a, m)
      BY <1>7, <2>2, <2>4, <3>1
    <3> QED BY <3>2 DEF m
  <2>6. CASE b = LF
    <3>1. q = Resumed(c, safe) /\ m = Empty
      BY <2>3, <2>6 DEF m, After
    <3>2. ASSUME NEW u \in Seq(Texts)
          PROVE  /\ q \in Receivers /\ SameLine(c, q) /\ ~q.discard_line
                 /\ Recovering(q, p) /\ Following(q, p, u, Empty)
                 /\ q.queued_safe = c.queued_safe
                 /\ q.recovered_safe = IF c.recovered_safe + (IF safe THEN 1 ELSE 0) <= RECOVERED_MAX
                                       THEN c.recovered_safe + (IF safe THEN 1 ELSE 0) ELSE RECOVERED_MAX
      <4>1. Restarted(c, q, p, u, safe)
        BY <1>4, <2>2, <3>1, Resumes
      <4> QED BY <4>1 DEF Restarted
    <3>3. Owing(q, w)
      <4>1. /\ q \in Receivers /\ q.queued_safe = c.queued_safe
            /\ q.recovered_safe = IF c.recovered_safe + (IF safe THEN 1 ELSE 0) <= RECOVERED_MAX
                                  THEN c.recovered_safe + (IF safe THEN 1 ELSE 0) ELSE RECOVERED_MAX
        BY <1>6, <3>2
      <4>2. /\ c.queued_safe \in Nat /\ c.recovered_safe \in 0 .. RECOVERED_MAX
            /\ RECOVERED_MAX \in Nat
        <5>1. c \in Receivers
          BY <2>2
        <5> QED BY <5>1, ReceiverTypes
      <4>3. CASE safe
        <5>1. /\ q.recovered_safe = IF c.recovered_safe + 1 <= RECOVERED_MAX
                                   THEN c.recovered_safe + 1 ELSE RECOVERED_MAX
              /\ q.queued_safe = c.queued_safe
          BY <4>1, <4>3
        <5>2. Safes(w) = Safes(o) + 1 /\ Safes(o) \in Nat
          BY <1>6, <4>3
        <5>3. /\ Safes(o) >= c.queued_safe + c.recovered_safe
              /\ c.recovered_safe < RECOVERED_MAX => Safes(o) = c.queued_safe + c.recovered_safe
          BY <2>2 DEF Owing
        <5> QED BY <4>2, <5>1, <5>2, <5>3 DEF Owing
      <4>4. CASE ~safe
        BY <1>6, <2>2, <4>1, <4>2, <4>4 DEF Owing
      <4> QED BY <4>3, <4>4
    <3>4. Saturated(q, w) \in Seq(Texts)
      BY <1>6, <3>2, <3>3, ReceiverTypes, SaturatedOwes DEF Owing
    <3>5. Recog(q, m)
      BY <2>4, <3>2, <3>4 DEF Recog, SameLine
    <3>6. Consistent(q, p, Saturated(q, w), a, m)
      BY <1>7, <3>1, <3>2, <3>3, <3>4, <3>5
    <3> QED BY <3>6 DEF m
  <2> QED BY <2>5, <2>6
<1> QED BY <1>8, <1>9

-----------------------------------------------------------------------------
(* The core reads.                                                         *)

\* A state as hal_console_read takes it.
Reading(r, p, o) == [rx |-> r, partial |-> p, owed |-> o, alien |-> FALSE]
ReadingKeeps(s, l) == \E r, p, o : s = Reading(r, p, o) /\ Consistent(r, p, o, FALSE, l)

\* What a change of one field makes of a read's state.
LEMMA ReadingParts ==
  ASSUME NEW r, NEW p, NEW o, NEW x
  PROVE  /\ [Reading(r, p, o) EXCEPT !.rx = x] = Reading(x, p, o)
         /\ [Reading(r, p, o) EXCEPT !.partial = x] = Reading(r, x, o)
         /\ [Reading(r, p, o) EXCEPT !.owed = x] = Reading(r, p, x)
         /\ Reading(r, p, o).rx = r /\ Reading(r, p, o).partial = p /\ Reading(r, p, o).owed = o
<1> DEFINE no == FALSE
<1>1. Reading(r, p, o) = [rx |-> r, partial |-> p, owed |-> o, alien |-> no]
  BY DEF Reading
<1>2. /\ Reading(x, p, o) = [rx |-> x, partial |-> p, owed |-> o, alien |-> no]
      /\ Reading(r, x, o) = [rx |-> r, partial |-> x, owed |-> o, alien |-> no]
      /\ Reading(r, p, x) = [rx |-> r, partial |-> p, owed |-> x, alien |-> no]
  BY DEF Reading
<1> HIDE DEF no
<1> QED BY <1>1, <1>2

\* j is a followed by b.
Joins(a, b, j, S) ==
  /\ j \in Seq(S) /\ Len(j) = Len(a) + Len(b)
  /\ \A k \in 1 .. Len(a) : j[k] = a[k]
  /\ \A k \in 1 .. Len(b) : j[k + Len(a)] = b[k]
LEMMA Joined ==
  ASSUME NEW S, NEW a \in Seq(S), NEW b \in Seq(S)
  PROVE  Joins(a, b, a \o b, S)
BY DEF Joins

\* The bytes of a recovered SAFE line.
LEMMA RecoveryBytes ==
  /\ Len(RecoveryText) = W + 3
  /\ RecoveryText[1] = NUL /\ RecoveryText[2] = LF /\ RecoveryText[W + 3] = LF
  /\ \A k \in 1 .. W : RecoveryText[k + 2] = WORD[k]
<1>1. WORD \in Seq(BYTES) /\ Len(WORD) = W /\ W \in Nat /\ W >= 1
  BY WordFacts DEF Texts, W
<1> DEFINE a == <<NUL, LF>>
           c == <<LF>>
<1>2. a \in Seq(BYTES) /\ Len(a) = 2 /\ a[1] = NUL /\ a[2] = LF
  BY WordFacts
<1>3. c \in Seq(BYTES) /\ Len(c) = 1 /\ c[1] = LF
  BY WordFacts
<1>4. RecoveryText = (a \o WORD) \o c
  BY DEF RecoveryText
<1> HIDE DEF a, c
<1> DEFINE d == a \o WORD
<1>5. d \in Seq(BYTES) /\ Len(d) = 2 + W
      /\ (\A k \in 1 .. 2 : d[k] = a[k]) /\ (\A k \in 1 .. W : d[k + 2] = WORD[k])
  <2>1. Joins(a, WORD, d, BYTES)
    BY <1>1, <1>2, Joined
  <2> HIDE DEF d
  <2> QED BY <1>1, <1>2, <2>1 DEF Joins
<1>6. RecoveryText = d \o c
  BY <1>4
<1> HIDE DEF d
<1>7. Len(RecoveryText) = 2 + W + 1
      /\ (\A k \in 1 .. 2 + W : RecoveryText[k] = d[k]) /\ RecoveryText[1 + (2 + W)] = c[1]
  <2>1. 1 \in 1 .. Len(c)
    BY <1>3
  <2>2. Joins(d, c, RecoveryText, BYTES)
    BY <1>3, <1>5, <1>6, Joined
  <2> QED BY <1>1, <1>3, <1>5, <2>1, <2>2 DEF Joins
<1>8. 1 \in 1 .. 2 /\ 2 \in 1 .. 2 /\ 1 \in 1 .. 2 + W /\ 2 \in 1 .. 2 + W
      /\ 1 + (2 + W) = W + 3 /\ 2 + W + 1 = W + 3
  BY <1>1
<1>9. ASSUME NEW k \in 1 .. W PROVE RecoveryText[k + 2] = WORD[k]
  <2>1. k + 2 \in 1 .. 2 + W
    BY <1>1
  <2> QED BY <1>5, <1>7, <2>1
<1>10. RecoveryText[1] = NUL /\ RecoveryText[2] = LF
  BY <1>2, <1>5, <1>7, <1>8
<1> QED BY <1>3, <1>7, <1>8, <1>9, <1>10

\* A byte of a recovered SAFE line takes the core along that line, and the last one gives
\* it the first SAFE line it is owed.
LEMMA RecoveryKeeps ==
  ASSUME NEW r, NEW p, NEW o, NEW l, Consistent(r, p, o, FALSE, l), r.recovered_safe > 0,
         NEW s, s = Reading(r, p, o)
  PROVE  ReadingKeeps(ReadOne(s), l)
<1> DEFINE pos == r.recovery_pos
           b == RecoveryText[pos + 1]
           c == FromRecovery(r)
           t == [s EXCEPT !.rx = c]
           u == ReadOne(s)
<1>1. /\ r \in Receivers /\ p \in Lines /\ o \in Seq(Texts) /\ l \in Lines
      /\ Recog(r, l) /\ Recovering(r, p)
      /\ r.discard_line => Discarding(r, p)
      /\ ~r.discard_line => Following(r, p, o, l)
      /\ Safes(o) = r.queued_safe + r.recovered_safe
  BY DEF Consistent, Typing
<1>2. s.rx = r
  BY ReadingParts
<1>3. u = Fed(t, b)
  BY <1>2 DEF ReadOne
<1>4. t = Reading(c, p, o) /\ t.partial = p
  <2> HIDE DEF c
  <2> QED BY ReadingParts
<1>5. pos \in 0 .. W + 2 /\ r.recovered_safe \in Nat /\ r.recovered_safe >= 1
      /\ r.queued_safe \in Nat /\ r.recovered_safe \in 0 .. RECOVERED_MAX
  BY <1>1, ReceiverTypes DEF Receivers
<1> HIDE DEF t, u
\* While discarding, or with recovered lines before it, the ring does not depend on partial.
<1>6. ASSUME NEW q \in Receivers, NEW z \in Lines, r.discard_line => Discarding(q, z),
             SameLine(r, q), q.ring = r.ring, q.discard_line = r.discard_line,
             q.queued_safe = r.queued_safe, q.recovered_safe = r.recovered_safe,
             Recovering(q, z)
      PROVE  Consistent(q, z, o, FALSE, l)
  <2>1. Recog(q, l)
    BY <1>1, <1>6 DEF Recog, SameLine
  <2>2. ASSUME ~r.discard_line PROVE Following(q, z, o, l)
    <3>1. PICK f, g : Tracked(r, p, o, l, f, g)
      BY <1>1, <2>2 DEF Following
    <3>2. Tracked(q, z, o, l, f, g)
      BY <1>6, <3>1 DEF Tracked, Sent
    <3> QED BY <3>2 DEF Following
  <2> QED BY <1>1, <1>6, <2>1, <2>2 DEF Consistent, Typing
<1>7. ASSUME pos < W + 2
      PROVE  /\ c = [r EXCEPT !.recovery_pos = pos + 1]
             /\ c \in Receivers /\ SameLine(r, c) /\ c.ring = r.ring /\ c.discard_line = r.discard_line
             /\ c.queued_safe = r.queued_safe /\ c.recovered_safe = r.recovered_safe
             /\ c.recovery_pos = pos + 1
  <2>1. c = [r EXCEPT !.recovery_pos = pos + 1]
    <3>1. pos # Len(RecoveryText) - 1
      BY <1>5, <1>7, RecoveryBytes, WordFacts
    <3> QED BY <1>1, <3>1 DEF FromRecovery, Receivers
  <2>2. pos + 1 \in 0 .. W + 2
    BY <1>5, <1>7, WordFacts
  <2> HIDE DEF c, pos
  <2> QED BY <1>1, <2>1, <2>2 DEF Receivers, SameLine
<1>8. ASSUME NEW z, pos < W + 2, u = Reading(c, z, o),
             z \in Lines, Recovering(c, z), r.discard_line => Discarding(c, z)
      PROVE  ReadingKeeps(u, l)
  <2> HIDE DEF c, pos
  <2>1. Consistent(c, z, o, FALSE, l)
    BY <1>6, <1>7, <1>8
  <2> QED BY <1>8, <2>1 DEF ReadingKeeps
\* A receiver that discards holds its NUL behind the recovered lines.
<1>9. ASSUME r.discard_line, NEW q, NEW z, q.ring = r.ring, q.queued_safe = r.queued_safe
      PROVE  Discarding(q, z)
  BY <1>1, <1>5, <1>9 DEF Discarding
<1>10. CASE pos = 0
  <2> DEFINE z == [p EXCEPT !.bad = TRUE]
  <2>1. b = NUL
    BY <1>10, RecoveryBytes
  <2>2. Typed(p, b) = z
    BY <2>1, WordFacts DEF Typed
  <2>3. u = Reading(c, z, o)
    <3> HIDE DEF c, z, b
    <3> QED BY <1>3, <1>4, <2>1, <2>2, WordFacts, ReadingParts DEF Fed
  <2>4. z \in Lines /\ z.bad
    BY <1>1 DEF Lines
  <2>5. pos < W + 2
    BY <1>10, WordFacts
  <2> HIDE DEF z, c
  <2>6. Recovering(c, z)
    BY <1>5, <1>7, <1>10, <2>4, <2>5 DEF Recovering
  <2>7. r.discard_line => Discarding(c, z)
    BY <1>7, <1>9, <2>5
  <2> QED BY <1>8, <2>3, <2>4, <2>5, <2>6, <2>7 DEF u
<1>11. CASE pos = 1
  <2>1. b = LF /\ p.bad
    BY <1>1, <1>11, RecoveryBytes DEF Recovering
  <2>2. u = Reading(c, Empty, o)
    <3> HIDE DEF c, b
    <3> QED BY <1>3, <1>4, <2>1, ReadingParts DEF Fed
  <2>3. pos < W + 2
    BY <1>11, WordFacts
  <2>4. Empty \in Lines /\ ~Empty.bad /\ Empty.text = SubSeq(WORD, 1, 0)
    BY <1>1, TypedLine, WordFacts DEF Empty
  <2> HIDE DEF c
  <2>5. c.recovery_pos = 2
    BY <1>7, <1>11, <2>3
  <2>6. Recovering(c, Empty)
    BY <1>5, <1>7, <2>3, <2>4, <2>5 DEF Recovering
  <2>7. r.discard_line => Discarding(c, Empty)
    BY <1>7, <1>9, <2>3
  <2> QED BY <1>8, <2>2, <2>3, <2>4, <2>6, <2>7 DEF u
<1>12. CASE pos > 1 /\ pos < W + 2
  <2> DEFINE k == pos - 2
  <2>1. k \in 0 .. W - 1 /\ k + 1 \in 1 .. W /\ pos + 1 = (k + 1) + 2
    BY <1>5, <1>12, WordFacts
  <2>2. b = WORD[k + 1]
    BY <2>1, RecoveryBytes
  <2>3. ~p.bad /\ p.text = SubSeq(WORD, 1, k)
    BY <1>1, <1>12 DEF Recovering
  <2> HIDE DEF k
  <2>4. /\ b \in BYTES /\ b # LF /\ b # CR /\ b # NUL
    BY <2>1, <2>2, WordFacts
  <2>5. Len(p.text) = k /\ k # CMD_LINE_MAX /\ Append(p.text, b) = SubSeq(WORD, 1, k + 1)
    <3>1. WORD \in Seq(BYTES) /\ Len(WORD) = W /\ W \in Nat /\ W <= CMD_LINE_MAX /\ CMD_LINE_MAX \in Nat
      BY WordFacts DEF Texts, W
    <3> HIDE DEF b
    <3>2. Len(SubSeq(WORD, 1, k)) = k /\ SubSeq(WORD, 1, k) \in Seq(BYTES)
      BY <2>1, <3>1
    <3>3. Append(SubSeq(WORD, 1, k), WORD[k + 1]) = SubSeq(WORD, 1, k + 1)
      BY <2>1, <3>1
    <3> QED BY <2>1, <2>2, <2>3, <3>1, <3>2, <3>3
  <2> DEFINE z == [p EXCEPT !.text = Append(p.text, b)]
  <2>6. Typed(p, b) = z
    BY <2>4, <2>5 DEF Typed
  <2>7. z \in Lines
    BY <1>1, <2>4, <2>6, TypedLine
  <2>8. ~z.bad /\ z.text = SubSeq(WORD, 1, k + 1)
    BY <1>1, <2>3, <2>5 DEF Lines
  <2>9. u = Reading(c, z, o)
    <3> HIDE DEF z, c, b
    <3> QED BY <1>3, <1>4, <2>4, <2>6, ReadingParts DEF Fed
  <2> HIDE DEF z, c
  <2>10. c.recovery_pos = pos + 1 /\ c.recovered_safe = r.recovered_safe
    BY <1>7, <1>12
  <2>11. Recovering(c, z)
    <3>1. pos + 1 - 2 = k + 1
      BY <1>5, <2>1
    <3> QED BY <1>5, <1>12, <2>8, <2>10, <3>1 DEF Recovering
  <2>12. r.discard_line => Discarding(c, z)
    BY <1>7, <1>9, <1>12
  <2> QED BY <1>8, <1>12, <2>7, <2>9, <2>11, <2>12 DEF u
<1>13. CASE pos = W + 2
  <2>1. b = LF
    <3>1. pos + 1 = W + 3
      BY <1>13, WordFacts
    <3> QED BY <3>1, RecoveryBytes
  <2>2. ~p.bad /\ p.text = WORD /\ WORD # <<>>
    <3>1. pos > 1 /\ pos - 2 = W
      BY <1>13, WordFacts
    <3>2. ~p.bad /\ p.text = SubSeq(WORD, 1, W)
      BY <1>1, <3>1 DEF Recovering
    <3>3. SubSeq(WORD, 1, W) = WORD
      BY WordFacts DEF W, Texts
    <3> QED BY <3>2, <3>3, WordFacts DEF W
  <2>3. LineOf(WORD) = WORD
    BY DEF LineOf
  <2> DEFINE v == [t EXCEPT !.partial = Empty]
  <2>4. v = Reading(c, Empty, o) /\ v.owed = o
    <3> HIDE DEF c
    <3> QED BY <1>4, ReadingParts
  <2>5. u = Got(v, WORD)
    <3> HIDE DEF b
    <3> QED BY <1>3, <1>4, <2>1, <2>2, <2>3 DEF Fed
  <2>6. c = [r EXCEPT !.recovery_pos = 0, !.recovered_safe = r.recovered_safe - 1]
    <3>1. pos = Len(RecoveryText) - 1
      BY <1>13, RecoveryBytes, WordFacts
    <3> QED BY <3>1 DEF FromRecovery
  <2> HIDE DEF v, c
  <2>7. /\ c \in Receivers /\ SameLine(r, c) /\ c.ring = r.ring /\ c.discard_line = r.discard_line
        /\ c.queued_safe = r.queued_safe /\ c.recovered_safe = r.recovered_safe - 1
        /\ c.recovery_pos = 0
    <3>1. 0 \in 0 .. W + 2 /\ r.recovered_safe - 1 \in 0 .. RECOVERED_MAX
      BY <1>1, <1>5, ReceiverTypes, WordFacts
    <3> QED BY <1>1, <2>6, <3>1 DEF Receivers, SameLine
  \* The first SAFE line that is owed.
  <2> DEFINE A == Words(o)
  <2>8. /\ Len(o) \in Nat /\ A \in SUBSET (1 .. Len(o)) /\ A \in SUBSET Nat
        /\ Safes(o) = Below(A, Len(o))
    BY <1>1, WordsIn
  <2>9. PICK k \in A : \A y \in A : ~(y < k)
    <3>1. A # {}
      <4> SUFFICES ASSUME A = {} PROVE FALSE
        OBVIOUS
      <4>1. Below(A, Len(o)) = 0
        BY <2>8, BelowNone
      <4> QED BY <1>1, <1>5, <2>8, <4>1
    <3> HIDE DEF A
    <3>2. \E k \in A : \A y \in A : ~(<<y, k>> \in OpToRel(<, Nat))
      BY <2>8, <3>1, NatLessThanWellFounded, WFMin
    <3> QED BY <2>8, <3>2 DEF OpToRel
  <2>10. k \in 1 .. Len(o) /\ o[k] = WORD /\ Below(A, k - 1) = 0 /\ Below(A, k) = 1
    <3>1. k \in 1 .. Len(o) /\ o[k] = WORD
      BY <2>8, <2>9 DEF Words
    <3> HIDE DEF A
    <3>2. k - 1 \in Nat /\ (k - 1) + 1 = k
      BY <2>8, <3>1
    <3>3. ASSUME NEW y \in A PROVE ~(y <= k - 1)
      BY <2>8, <2>9, <3>1
    <3>4. Below(A, k - 1) = 0
      BY <2>8, <3>2, <3>3, BelowNone
    <3>5. Below(A, (k - 1) + 1) = Below(A, k - 1) + (IF (k - 1) + 1 \in A THEN 1 ELSE 0)
      BY <2>8, <3>2, BelowStep
    <3> QED BY <2>9, <3>1, <3>2, <3>4, <3>5
  <2>11. PICK n \in 1 .. k : Cuts(v, WORD, n, Got(v, WORD))
    <3>2. /\ v.owed \in Seq(Texts) /\ k \in 1 .. Len(v.owed) /\ v.owed[k] = WORD
          /\ Below(Words(v.owed), k - 1) = 0
      BY <1>1, <2>4, <2>10
    <3> QED BY <3>2, GotOwed
  <2>12. n = k
    <3>1. n \in 1 .. Len(o)
      BY <2>8, <2>10
    <3>2. n \in A
      BY <2>4, <2>11, <3>1 DEF Words, Cuts
    <3> HIDE DEF A
    <3> QED BY <2>8, <2>9, <2>10, <3>1, <3>2
  <2> DEFINE w == SubSeq(o, k + 1, Len(o))
  <2>13. u = Reading(c, Empty, w)
    <3>1. u = [v EXCEPT !.owed = w]
      BY <2>4, <2>5, <2>11, <2>12 DEF Cuts
    <3> HIDE DEF w
    <3> QED BY <2>4, <3>1, ReadingParts
  <2>14. /\ w \in Seq(Texts) /\ Len(w) = Len(o) - k
         /\ \A j \in 1 .. Len(w) : w[j] = o[j + k]
         /\ \A j \in 0 .. Len(w) : Below(A, j + k) = 1 + Below(Words(w), j)
    <3>1. w = SubSeq(o, k + 1, Len(o)) /\ k \in 1 .. Len(o)
      BY <2>10
    <3> HIDE DEF w
    <3>2. Remains(o, k, w)
      BY <1>1, <3>1, OwedAfter
    <3> QED BY <2>10, <3>2 DEF Remains
  <2> HIDE DEF w
  <2>15. Safes(w) = c.queued_safe + c.recovered_safe
    <3>1. Safes(w) = Below(Words(w), Len(w)) /\ Len(w) \in Nat /\ Safes(w) \in Nat
      BY <2>14, WordsIn
    <3>2. Len(w) \in 0 .. Len(w) /\ Len(w) + k = Len(o)
      BY <2>8, <2>10, <2>14, <3>1
    <3>3. Below(A, Len(o)) = 1 + Below(Words(w), Len(w))
      BY <2>14, <3>2
    <3> HIDE DEF A
    <3>4. r.queued_safe + r.recovered_safe = 1 + Safes(w)
      BY <1>1, <2>8, <3>1, <3>3
    <3> QED BY <1>5, <2>7, <3>1, <3>4
  <2>16. Recovering(c, Empty)
    BY <2>7 DEF Recovering
  <2>17. ASSUME ~r.discard_line PROVE Following(c, Empty, w, l)
    <3>1. PICK f, g : Tracked(r, p, o, l, f, g)
      BY <1>1, <2>17 DEF Following
    <3> DEFINE m == Len(r.ring)
               h == [i \in 1 .. m |-> IF g[i] = 0 THEN 0 ELSE g[i] - k]
    <3>2. /\ f \in [0 .. m -> Lines] /\ g \in [1 .. m -> 0 .. Len(o)]
          /\ f[0] = Empty /\ f[m] = l
          /\ \A i \in 1 .. m : Sent(r, o, f, g, i)
          /\ Rising(g, m) /\ r.queued_safe = Cardinality(Ends(r.ring))
      BY <1>5, <3>1 DEF Tracked
    <3>3. m \in Nat /\ Ends(r.ring) \in SUBSET Nat
      BY <1>1, ReceiverTypes, EndsIn
    <3>4. ASSUME NEW i \in 1 .. m, g[i] # 0
          PROVE  /\ g[i] > k /\ g[i] - k \in 1 .. Len(w) /\ w[g[i] - k] = o[g[i]]
                 /\ Below(Words(w), g[i] - k - 1) = c.recovered_safe + Below(Ends(r.ring), i - 1)
      <4>1. Below(A, g[i] - 1) = r.recovered_safe + Below(Ends(r.ring), i - 1)
        BY <3>2, <3>4 DEF Sent
      <4>2. g[i] \in 1 .. Len(o) /\ i - 1 \in Nat
        BY <2>8, <3>2, <3>3, <3>4
      <4>3. Below(Ends(r.ring), i - 1) \in Nat
        BY <3>3, <4>2, BelowFinite
      <4>4. g[i] > k
        <5> SUFFICES ASSUME g[i] <= k PROVE FALSE
          BY <2>10, <4>2
        <5>1. g[i] - 1 \in Nat /\ k - 1 \in Nat /\ g[i] - 1 <= k - 1
          BY <2>8, <2>10, <4>2
        <5>2. Below(A, g[i] - 1) <= Below(A, k - 1)
          BY <2>8, <5>1, BelowMore
        <5> HIDE DEF A
        <5> QED BY <1>5, <2>10, <4>1, <4>3, <5>2
      <4>5. g[i] - k \in 1 .. Len(w) /\ (g[i] - k) + k = g[i]
        BY <2>8, <2>10, <2>14, <4>2, <4>4
      <4>6. g[i] - k - 1 \in 0 .. Len(w) /\ (g[i] - k - 1) + k = g[i] - 1
        <5>1. Len(w) \in Nat /\ g[i] \in Nat /\ k \in Nat
          BY <2>8, <2>10, <2>14, <4>2
        <5> QED BY <4>5, <5>1
      <4>7. Below(A, g[i] - 1) = 1 + Below(Words(w), g[i] - k - 1)
        BY <2>14, <4>6
      <4>8. Below(Words(w), g[i] - k - 1) \in Nat
        <5>1. Words(w) \in SUBSET Nat /\ g[i] - k - 1 \in Nat
          BY <2>14, <4>6, WordsIn
        <5> QED BY <5>1, BelowFinite
      <4>9. Below(Words(w), g[i] - k - 1) = c.recovered_safe + Below(Ends(r.ring), i - 1)
        <5> HIDE DEF A
        <5>1. 1 + Below(Words(w), g[i] - k - 1) = r.recovered_safe + Below(Ends(r.ring), i - 1)
          BY <4>1, <4>7
        <5>2. c.recovered_safe = r.recovered_safe - 1 /\ r.recovered_safe \in Nat
          BY <1>5, <2>7
        <5> HIDE DEF w
        <5> QED BY <4>3, <4>8, <5>1, <5>2
      <4> QED BY <2>14, <4>4, <4>5, <4>9
    <3>5. /\ h \in [1 .. m -> 0 .. Len(w)]
          /\ \A i \in 1 .. m : h[i] = IF g[i] = 0 THEN 0 ELSE g[i] - k
      <4>1. ASSUME NEW i \in 1 .. m PROVE (IF g[i] = 0 THEN 0 ELSE g[i] - k) \in 0 .. Len(w)
        <5>1. Len(w) \in Nat
          BY <2>14
        <5> QED BY <3>4, <5>1
      <4> QED BY <4>1
    <3> HIDE DEF h
    <3>6. ASSUME NEW i \in 1 .. m PROVE Sent(c, w, f, h, i)
      <4>1. Sent(r, o, f, g, i) /\ h[i] = IF g[i] = 0 THEN 0 ELSE g[i] - k
        BY <3>2, <3>5
      <4>2. CASE g[i] = 0
        BY <2>7, <4>1, <4>2 DEF Sent
      <4>3. CASE g[i] # 0
        <5>1. /\ h[i] # 0 /\ w[h[i]] = o[g[i]]
              /\ Below(Words(w), h[i] - 1) = c.recovered_safe + Below(Ends(c.ring), i - 1)
          BY <2>7, <3>4, <4>1, <4>3
        <5> QED BY <2>7, <4>1, <4>3, <5>1 DEF Sent
      <4> QED BY <4>2, <4>3
    <3>7. Rising(h, m)
      <4> SUFFICES ASSUME NEW i \in 1 .. m, NEW j \in 1 .. m, i < j, h[i] # 0, h[j] # 0
                   PROVE  h[i] < h[j]
        BY DEF Rising
      <4>1. g[i] # 0 /\ g[j] # 0 /\ h[i] = g[i] - k /\ h[j] = g[j] - k
        BY <3>5
      <4>2. g[i] < g[j] /\ g[i] \in 0 .. Len(o) /\ g[j] \in 0 .. Len(o)
        BY <3>2, <4>1 DEF Rising
      <4> QED BY <2>8, <2>10, <4>1, <4>2
    <3>8. Tracked(c, Empty, w, l, f, h)
      BY <2>7, <3>2, <3>5, <3>6, <3>7 DEF Tracked
    <3> QED BY <3>8 DEF Following
  <2>18. Recog(c, l)
    BY <1>1, <2>7 DEF Recog, SameLine
  <2>19. Empty \in Lines
    BY <1>1, TypedLine, WordFacts
  <2>20. Consistent(c, Empty, w, FALSE, l)
    <3>1. r.discard_line => Discarding(c, Empty)
      BY <1>9, <2>7
    <3>2. c.discard_line = r.discard_line
      BY <2>7
    <3>3. Typing(c, Empty, w, l)
      BY <1>1, <2>7, <2>14, <2>19 DEF Typing
    <3> QED BY <2>15, <2>16, <2>17, <2>18, <3>1, <3>2, <3>3 DEF Consistent
  <2> QED BY <2>13, <2>20 DEF ReadingKeeps, u
<1>14. pos = 0 \/ pos = 1 \/ (pos > 1 /\ pos < W + 2) \/ pos = W + 2
  BY <1>5, WordFacts
<1> QED BY <1>10, <1>11, <1>12, <1>13, <1>14

\* A byte from the ring is the first step of what the ring holds.
LEMMA RingShift ==
  ASSUME NEW r \in Receivers, NEW p, NEW o \in Seq(Texts), NEW l, NEW h, NEW f,
         Tracked(r, p, o, l, h, f), r.ring # <<>>, r.recovered_safe = 0, ~r.discard_line,
         Safes(o) = r.queued_safe + r.recovered_safe,
         NEW k \in 0 .. Len(o), NEW w, Remains(o, k, w),
         Below(Words(o), k) = (IF Head(r.ring).safe_end THEN 1 ELSE 0),
         \A i \in 2 .. Len(r.ring) : f[i] # 0 => f[i] > k,
         NEW c, c = FromRing(r)
  PROVE  /\ c \in Receivers /\ SameLine(r, c) /\ ~c.discard_line
         /\ c.recovered_safe = 0 /\ c.recovery_pos = r.recovery_pos
         /\ Following(c, h[1], w, l) /\ Safes(w) = c.queued_safe
<1> DEFINE n == Len(r.ring)
           tail == Tail(r.ring)
           one == IF Head(r.ring).safe_end THEN 1 ELSE 0
           count == IF Head(r.ring).safe_end THEN r.queued_safe - 1 ELSE r.queued_safe
           A == Ends(r.ring)
           B == Ends(tail)
           C == Words(o)
<1>1. /\ r.ring \in Seq(Entries) /\ n \in Nat /\ n >= 1 /\ Head(r.ring) = r.ring[1]
      /\ r.queued_safe \in Nat /\ n < RX_RING_SIZE /\ RX_RING_SIZE \in Nat
  BY ReceiverTypes
<1>2. /\ tail \in Seq(Entries) /\ Len(tail) = n - 1 /\ n - 1 \in Nat
      /\ \A i \in 1 .. n - 1 : tail[i] = r.ring[i + 1]
  BY <1>1
<1> HIDE DEF tail
<1>3. /\ h \in [0 .. n -> Lines] /\ f \in [1 .. n -> 0 .. Len(o)]
      /\ h[n] = l /\ \A i \in 1 .. n : Sent(r, o, h, f, i)
      /\ Rising(f, n) /\ r.queued_safe = Cardinality(A)
  BY DEF Tracked
<1>4. /\ A \in SUBSET (1 .. n) /\ Cardinality(A) = Below(A, n)
      /\ B \in SUBSET (1 .. n - 1) /\ Cardinality(B) = Below(B, n - 1)
  BY <1>1, <1>2, EndsIn
<1>5. A \in SUBSET Nat /\ B \in SUBSET Nat /\ 0 \notin A /\ 0 \notin B
  BY <1>1, <1>2, <1>4
<1>6. Below(A, 1) = one
  <2>1. Below(A, 0) = 0
    BY <1>5, BelowNone
  <2>2. Below(A, 0 + 1) = Below(A, 0) + (IF 0 + 1 \in A THEN 1 ELSE 0)
    BY <1>5, BelowStep
  <2>3. 1 \in A <=> Head(r.ring).safe_end
    <3>1. 1 \in DOMAIN r.ring
      BY <1>1
    <3> QED BY <1>1, <3>1 DEF Ends
  <2> HIDE DEF A
  <2> QED BY <2>1, <2>2, <2>3
<1>7. ASSUME NEW j \in 0 .. n - 1
      PROVE  Below(A, j + 1) = one + Below(B, j) /\ Below(B, j) \in Nat
  <2>1. \A i \in 1 .. j : i \in B <=> i + 1 \in A
    <3> SUFFICES ASSUME NEW i \in 1 .. j PROVE i \in B <=> i + 1 \in A
      OBVIOUS
    <3>1. i \in 1 .. n - 1 /\ i + 1 \in 1 .. n
      BY <1>1
    <3>2. i \in DOMAIN tail /\ i + 1 \in DOMAIN r.ring /\ tail[i] = r.ring[i + 1]
      BY <1>1, <1>2, <3>1
    <3> QED BY <3>2 DEF Ends
  <2>2. j \in Nat
    BY <1>1
  <2> HIDE DEF A, B, one
  <2>3. Below(A, j + 1) = Below(A, 1) + Below(B, j)
    BY <1>5, <2>1, <2>2, BelowShift
  <2> QED BY <1>5, <1>6, <2>2, <2>3, BelowFinite
<1>8. r.queued_safe = one + Cardinality(B) /\ Cardinality(B) \in Nat
  <2>1. n - 1 \in 0 .. n - 1 /\ (n - 1) + 1 = n
    BY <1>1
  <2> HIDE DEF A, B, one
  <2> QED BY <1>3, <1>4, <1>7, <2>1
<1>9. count = Cardinality(B) /\ count \in Nat
  <2> HIDE DEF B
  <2> QED BY <1>1, <1>8
<1>10. NewQueue(r, c, tail, FALSE, count)
  <2>1. c = [r EXCEPT !.queued_safe = count, !.discard_line = FALSE, !.ring = tail]
    BY DEF FromRing, tail, Receivers
  <2> HIDE DEF count
  <2>2. Len(tail) < RX_RING_SIZE
    BY <1>1, <1>2
  <2> QED BY <1>2, <1>9, <2>1, <2>2, Requeued
<1> HIDE DEF count
<1>11. /\ c \in Receivers /\ SameLine(r, c) /\ c.discard_line = FALSE /\ c.ring = tail
       /\ c.queued_safe = count /\ c.recovered_safe = 0 /\ c.recovery_pos = r.recovery_pos
  BY <1>10 DEF NewQueue
<1>12. /\ w \in Seq(Texts) /\ Len(w) = Len(o) - k /\ Len(w) \in Nat /\ Len(o) \in Nat
       /\ \A i \in 1 .. Len(w) : w[i] = o[i + k]
       /\ \A i \in 0 .. Len(w) : Below(C, i + k) = one + Below(Words(w), i)
  <2>1. w \in Seq(Texts) /\ Len(w) \in Nat /\ Len(o) \in Nat
    BY DEF Remains
  <2> QED BY <2>1 DEF Remains
<1>13. Safes(w) = count
  <2>1. Safes(w) = Below(Words(w), Len(w)) /\ Safes(w) \in Nat /\ Safes(o) = Below(C, Len(o))
    BY <1>12, WordsIn
  <2>2. Len(w) \in 0 .. Len(w) /\ Len(w) + k = Len(o)
    BY <1>12
  <2>3. Below(C, Len(o)) = one + Safes(w)
    BY <1>12, <2>1, <2>2
  <2>4. Safes(o) = one + Cardinality(B)
    BY <1>1, <1>8
  <2>5. one \in Nat
    OBVIOUS
  <2> HIDE DEF one, B, C
  <2> QED BY <1>8, <1>9, <2>1, <2>3, <2>4, <2>5
<1> DEFINE t == [i \in 0 .. n - 1 |-> h[i + 1]]
           g == [i \in 1 .. n - 1 |-> IF f[i + 1] = 0 THEN 0 ELSE f[i + 1] - k]
<1>14. /\ t \in [0 .. n - 1 -> Lines] /\ t[n - 1] = l /\ t[0] = h[1]
       /\ \A i \in 0 .. n - 1 : t[i] = h[i + 1]
  <2>1. \A i \in 0 .. n - 1 : i + 1 \in 0 .. n
    BY <1>1
  <2>2. 0 \in 0 .. n - 1 /\ n - 1 \in 0 .. n - 1 /\ (n - 1) + 1 = n
    BY <1>1
  <2> QED BY <1>3, <2>1, <2>2
<1>15. ASSUME NEW i \in 1 .. n - 1
       PROVE  /\ i + 1 \in 2 .. n /\ i + 1 \in 1 .. n /\ (i + 1) - 1 = i
              /\ f[i + 1] \in 0 .. Len(o)
              /\ f[i + 1] # 0 => f[i + 1] > k
  <2>1. i + 1 \in 2 .. n /\ i + 1 \in 1 .. n /\ (i + 1) - 1 = i
    BY <1>1
  <2> QED BY <1>3, <2>1
<1>16. ASSUME NEW i \in 1 .. n - 1, f[i + 1] # 0
       PROVE  /\ f[i + 1] - k \in 1 .. Len(w) /\ w[f[i + 1] - k] = o[f[i + 1]]
              /\ Below(Words(w), f[i + 1] - k - 1) = Below(B, i - 1)
  <2> DEFINE j == f[i + 1]
  <2>1. j \in 1 .. Len(o) /\ j > k
    <3>1. j \in 0 .. Len(o) /\ j > k
      BY <1>15, <1>16
    <3>2. j # 0
      BY <1>16
    <3> HIDE DEF j
    <3> QED BY <1>12, <3>1, <3>2
  <2>2. Sent(r, o, h, f, i + 1)
    BY <1>3, <1>15
  <2>3. Below(C, j - 1) = Below(A, i)
    <3>1. Below(C, j - 1) = r.recovered_safe + Below(A, (i + 1) - 1)
      BY <1>16, <2>2 DEF Sent
    <3>2. i \in Nat /\ (i + 1) - 1 = i
      BY <1>15
    <3>3. Below(A, i) \in Nat
      BY <1>5, <3>2, BelowFinite
    <3> HIDE DEF A, C, j
    <3> QED BY <3>1, <3>2, <3>3
  <2> HIDE DEF j
  <2>4. j - k \in 1 .. Len(w) /\ (j - k) + k = j /\ j - k - 1 \in 0 .. Len(w) /\ (j - k - 1) + k = j - 1
    <3>1. j \in Nat /\ k \in Nat /\ Len(w) \in Nat /\ Len(w) = Len(o) - k /\ Len(o) \in Nat
      BY <1>12, <2>1
    <3> QED BY <2>1, <3>1
  <2>5. Below(C, j - 1) = one + Below(Words(w), j - k - 1)
    BY <1>12, <2>4
  <2>6. Below(A, i) = one + Below(B, i - 1) /\ Below(B, i - 1) \in Nat
    <3>1. i - 1 \in 0 .. n - 1 /\ (i - 1) + 1 = i
      BY <1>1
    <3> QED BY <1>7, <3>1
  <2>7. Below(Words(w), j - k - 1) \in Nat
    <3>1. Words(w) \in SUBSET Nat /\ j - k - 1 \in Nat
      BY <1>12, <2>4, WordsIn
    <3> QED BY <3>1, BelowFinite
  <2>8. one \in Nat
    OBVIOUS
  <2>9. Below(Words(w), j - k - 1) = Below(B, i - 1)
    <3> HIDE DEF A, B, C, one
    <3> QED BY <2>3, <2>5, <2>6, <2>7, <2>8
  <2> QED BY <1>12, <2>4, <2>9 DEF j
<1>17. /\ g \in [1 .. n - 1 -> 0 .. Len(w)]
       /\ \A i \in 1 .. n - 1 : g[i] = IF f[i + 1] = 0 THEN 0 ELSE f[i + 1] - k
  <2>1. ASSUME NEW i \in 1 .. n - 1 PROVE (IF f[i + 1] = 0 THEN 0 ELSE f[i + 1] - k) \in 0 .. Len(w)
    BY <1>12, <1>16
  <2> QED BY <2>1
<1> HIDE DEF t, g
<1>18. ASSUME NEW i \in 1 .. n - 1 PROVE Sent(c, w, t, g, i)
  <2>1. Sent(r, o, h, f, i + 1) /\ (i + 1) - 1 = i
    BY <1>3, <1>15
  <2>2. i \in 0 .. n - 1 /\ i - 1 \in 0 .. n - 1 /\ (i - 1) + 1 = i
    BY <1>1
  <2>3. t[i] = h[i + 1] /\ t[i - 1] = h[i] /\ c.ring[i] = r.ring[i + 1]
    BY <1>2, <1>11, <1>14, <2>2
  <2>4. g[i] = IF f[i + 1] = 0 THEN 0 ELSE f[i + 1] - k
    BY <1>17
  <2>5. CASE f[i + 1] = 0
    BY <2>1, <2>3, <2>4, <2>5 DEF Sent
  <2>6. CASE f[i + 1] # 0
    <3>1. /\ g[i] # 0 /\ w[g[i]] = o[f[i + 1]]
          /\ Below(Words(w), g[i] - 1) = Below(B, i - 1)
      <4>1. g[i] = f[i + 1] - k
        BY <2>4, <2>6
      <4>2. g[i] \in 1 .. Len(w)
        BY <1>16, <2>6, <4>1
      <4>3. w[g[i]] = o[f[i + 1]] /\ Below(Words(w), g[i] - 1) = Below(B, i - 1)
        BY <1>16, <2>6, <4>1
      <4> QED BY <1>12, <4>2, <4>3
    <3>2. Below(B, i - 1) = c.recovered_safe + Below(Ends(c.ring), i - 1)
      BY <1>7, <1>11, <2>2
    <3> HIDE DEF B
    <3> QED BY <2>1, <2>3, <2>6, <3>1, <3>2 DEF Sent
  <2> QED BY <2>5, <2>6
<1>19. Rising(g, n - 1)
  <2> SUFFICES ASSUME NEW i \in 1 .. n - 1, NEW j \in 1 .. n - 1, i < j, g[i] # 0, g[j] # 0
               PROVE  g[i] < g[j]
    BY DEF Rising
  <2>1. f[i + 1] # 0 /\ f[j + 1] # 0 /\ g[i] = f[i + 1] - k /\ g[j] = f[j + 1] - k
    BY <1>17
  <2>2. i + 1 \in 1 .. n /\ j + 1 \in 1 .. n /\ i + 1 < j + 1
    BY <1>1
  <2>3. f[i + 1] < f[j + 1]
    BY <1>3, <2>1, <2>2 DEF Rising
  <2>4. f[i + 1] \in 0 .. Len(o) /\ f[j + 1] \in 0 .. Len(o)
    BY <1>3, <2>2
  <2> QED BY <1>12, <2>1, <2>3, <2>4
<1>20. Tracked(c, h[1], w, l, t, g)
  <2>1. Len(c.ring) = n - 1 /\ ~(c.recovered_safe > 0)
    BY <1>2, <1>11
  <2>2. \A i \in 1 .. n - 1 : Sent(c, w, t, g, i)
    BY <1>18
  <2> QED BY <1>9, <1>11, <1>14, <1>17, <1>19, <2>1, <2>2 DEF Tracked
<1> QED BY <1>11, <1>13, <1>20 DEF Following

\* Nothing is taken: all that was owed remains.
LEMMA RemainsAll ==
  ASSUME NEW o \in Seq(Texts)
  PROVE  Remains(o, 0, o) /\ Below(Words(o), 0) = 0
<1>1. Words(o) \in SUBSET (1 .. Len(o)) /\ Len(o) \in Nat /\ Words(o) \in SUBSET Nat
  BY WordsIn
<1>2. Below(Words(o), 0) = 0
  BY <1>1, BelowNone
<1>3. ASSUME NEW n \in 0 .. Len(o)
      PROVE  Below(Words(o), n + 0) = Below(Words(o), 0) + Below(Words(o), n)
  <2>1. Below(Words(o), n) \in Nat /\ n + 0 = n
    <3>1. n \in Nat
      BY <1>1
    <3>2. n + 0 = n
      BY <3>1
    <3>3. Words(o) \in SUBSET Nat
      BY <1>1
    <3>4. Below(Words(o), n) \in Nat
      BY <3>1, <3>3, BelowFinite
    <3> QED BY <3>2, <3>4
  <2> QED BY <1>2, <2>1
<1>4. Len(o) = Len(o) - 0 /\ \A k \in 1 .. Len(o) : o[k] = o[k + 0]
  BY <1>1
<1> QED BY <1>2, <1>3, <1>4 DEF Remains

\* A byte from the ring gives the core the line that the sender ended there, if any.
LEMMA RingKeeps ==
  ASSUME NEW r, NEW p, NEW o, NEW l, Consistent(r, p, o, FALSE, l),
         ~(r.recovered_safe > 0), r.ring # <<>>, NEW s, s = Reading(r, p, o)
  PROVE  ReadingKeeps(ReadOne(s), l)
<1> DEFINE b == Head(r.ring).byte
           c == FromRing(r)
           t == [s EXCEPT !.rx = c]
           u == ReadOne(s)
<1>1. /\ r \in Receivers /\ p \in Lines /\ o \in Seq(Texts) /\ l \in Lines
      /\ Recog(r, l) /\ Recovering(r, p)
      /\ r.discard_line => Discarding(r, p)
      /\ ~r.discard_line => Following(r, p, o, l)
      /\ Safes(o) = r.queued_safe + r.recovered_safe
  BY DEF Consistent, Typing
<1>2. s.rx = r
  BY ReadingParts
<1>3. u = Fed(t, b)
  BY <1>2 DEF ReadOne
<1>4. t = Reading(c, p, o) /\ t.partial = p
  <2> HIDE DEF c
  <2> QED BY ReadingParts
<1> HIDE DEF t, u, c
<1>5. /\ r.recovered_safe = 0 /\ r.ring \in Seq(Entries) /\ r.recovery_pos = 0
      /\ Len(r.ring) \in Nat /\ Len(r.ring) >= 1 /\ Head(r.ring) = r.ring[1] /\ b \in BYTES
  <2>1. r.recovered_safe = 0 /\ r.ring \in Seq(Entries)
    BY <1>1, ReceiverTypes
  <2>2. r.recovery_pos = 0
    BY <1>1 DEF Recovering, Receivers
  <2>3. Len(r.ring) \in Nat /\ Len(r.ring) >= 1 /\ Head(r.ring) = r.ring[1] /\ r.ring[1] \in Entries
    BY <2>1
  <2> QED BY <2>1, <2>2, <2>3 DEF Entries
<1>6. ASSUME NEW z \in Lines, NEW w \in Seq(Texts), u = Reading(c, z, w),
             c \in Receivers, SameLine(r, c), c.recovery_pos = r.recovery_pos,
             c.discard_line => Discarding(c, z), ~c.discard_line => Following(c, z, w, l),
             Safes(w) = c.queued_safe + c.recovered_safe
      PROVE  ReadingKeeps(u, l)
  <2>1. Recog(c, l)
    BY <1>1, <1>6 DEF Recog, SameLine
  <2>2. Recovering(c, z)
    BY <1>5, <1>6 DEF Recovering
  <2>3. Consistent(c, z, w, FALSE, l)
    BY <1>1, <1>6, <2>1, <2>2 DEF Consistent, Typing
  <2> QED BY <1>6, <2>3 DEF ReadingKeeps
<1>7. CASE r.discard_line
  <2> DEFINE z == [p EXCEPT !.bad = TRUE]
  <2>1. r.queued_safe = 0 /\ r.ring = <<[byte |-> NUL, safe_end |-> FALSE]>>
    BY <1>1, <1>7 DEF Discarding
  <2>2. b = NUL /\ ~Head(r.ring).safe_end /\ Tail(r.ring) = <<>>
    BY <2>1
  <2>3. Typed(p, b) = z
    BY <2>2, WordFacts DEF Typed
  <2>4. z \in Lines /\ z.bad
    BY <1>1 DEF Lines
  <2> HIDE DEF z
  <2>5. u = Reading(c, z, o)
    <3> HIDE DEF b
    <3> QED BY <1>3, <1>4, <2>2, <2>3, WordFacts, ReadingParts DEF Fed
  <2>6. NewQueue(r, c, <<>>, TRUE, 0)
    <3> DEFINE none == <<>>
    <3>1. none \in Seq(Entries) /\ Len(none) < RX_RING_SIZE /\ 0 \in Nat /\ TRUE \in BOOLEAN
      BY <1>1, ReceiverTypes
    <3>2. c = [r EXCEPT !.queued_safe = 0, !.discard_line = TRUE, !.ring = none]
      <4>1. c = [r EXCEPT !.ring = none, !.queued_safe = 0]
        BY <2>1, <2>2 DEF FromRing, c
      <4>2. r = [r EXCEPT !.discard_line = TRUE]
        BY <1>1, <1>7 DEF Receivers
      <4> HIDE DEF none
      <4> QED BY <1>1, <1>7, <4>1, <4>2 DEF Receivers
    <3> HIDE DEF none
    <3>3. NewQueue(r, c, none, TRUE, 0)
      BY <1>1, <3>1, <3>2, Requeued
    <3> QED BY <3>3 DEF none
  <2>7. /\ c \in Receivers /\ SameLine(r, c) /\ c.discard_line = TRUE /\ c.ring = <<>>
        /\ c.queued_safe = 0 /\ c.recovered_safe = r.recovered_safe /\ c.recovery_pos = r.recovery_pos
    BY <2>6 DEF NewQueue
  <2>8. Discarding(c, z)
    BY <1>5, <2>4, <2>7 DEF Discarding
  <2>9. Safes(o) = c.queued_safe + c.recovered_safe
    BY <1>1, <2>1, <2>7
  <2> QED BY <1>1, <1>6, <2>4, <2>5, <2>7, <2>8, <2>9 DEF u
<1>8. CASE ~r.discard_line
  <2>1. PICK h, f : Tracked(r, p, o, l, h, f)
    BY <1>1, <1>8 DEF Following
  <2> DEFINE n == Len(r.ring)
             A == Words(o)
             one == IF Head(r.ring).safe_end THEN 1 ELSE 0
  <2>2. /\ h[0] = p /\ f \in [1 .. n -> 0 .. Len(o)] /\ Rising(f, n) /\ Sent(r, o, h, f, 1)
        /\ h \in [0 .. n -> Lines]
    <3>1. 1 \in 1 .. n
      BY <1>5
    <3> QED BY <1>5, <2>1, <3>1 DEF Tracked
  <2>3. /\ h[1] = After(p, b)
        /\ f[1] # 0 <=> (b = LF /\ Counts(p))
        /\ f[1] = 0 => ~Head(r.ring).safe_end
        /\ f[1] # 0 => /\ o[f[1]] = LineOf(p.text) /\ (Head(r.ring).safe_end <=> o[f[1]] = WORD)
                       /\ Below(A, f[1] - 1) = Below(Ends(r.ring), 0)
    <3>1. 1 - 1 = 0
      OBVIOUS
    <3>2. Below(Ends(r.ring), 0) \in Nat
      <4>1. Ends(r.ring) \in SUBSET (1 .. n)
        BY <1>5, EndsIn
      <4>2. Ends(r.ring) \in SUBSET Nat
        BY <1>5, <4>1
      <4> QED BY <4>2, BelowFinite
    <3> QED BY <1>5, <2>2, <3>1, <3>2 DEF Sent
  <2>4. Below(Ends(r.ring), 0) = 0
    <3>1. Ends(r.ring) \in SUBSET (1 .. n)
      BY <1>5, EndsIn
    <3>2. Ends(r.ring) \in SUBSET Nat /\ \A k \in Ends(r.ring) : ~(k <= 0)
      BY <1>5, <3>1
    <3> QED BY <3>2, BelowNone
  <2>5. h[1] \in Lines /\ Len(o) \in Nat /\ f[1] \in 0 .. Len(o)
    <3>1. 1 \in 0 .. n /\ 1 \in 1 .. n
      BY <1>5
    <3> QED BY <1>1, <2>2, <3>1
  <2>6. ASSUME NEW k \in 0 .. Len(o), NEW w, Remains(o, k, w), Below(A, k) = one,
               \A i \in 2 .. n : f[i] # 0 => f[i] > k,
               u = Reading(c, h[1], w)
        PROVE  ReadingKeeps(u, l)
    <3>1. /\ c \in Receivers /\ SameLine(r, c) /\ ~c.discard_line
          /\ c.recovered_safe = 0 /\ c.recovery_pos = r.recovery_pos
          /\ Following(c, h[1], w, l) /\ Safes(w) = c.queued_safe
      BY <1>1, <1>5, <1>8, <2>1, <2>6, RingShift DEF c
    <3>2. w \in Seq(Texts) /\ c.queued_safe \in Nat
      BY <2>6, <3>1, ReceiverTypes DEF Remains
    <3>3. Safes(w) = c.queued_safe + c.recovered_safe
      BY <3>1, <3>2
    <3> QED BY <1>6, <2>5, <2>6, <3>1, <3>2, <3>3
  <2>7. CASE f[1] = 0
    <3>1. Remains(o, 0, o) /\ Below(A, 0) = one
      BY <1>1, <2>3, <2>7, RemainsAll
    <3>2. \A i \in 2 .. n : f[i] # 0 => f[i] > 0
      <4> SUFFICES ASSUME NEW i \in 2 .. n PROVE f[i] \in 0 .. Len(o)
        BY <2>5
      <4>1. i \in 1 .. n
        BY <1>5
      <4> QED BY <2>2, <4>1
    <3>3. u = Reading(c, h[1], o)
      <4>1. CASE b # LF
        <5>1. h[1] = Typed(p, b)
          BY <2>3, <4>1 DEF After
        <5> HIDE DEF b
        <5> QED BY <1>3, <1>4, <4>1, <5>1, ReadingParts DEF Fed
      <4>2. CASE b = LF
        <5>1. h[1] = Empty /\ (p.bad \/ p.text = <<>>)
          BY <2>3, <2>7, <4>2 DEF After, Counts
        <5> HIDE DEF b
        <5> QED BY <1>3, <1>4, <4>2, <5>1, ReadingParts DEF Fed
      <4> QED BY <4>1, <4>2
    <3>4. 0 \in 0 .. Len(o)
      BY <2>5
    <3>5. ReadingKeeps(u, l)
      <4> HIDE DEF one, A
      <4> QED BY <2>6, <3>1, <3>2, <3>3, <3>4
    <3> QED BY <3>5 DEF u
  <2>8. CASE f[1] # 0
    <3> DEFINE x == LineOf(p.text)
               v == Reading(c, Empty, o)
    <3>1. b = LF /\ ~p.bad /\ p.text # <<>> /\ h[1] = Empty
      BY <2>3, <2>8 DEF After, Counts
    <3>2. u = Got(v, x)
      <4> HIDE DEF b
      <4> QED BY <1>3, <1>4, <3>1, ReadingParts DEF Fed
    <3>3. v.owed = o /\ f[1] \in 1 .. Len(o) /\ o[f[1]] = x /\ Below(A, f[1] - 1) = 0
      BY <2>3, <2>4, <2>5, <2>8, ReadingParts
    <3> HIDE DEF v, x
    <3>4. PICK k \in 1 .. f[1] : Cuts(v, x, k, Got(v, x))
      <4>1. /\ v.owed \in Seq(Texts) /\ f[1] \in 1 .. Len(v.owed) /\ v.owed[f[1]] = x
            /\ Below(Words(v.owed), f[1] - 1) = 0
        BY <1>1, <3>3
      <4> QED BY <4>1, GotOwed
    <3> DEFINE w == SubSeq(o, k + 1, Len(o))
    <3>5. /\ k \in 1 .. Len(o) /\ k \in 0 .. Len(o) /\ o[k] = x /\ Got(v, x) = [v EXCEPT !.owed = w]
      BY <2>5, <3>3, <3>4 DEF Cuts
    <3>6. Remains(o, k, w)
      <4>1. w = SubSeq(o, k + 1, Len(o))
        OBVIOUS
      <4> HIDE DEF w
      <4> QED BY <1>1, <3>5, <4>1, OwedAfter
    <3> HIDE DEF w
    <3>7. u = Reading(c, h[1], w)
      BY <3>1, <3>2, <3>5, ReadingParts DEF v
    <3>8. Below(A, k) = one
      <4>1. A \in SUBSET Nat /\ A \in SUBSET (1 .. Len(o))
        BY <1>1, WordsIn
      <4>2. k - 1 \in Nat /\ f[1] - 1 \in Nat /\ k - 1 <= f[1] - 1 /\ (k - 1) + 1 = k
        BY <2>5, <3>3, <3>4
      <4>3. Below(A, k - 1) <= Below(A, f[1] - 1) /\ Below(A, k - 1) \in Nat
        BY <4>1, <4>2, BelowMore, BelowFinite
      <4>4. Below(A, (k - 1) + 1) = Below(A, k - 1) + (IF (k - 1) + 1 \in A THEN 1 ELSE 0)
        BY <4>1, <4>2, BelowStep
      <4>5. k \in A <=> Head(r.ring).safe_end
        <5>1. k \in DOMAIN o
          BY <3>5
        <5> QED BY <2>3, <2>8, <3>3, <3>5, <5>1 DEF Words
      <4> HIDE DEF A
      <4> QED BY <3>3, <4>2, <4>3, <4>4, <4>5
    <3>9. \A i \in 2 .. n : f[i] # 0 => f[i] > k
      <4> SUFFICES ASSUME NEW i \in 2 .. n, f[i] # 0 PROVE f[i] > k
        OBVIOUS
      <4>1. 1 \in 1 .. n /\ i \in 1 .. n /\ 1 < i
        BY <1>5
      <4>2. f[1] < f[i] /\ f[i] \in 0 .. Len(o)
        BY <2>2, <2>8, <4>1 DEF Rising
      <4> QED BY <2>5, <3>4, <4>2
    <3>10. ReadingKeeps(u, l)
      <4> HIDE DEF one, A
      <4> QED BY <2>6, <3>5, <3>6, <3>7, <3>8, <3>9
    <3> QED BY <3>10 DEF u
  <2> QED BY <2>7, <2>8
<1> QED BY <1>7, <1>8

\* One byte of a read keeps the reception consistent, wherever the byte comes from.
LEMMA ReadOneKeeps ==
  ASSUME NEW s, NEW l, ReadingKeeps(s, l)
  PROVE  ReadingKeeps(ReadOne(s), l)
<1>1. PICK r, p, o : s = Reading(r, p, o) /\ Consistent(r, p, o, FALSE, l)
  BY DEF ReadingKeeps
<1>2. s.rx = r
  BY <1>1, ReadingParts
<1>3. CASE r.recovered_safe > 0
  BY <1>1, <1>3, RecoveryKeeps
<1>4. CASE ~(r.recovered_safe > 0) /\ r.ring # <<>>
  BY <1>1, <1>4, RingKeeps
<1>5. CASE ~(r.recovered_safe > 0) /\ r.ring = <<>>
  <2>1. ReadOne(s) = s
    BY <1>2, <1>5 DEF ReadOne
  <2> QED BY <2>1
<1> QED BY <1>3, <1>4, <1>5

\* As many bytes as the buffer takes.
LEMMA ReadKeeps ==
  ASSUME NEW max \in Nat, NEW now, NEW l, ReadingKeeps(now, l),
         NEW after, after = CHOOSE f : f = [n \in 0 .. max |-> IF n = 0 THEN now ELSE ReadOne(f[n - 1])]
  PROVE  ReadingKeeps(after[max], l)
<1> DEFINE Run(f, m) == f = [n \in 0 .. m |-> IF n = 0 THEN now ELSE ReadOne(f[n - 1])]
           Good(m) == \E f : Run(f, m)
           Bad == {m \in Nat : ~Good(m)}
<1>1. Good(0)
  <2>1. Run([n \in 0 .. 0 |-> now], 0)
    OBVIOUS
  <2> QED BY <2>1
<1>2. ASSUME NEW m \in Nat, Good(m) PROVE Good(m + 1)
  <2>1. PICK f : Run(f, m)
    BY <1>2
  <2> DEFINE g == [n \in 0 .. m + 1 |-> IF n = m + 1 THEN ReadOne(f[m]) ELSE f[n]]
  <2>2. ASSUME NEW n \in 0 .. m + 1
        PROVE  g[n] = IF n = 0 THEN now ELSE ReadOne(g[n - 1])
    <3>1. CASE n = m + 1
      <4>1. m \in 0 .. m + 1 /\ n - 1 = m /\ m # m + 1 /\ n # 0
        BY <3>1
      <4>2. g[m] = f[m] /\ g[n] = ReadOne(f[m])
        BY <3>1, <4>1
      <4> HIDE DEF g
      <4> QED BY <3>1, <4>1, <4>2
    <3>2. CASE n # m + 1
      <4>1. n \in 0 .. m /\ (n # 0 => n - 1 \in 0 .. m + 1 /\ n - 1 # m + 1)
        BY <3>2
      <4>2. g[n] = f[n] /\ (n # 0 => g[n - 1] = f[n - 1])
        BY <3>2, <4>1
      <4>3. f[n] = IF n = 0 THEN now ELSE ReadOne(f[n - 1])
        BY <2>1, <4>1
      <4> HIDE DEF g
      <4> QED BY <4>2, <4>3
    <3> QED BY <3>1, <3>2
  <2>3. Run(g, m + 1)
    <3>1. g = [n \in 0 .. m + 1 |-> g[n]]
      OBVIOUS
    <3> HIDE DEF g
    <3> QED BY <2>2, <3>1
  <2> HIDE DEF g
  <2> QED BY <2>3
<1> HIDE DEF Good
<1>3. Good(max)
  <2> SUFFICES ASSUME Bad # {} PROVE FALSE
    OBVIOUS
  <2>1. PICK m \in Bad : \A y \in Bad : ~(y < m)
    <3>1. Bad \in SUBSET Nat
      OBVIOUS
    <3> HIDE DEF Bad
    <3>2. \E m \in Bad : \A y \in Bad : ~(<<y, m>> \in OpToRel(<, Nat))
      BY <3>1, NatLessThanWellFounded, WFMin
    <3> QED BY <3>1, <3>2 DEF OpToRel
  <2>2. m # 0 /\ m \in Nat
    BY <1>1
  <2>3. m - 1 \in Nat /\ m - 1 \notin Bad /\ m - 1 + 1 = m
    BY <2>1, <2>2
  <2>4. Good(m - 1 + 1)
    BY <1>2, <2>3
  <2> QED BY <2>3, <2>4
<1>4. Run(after, max)
  BY <1>3 DEF Good
<1> DEFINE Wrong == {m \in 0 .. max : ~ReadingKeeps(after[m], l)}
<1>5. Wrong = {}
  <2> SUFFICES ASSUME Wrong # {} PROVE FALSE
    OBVIOUS
  <2>1. PICK m \in Wrong : \A y \in Wrong : ~(y < m)
    <3>1. Wrong \in SUBSET Nat
      OBVIOUS
    <3> HIDE DEF Wrong
    <3>2. \E m \in Wrong : \A y \in Wrong : ~(<<y, m>> \in OpToRel(<, Nat))
      BY <3>1, NatLessThanWellFounded, WFMin
    <3> QED BY <3>1, <3>2 DEF OpToRel
  <2>2. m \in 0 .. max /\ after[m] = IF m = 0 THEN now ELSE ReadOne(after[m - 1])
    BY <1>4
  <2>3. m # 0
    BY <2>1, <2>2
  <2>4. m - 1 \in 0 .. max /\ m - 1 \notin Wrong
    BY <2>1, <2>2, <2>3
  <2>5. ReadingKeeps(after[m - 1], l)
    BY <2>4
  <2>6. ReadingKeeps(after[m], l)
    BY <2>2, <2>3, <2>5, ReadOneKeeps
  <2> QED BY <2>6
<1>6. max \in 0 .. max /\ max \notin Wrong
  BY <1>5
<1> QED BY <1>6

-----------------------------------------------------------------------------
(* The theorem.                                                            *)

\* hal_console_init: nothing is sent, received or owed.
LEMMA InitConsistent == Init => Inv
<1> SUFFICES ASSUME Init PROVE Inv
  OBVIOUS
<1> DEFINE none == <<>>
<1>1. none \in Seq(Entries) /\ none \in Seq(Texts) /\ none \in Seq(BYTES) /\ Len(none) = 0
  OBVIOUS
<1>2. /\ rx.ring = none /\ ~rx.discard_line /\ rx.queued_safe = 0 /\ rx.recovered_safe = 0
      /\ rx.line_len = 0 /\ rx.recovery_pos = 0 /\ rx.safe_state = 0
      /\ partial = Empty /\ line = Empty /\ owed = none /\ alien = FALSE
  BY DEF Init
<1>3. Empty \in Lines /\ Empty.text = none /\ ~Empty.bad
  <2>1. Empty \in Lines
    BY <1>1, WordFacts DEF Empty, Lines, Texts
  <2> QED BY <2>1 DEF Empty
<1>4. rx \in Receivers
  <2>1. 0 \in Nat /\ 0 \in 0 .. RECOVERED_MAX /\ 0 \in 0 .. CMD_LINE_MAX + 1 /\ 0 \in 0 .. W + 2
        /\ 0 \in 0 .. INVALID /\ 0 < RX_RING_SIZE
    BY WordFacts, ConsoleAssumption DEF INVALID, W
  <2>2. rx = [ring |-> none, discard_line |-> FALSE, queued_safe |-> 0, recovered_safe |-> 0,
              line_len |-> 0, recovery_pos |-> 0, safe_state |-> 0]
    BY DEF Init
  <2> HIDE DEF none
  <2> QED BY <1>1, <2>1, <2>2 DEF Receivers
<1>5. Recog(rx, line)
  <2>1. ReachedAt(0, none, 0)
    BY <1>1, WordFacts DEF ReachedAt
  <2>2. Reached(0, none)
    BY <1>1, <2>1 DEF Reached
  <2> HIDE DEF none
  <2> QED BY <1>1, <1>2, <1>3, <2>2, WordFacts DEF Recog
<1>6. Following(rx, partial, owed, line)
  <2> DEFINE s == [i \in 0 .. 0 |-> Empty]
             f == [i \in 1 .. 0 |-> 0]
  <2>1. /\ s \in [0 .. 0 -> Lines] /\ s[0] = Empty
        /\ f \in [1 .. 0 -> 0 .. Len(owed)]
    BY <1>3
  <2>2. Ends(rx.ring) = {}
    BY <1>1, <1>2 DEF Ends
  <2>3. \A i \in 1 .. 0 : FALSE
    OBVIOUS
  <2> HIDE DEF s, f, none
  <2>4. Tracked(rx, partial, owed, line, s, f)
    BY <1>1, <1>2, <2>1, <2>2, <2>3, FS_EmptySet DEF Tracked, Rising
  <2> QED BY <2>4 DEF Following
<1>7. Safes(owed) = 0
  <2>1. Words(owed) = {} /\ Safes(owed) = Cardinality(Words(owed))
    BY <1>1, <1>2 DEF Words, Safes
  <2> QED BY <2>1, FS_EmptySet
<1>8. Recovering(rx, partial)
  BY <1>2 DEF Recovering
<1> HIDE DEF none
<1>9. Typing(rx, partial, owed, line)
  BY <1>1, <1>2, <1>3, <1>4 DEF Typing
<1> QED BY <1>2, <1>5, <1>6, <1>7, <1>8, <1>9 DEF Inv, Consistent

\* Every interrupt and every read keep the reception consistent.
LEMMA StepConsistent == Inv /\ [Next]_vars => Inv'
<1> SUFFICES ASSUME Inv, [Next]_vars PROVE Inv'
  OBVIOUS
<1>1. /\ Consistent(rx, partial, owed, alien, line)
      /\ rx \in Receivers /\ partial \in Lines /\ owed \in Seq(Texts) /\ line \in Lines /\ alien = FALSE
  BY DEF Inv, Consistent, Typing
<1>2. ASSUME NEW r, NEW p, NEW o, NEW a, NEW l, Consistent(r, p, o, a, l),
             rx' = r, partial' = p, owed' = o, alien' = a, line' = l
      PROVE  Inv'
  BY <1>2 DEF Inv
<1>3. CASE LineError
  <2> DEFINE q == AfterError(rx)
             m == [line EXCEPT !.bad = TRUE]
             w == Saturated(q, owed)
  <2>1. rx' = q /\ line' = m /\ owed' = w /\ partial' = partial /\ alien' = alien
    BY <1>3 DEF LineError
  <2>2. Consistent(q, partial, w, alien, m)
    BY <1>1, ErrorKeeps
  <2> HIDE DEF q, m, w
  <2> QED BY <2>1, <2>2, <1>2
<1>4. ASSUME NEW b \in FEED, Byte(b) PROVE Inv'
  <2> DEFINE q == Received(rx, b)
             m == After(line, b)
             u == IF b = LF /\ Counts(line) THEN Append(owed, LineOf(line.text)) ELSE owed
             w == Saturated(q, u)
  <2>1. rx' = q /\ line' = m /\ owed' = w /\ partial' = partial /\ alien' = alien
    BY <1>4 DEF Byte, After, Counts
  <2>2. b \in BYTES
    BY ConsoleAssumption
  <2>3. Consistent(q, partial, w, alien, m)
    BY <1>1, <2>2, ByteKeeps
  <2> HIDE DEF q, m, w
  <2> QED BY <2>1, <2>3, <1>2
<1>5. ASSUME NEW max \in CHUNKS, hal_console_read(max) PROVE Inv'
  <2> DEFINE now == [rx |-> rx, partial |-> partial, owed |-> owed, alien |-> alien]
             after == CHOOSE f : f = [n \in 0 .. max |-> IF n = 0 THEN now ELSE ReadOne(f[n - 1])]
  <2>1. /\ rx' = after[max].rx /\ partial' = after[max].partial
        /\ owed' = after[max].owed /\ alien' = after[max].alien /\ line' = line
    BY <1>5 DEF hal_console_read
  <2>2. max \in Nat
    BY ConsoleAssumption
  <2>3. now = Reading(rx, partial, owed)
    BY <1>1 DEF Reading
  <2>4. ReadingKeeps(now, line)
    <3> HIDE DEF now
    <3> QED BY <1>1, <2>3 DEF ReadingKeeps
  <2>5. ReadingKeeps(after[max], line)
    <3> HIDE DEF now
    <3> QED BY <2>2, <2>4, ReadKeeps
  <2> HIDE DEF after
  <2>6. PICK r, p, o : after[max] = Reading(r, p, o) /\ Consistent(r, p, o, FALSE, line)
    BY <2>5 DEF ReadingKeeps
  <2>7. after[max].rx = r /\ after[max].partial = p /\ after[max].owed = o /\ after[max].alien = FALSE
    BY <2>6 DEF Reading
  <2> QED BY <1>2, <2>1, <2>6, <2>7
<1>6. CASE UNCHANGED vars
  BY <1>1, <1>2, <1>6 DEF vars
<1> QED BY <1>3, <1>4, <1>5, <1>6 DEF Next, USART3_IRQHandler

\* What the invariant says of the state.
LEMMA Consequences == Inv => SafeOnceOnly /\ NothingPieced
<1> SUFFICES ASSUME Inv PROVE SafeOnceOnly /\ NothingPieced
  OBVIOUS
<1>1. /\ rx \in Receivers /\ partial \in Lines /\ line \in Lines /\ alien = FALSE
      /\ Safes(owed) = rx.queued_safe + rx.recovered_safe
      /\ rx.discard_line => Discarding(rx, partial)
      /\ ~rx.discard_line => Following(rx, partial, owed, line)
  BY DEF Inv, Consistent, Typing
<1>2. rx.queued_safe \in 0 .. RX_RING_SIZE - 1
  <2>1. CASE rx.discard_line
    <3>1. rx.queued_safe = 0 /\ RX_RING_SIZE \in Nat /\ RX_RING_SIZE >= 3
      BY <1>1, <2>1, ReceiverTypes DEF Discarding
    <3> QED BY <3>1
  <2>2. CASE ~rx.discard_line
    <3>1. PICK s, f : Tracked(rx, partial, owed, line, s, f)
      BY <1>1, <2>2 DEF Following
    <3>2. rx.queued_safe = Cardinality(Ends(rx.ring))
      BY <3>1 DEF Tracked
    <3>3. rx.ring \in Seq(Entries) /\ Len(rx.ring) < RX_RING_SIZE /\ RX_RING_SIZE \in Nat
      BY <1>1, ReceiverTypes
    <3>4. Cardinality(Ends(rx.ring)) \in 0 .. Len(rx.ring) /\ Len(rx.ring) \in Nat
      BY <3>3, EndsIn
    <3> QED BY <3>2, <3>3, <3>4
  <2> QED BY <2>1, <2>2
<1>3. TypeOK
  <2>1. rx.ring \in Seq([byte : BYTES, safe_end : BOOLEAN]) /\ Len(rx.ring) < RX_RING_SIZE
    BY <1>1 DEF Receivers, Entries
  <2>2. /\ rx.recovered_safe \in 0 .. RECOVERED_MAX
        /\ rx.safe_state \in 0 .. INVALID /\ rx.line_len \in 0 .. CMD_LINE_MAX + 1
        /\ rx.discard_line \in BOOLEAN /\ rx.recovery_pos \in 0 .. Len(WORD) + 2
    BY <1>1 DEF Receivers, W
  <2>3. /\ partial.bad \in BOOLEAN /\ line.bad \in BOOLEAN /\ alien \in BOOLEAN
        /\ Len(partial.text) <= CMD_LINE_MAX /\ Len(line.text) <= CMD_LINE_MAX
    BY <1>1 DEF Lines
  <2> QED BY <1>2, <2>1, <2>2, <2>3 DEF TypeOK
<1> QED BY <1>1, <1>3 DEF SafeOnceOnly, NothingPieced

\* What the interrupt has noted of the sender's lines (recognizer, ring, counters of SAFE) and
\* what the core has made of them agree in every state, whatever overflowed or was disturbed.
THEOREM ConsoleInvariant == Spec => []Inv
<1>1. Init => Inv
  BY InitConsistent
<1>2. Inv /\ [Next]_vars => Inv'
  BY StepConsistent
<1> QED BY <1>1, <1>2, PTL DEF Spec

\* Every SAFE line that was received whole is executed once: it is in the ring or
\* recovered, whatever overflowed, was disturbed or is half read (rx_reject, safe_end).
THEOREM SafeOnceTheorem == Spec => []SafeOnceOnly
BY ConsoleInvariant, Consequences, PTL

\* The core gets only lines that were sent whole, in their order, and no SAFE is overtaken;
\* the counters stay within their widths and the ring never overflows.
THEOREM PiecesTheorem == Spec => []NothingPieced
BY ConsoleInvariant, Consequences, PTL
=============================================================================
