--------------------------- MODULE SuperloopProofs ---------------------------
(* Theorems about Superloop, for every value of its constants. *)
EXTENDS Superloop, SequenceTheorems, FiniteSetTheorems, WellFoundedInduction, TLAPS

-----------------------------------------------------------------------------
(* Bytes to lines, for rings of any length.                                *)

Cells == [byte : BYTES, busy : BOOLEAN]
Lines == [kind : Kinds, busy : BOOLEAN]
Parsed == {p \in [text : Seq(LETTERS), bad : BOOLEAN, lines : Seq(Lines)] :
             Len(p.text) <= CMD_LINE_MAX}
Start(c) == [text |-> c.partial, bad |-> c.partial_overflow, lines |-> <<>>]

LEMMA LinesConcat ==
  ASSUME NEW a \in Seq(Lines), NEW b \in Seq(Lines), NEW c \in Seq(Lines)
  PROVE  (a \o b) \o c = a \o (b \o c)
BY ConcatAssociative

LEMMA LinesAppend ==
  ASSUME NEW a \in Seq(Lines), NEW b \in Seq(Lines), NEW line \in Lines
  PROVE  Append(a \o b, line) = a \o Append(b, line)
<1>1. PICK both \in Seq(Lines) : both = a \o b
  BY ConcatProperties
<1>2. PICK end \in Seq(Lines) : end = <<line>>
  <2>1. <<line>> \in Seq(Lines)
    OBVIOUS
  <2> QED
    BY <2>1
<1>3. Append(b, line) = b \o <<line>> /\ Append(both, line) = both \o <<line>>
  BY AppendIsConcat
<1>4. (a \o b) \o end = a \o (b \o end)
  BY LinesConcat
<1> QED
  BY <1>1, <1>2, <1>3, <1>4, Zenon

LEMMA HeadTailOfConcat ==
  ASSUME NEW a \in Seq(Lines), NEW b \in Seq(Lines), a # <<>>
  PROVE  a \o b # <<>> /\ Head(a \o b) = Head(a) /\ Tail(a \o b) = Tail(a) \o b
<1>1. PICK both \in Seq(Lines) :
        /\ both = a \o b /\ Len(both) = Len(a) + Len(b)
        /\ \A i \in 1 .. Len(a) + Len(b) : both[i] = IF i <= Len(a) THEN a[i] ELSE b[i - Len(a)]
  <2>1. /\ a \o b \in Seq(Lines) /\ Len(a \o b) = Len(a) + Len(b)
        /\ \A i \in 1 .. Len(a) + Len(b) : (a \o b)[i] = IF i <= Len(a) THEN a[i] ELSE b[i - Len(a)]
    BY ConcatProperties
  <2> QED
    BY <2>1, Zenon
<1>2. Len(a) \in Nat \ {0} /\ Len(b) \in Nat
  OBVIOUS
<1>3. both # <<>>
  BY <1>1, <1>2
<1>4. Head(both) = Head(a)
  <2>1. both[1] = a[1]
    BY <1>1, <1>2
  <2> QED
    BY <1>3, <2>1
<1>5. PICK rest \in Seq(Lines) :
        rest = Tail(a) /\ Len(rest) = Len(a) - 1 /\ \A i \in 1 .. Len(rest) : rest[i] = a[i + 1]
  BY HeadTailProperties
<1>6. PICK tail \in Seq(Lines) :
        tail = Tail(both) /\ Len(tail) = Len(both) - 1 /\ \A i \in 1 .. Len(tail) : tail[i] = both[i + 1]
  BY <1>3, HeadTailProperties
<1>7. PICK other \in Seq(Lines) :
        /\ other = rest \o b /\ Len(other) = Len(rest) + Len(b)
        /\ \A i \in 1 .. Len(rest) + Len(b) :
             other[i] = IF i <= Len(rest) THEN rest[i] ELSE b[i - Len(rest)]
  <2>1. /\ rest \o b \in Seq(Lines) /\ Len(rest \o b) = Len(rest) + Len(b)
        /\ \A i \in 1 .. Len(rest) + Len(b) :
             (rest \o b)[i] = IF i <= Len(rest) THEN rest[i] ELSE b[i - Len(rest)]
    BY ConcatProperties
  <2> QED
    BY <2>1, Zenon
<1>8. Len(tail) = Len(other)
  BY <1>1, <1>2, <1>5, <1>6, <1>7
<1>9. ASSUME NEW i \in 1 .. Len(tail) PROVE tail[i] = other[i]
  <2>1. i \in 1 .. Len(a) - 1 + Len(b) /\ i + 1 \in 1 .. Len(a) + Len(b)
    BY <1>1, <1>2, <1>6
  <2>2. CASE i <= Len(a) - 1
    <3>1. i + 1 <= Len(a) /\ i \in 1 .. Len(rest)
      BY <1>2, <1>5, <2>1, <2>2
    <3> QED
      BY <1>1, <1>5, <1>6, <1>7, <2>1, <3>1
  <2>3. CASE ~(i <= Len(a) - 1)
    <3>1. ~(i + 1 <= Len(a)) /\ ~(i <= Len(rest)) /\ i + 1 - Len(a) = i - Len(rest)
      BY <1>2, <1>5, <2>1, <2>3
    <3> QED
      BY <1>1, <1>5, <1>6, <1>7, <2>1, <3>1
  <2> QED
    BY <2>2, <2>3
<1>10. tail = other
  BY <1>8, <1>9, SeqEqual
<1> QED
  BY <1>1, <1>3, <1>4, <1>5, <1>6, <1>7, <1>10, Zenon

\* A set of naturals with 0 and the successor of each of its members has them all.
LEMMA AllNaturals ==
  ASSUME NEW S, 0 \in S, \A n \in Nat : n \in S => n + 1 \in S
  PROVE  Nat \subseteq S
<1> DEFINE Missing == Nat \ S
<1> SUFFICES ASSUME Missing # {} PROVE FALSE
  OBVIOUS
<1>1. \E m \in Missing : \A y \in Missing : ~(<<y, m>> \in OpToRel(<, Nat))
  BY NatLessThanWellFounded, WFMin
<1>2. PICK m \in Missing : \A y \in Missing : ~(y < m)
  BY <1>1 DEF OpToRel
<1>3. m # 0 /\ m - 1 \in Nat /\ m - 1 < m
  OBVIOUS
<1>4. m - 1 \in S
  BY <1>2, <1>3
<1>5. (m - 1) + 1 = m
  OBVIOUS
<1> QED
  BY <1>3, <1>4, <1>5

\* The same for sequences: with the empty one and each one that is a member longer.
LEMMA AllSequences ==
  ASSUME NEW S, NEW T, <<>> \in T,
         \A s \in Seq(S), e \in S : s \in T => Append(s, e) \in T
  PROVE  Seq(S) \subseteq T
<1> DEFINE Known == {m \in Nat : \A s \in Seq(S) : Len(s) = m => s \in T}
<1>1. 0 \in Known
  <2>1. \A s \in Seq(S) : Len(s) = 0 => s = <<>>
    OBVIOUS
  <2> QED
    BY <2>1
<1>2. ASSUME NEW m \in Nat, m \in Known PROVE m + 1 \in Known
  <2> SUFFICES ASSUME NEW t \in Seq(S), Len(t) = m + 1 PROVE t \in T
    OBVIOUS
  <2>1. t # <<>>
    OBVIOUS
  <2>2. PICK s \in Seq(S), e \in S : t = Append(s, e)
    BY <2>1, SequenceEmptyOrAppend
  <2>3. Len(s) = m
    BY <2>2
  <2>4. s \in T
    BY <1>2, <2>3
  <2> QED
    BY <2>2, <2>4
<1>3. Nat \subseteq Known
  <2> HIDE DEF Known
  <2> QED
    BY <1>1, <1>2, AllNaturals
<1>4. ASSUME NEW s \in Seq(S) PROVE s \in T
  <2>1. Len(s) \in Known
    BY <1>3
  <2> QED
    BY <2>1
<1> QED
  BY <1>4

\* The recursive function of Parse exists.
LEMMA ParseFunction ==
  ASSUME NEW c, NEW bytes \in Seq(Cells)
  PROVE  \E p : /\ p = [n \in 0 .. Len(bytes) |->
                          IF n = 0 THEN Start(c) ELSE Parse1(p[n - 1], bytes[n])]
                /\ Parse(c, bytes) = p[Len(bytes)]
<1> DEFINE IsRun(p, m) == p = [n \in 0 .. m |->
                                 IF n = 0 THEN Start(c) ELSE Parse1(p[n - 1], bytes[n])]
           Reached == {m \in Nat : \E p : IsRun(p, m)}
<1>1. 0 \in Reached
  <2> DEFINE p == [n \in 0 .. 0 |-> Start(c)]
  <2>1. IsRun(p, 0)
    OBVIOUS
  <2> HIDE DEF IsRun, p
  <2> QED
    BY <2>1
<1>2. ASSUME NEW m \in Nat, m \in Reached PROVE m + 1 \in Reached
  <2>1. PICK p : IsRun(p, m)
    BY <1>2
  <2> DEFINE q == [n \in 0 .. m + 1 |-> IF n = m + 1 THEN Parse1(p[m], bytes[m + 1]) ELSE p[n]]
  <2>2. \A n \in 0 .. m + 1 :
          q[n] = IF n = 0 THEN Start(c) ELSE Parse1(q[n - 1], bytes[n])
    <3> TAKE n \in 0 .. m + 1
    <3>1. CASE n = 0
      BY <2>1, <3>1
    <3>2. CASE n \in 1 .. m
      <4>1. q[n] = p[n] /\ q[n - 1] = p[n - 1]
        BY <3>2
      <4>2. p[n] = Parse1(p[n - 1], bytes[n])
        BY <2>1, <3>2
      <4> QED
        BY <3>2, <4>1, <4>2
    <3>3. CASE n = m + 1
      <4>1. q[n] = Parse1(p[m], bytes[m + 1]) /\ q[m] = p[m] /\ n - 1 = m /\ n # 0
        BY <3>3
      <4> QED
        BY <3>3, <4>1
    <3> QED
      BY <3>1, <3>2, <3>3
  <2>3. IsRun(q, m + 1)
    <3>1. q = [n \in 0 .. m + 1 |-> q[n]]
      OBVIOUS
    <3> HIDE DEF q
    <3> QED
      BY <2>2, <3>1
  <2> HIDE DEF IsRun, q
  <2> QED
    BY <2>3
<1>3. Len(bytes) \in Reached
  <2> HIDE DEF Reached
  <2> QED
    BY <1>1, <1>2, AllNaturals
<1>4. PICK p : IsRun(p, Len(bytes))
  BY <1>3
<1> DEFINE chosen == CHOOSE q : IsRun(q, Len(bytes))
<1>5. IsRun(chosen, Len(bytes))
  <2> HIDE DEF IsRun
  <2> QED
    BY <1>4
<1>6. Parse(c, bytes) = chosen[Len(bytes)]
  BY DEF Parse, Start
<1> HIDE DEF chosen
<1> QED
  BY <1>5, <1>6

LEMMA ParseNothing ==
  ASSUME NEW c
  PROVE  Parse(c, <<>>) = Start(c)
<1>1. <<>> \in Seq(Cells) /\ Len(<<>>) = 0
  OBVIOUS
<1>2. PICK p : /\ p = [n \in 0 .. Len(<<>>) |->
                         IF n = 0 THEN Start(c) ELSE Parse1(p[n - 1], <<>>[n])]
               /\ Parse(c, <<>>) = p[Len(<<>>)]
  BY <1>1, ParseFunction
<1>3. Parse(c, <<>>) = p[0] /\ p[0] = Start(c)
  BY <1>1, <1>2
<1> QED
  BY <1>3

\* A byte more is one step more, whatever follows.
LEMMA ParseOneMore ==
  ASSUME NEW c, NEW s \in Seq(Cells), NEW b \in Cells
  PROVE  Parse(c, Append(s, b)) = Parse1(Parse(c, s), b)
<1> DEFINE t == Append(s, b)
<1>1. t \in Seq(Cells) /\ Len(t) = Len(s) + 1 /\ t[Len(s) + 1] = b
      /\ \A n \in 1 .. Len(s) : t[n] = s[n]
  OBVIOUS
<1>2. PICK p : /\ p = [n \in 0 .. Len(s) |->
                         IF n = 0 THEN Start(c) ELSE Parse1(p[n - 1], s[n])]
               /\ Parse(c, s) = p[Len(s)]
  BY ParseFunction
<1> HIDE DEF t
<1>3. PICK q : /\ q = [n \in 0 .. Len(t) |->
                         IF n = 0 THEN Start(c) ELSE Parse1(q[n - 1], t[n])]
               /\ Parse(c, t) = q[Len(t)]
  BY <1>1, ParseFunction
<1> DEFINE Same == {m \in Nat : m <= Len(s) => p[m] = q[m]}
<1>4. 0 \in Same
  BY <1>1, <1>2, <1>3
<1>5. ASSUME NEW m \in Nat, m \in Same PROVE m + 1 \in Same
  <2> SUFFICES ASSUME m + 1 <= Len(s) PROVE p[m + 1] = q[m + 1]
    OBVIOUS
  <2>1. p[m] = q[m]
    BY <1>5
  <2>2. p[m + 1] = Parse1(p[m], s[m + 1])
    BY <1>2
  <2>3. q[m + 1] = Parse1(q[m], t[m + 1])
    BY <1>1, <1>3
  <2> QED
    BY <2>1, <2>2, <2>3, <1>1
<1>6. Len(s) \in Same
  <2> HIDE DEF Same
  <2> QED
    BY <1>4, <1>5, AllNaturals
<1>7. p[Len(s)] = q[Len(s)]
  BY <1>6
<1>8. q[Len(s) + 1] = Parse1(q[Len(s)], t[Len(s) + 1])
  BY <1>1, <1>3
<1>9. Parse(c, t) = Parse1(Parse(c, s), b)
  BY <1>1, <1>2, <1>3, <1>7, <1>8
<1> QED
  BY <1>9 DEF t

\* What one byte does, case by case.
Ends(r) == r.byte = NL
Spoils(p, r) == ~Ends(r) /\ (r.byte = NUL \/ Len(p.text) = CMD_LINE_MAX)

LEMMA OneByte ==
  ASSUME NEW p \in Parsed, NEW r \in Cells
  PROVE  /\ Parse1(p, r) \in Parsed
         /\ Ends(r) => /\ Parse1(p, r).text = <<>> /\ ~Parse1(p, r).bad
                       /\ Parse1(p, r).lines = Append(p.lines, LineOf(p.text, p.bad, r.busy))
         /\ Spoils(p, r) => /\ Parse1(p, r).text = p.text /\ Parse1(p, r).bad
                            /\ Parse1(p, r).lines = p.lines
         /\ ~Ends(r) /\ ~Spoils(p, r) =>
              /\ r.byte \in LETTERS
              /\ Parse1(p, r).text = Append(p.text, r.byte) /\ (Parse1(p, r).bad <=> p.bad)
              /\ Parse1(p, r).lines = p.lines
         /\ LineOf(p.text, p.bad, r.busy) \in Lines
<1>0. /\ p.text \in Seq(LETTERS) /\ p.bad \in BOOLEAN /\ p.lines \in Seq(Lines)
      /\ Len(p.text) <= CMD_LINE_MAX /\ CMD_LINE_MAX \in Nat
      /\ p \in [text : Seq(LETTERS), bad : BOOLEAN, lines : Seq(Lines)]
      /\ r.byte \in BYTES /\ r.busy \in BOOLEAN
  BY SuperloopAssumption DEF Parsed, Cells
<1>1. LineOf(p.text, p.bad, r.busy) \in Lines
  BY <1>0 DEF LineOf, KindOf, Kinds, Lines
<1>2. CASE Ends(r)
  <2>1. Parse1(p, r) = [text |-> <<>>, bad |-> FALSE,
                        lines |-> Append(p.lines, LineOf(p.text, p.bad, r.busy))]
    BY <1>2 DEF Parse1, Ends
  <2>2. Append(p.lines, LineOf(p.text, p.bad, r.busy)) \in Seq(Lines)
    BY <1>0, <1>1
  <2> QED
    BY <1>0, <1>1, <1>2, <2>1, <2>2 DEF Parsed, Spoils
<1>3. CASE Spoils(p, r)
  <2>1. Parse1(p, r) = [p EXCEPT !.bad = TRUE]
    BY <1>3 DEF Parse1, Spoils, Ends
  <2> QED
    BY <1>0, <1>1, <1>3, <2>1 DEF Parsed, Spoils
<1>4. CASE ~Ends(r) /\ ~Spoils(p, r)
  <2>1. Parse1(p, r) = [p EXCEPT !.text = Append(@, r.byte)]
    BY <1>4 DEF Parse1, Spoils, Ends
  <2>2. r.byte \in LETTERS /\ Len(p.text) + 1 <= CMD_LINE_MAX
    BY <1>0, <1>4 DEF Spoils, Ends, BYTES
  <2>3. Append(p.text, r.byte) \in Seq(LETTERS) /\ Len(Append(p.text, r.byte)) = Len(p.text) + 1
    BY <1>0, <2>2
  <2> QED
    BY <1>0, <1>1, <1>4, <2>1, <2>2, <2>3 DEF Parsed
<1> QED
  BY <1>2, <1>3, <1>4

\* What there is of an unfinished line.
HasPartial(c) == c.partial \in Seq(LETTERS) /\ Len(c.partial) <= CMD_LINE_MAX
                 /\ c.partial_overflow \in BOOLEAN
LineEnds(s) == {i \in DOMAIN s : Ends(s[i])}

LEMMA OneMoreEnd ==
  ASSUME NEW s \in Seq(Cells), NEW b \in Cells, IsFiniteSet(LineEnds(s))
  PROVE  /\ IsFiniteSet(LineEnds(Append(s, b)))
         /\ Cardinality(LineEnds(Append(s, b))) = Cardinality(LineEnds(s)) + IF Ends(b) THEN 1 ELSE 0
<1>1. /\ Append(s, b)[Len(s) + 1] = b /\ DOMAIN Append(s, b) = DOMAIN s \cup {Len(s) + 1}
      /\ DOMAIN s = 1 .. Len(s) /\ Len(s) \in Nat
      /\ \A i \in 1 .. Len(s) : Append(s, b)[i] = s[i]
  OBVIOUS
<1>2. LineEnds(Append(s, b)) = LineEnds(s) \cup IF Ends(b) THEN {Len(s) + 1} ELSE {}
  BY <1>1 DEF LineEnds
<1>3. Len(s) + 1 \notin LineEnds(s)
  BY <1>1 DEF LineEnds
<1>4. Cardinality(LineEnds(s)) \in Nat
  BY FS_CardinalityType
<1>5. CASE Ends(b)
  <2>1. LineEnds(Append(s, b)) = LineEnds(s) \cup {Len(s) + 1}
    BY <1>2, <1>5
  <2> QED
    BY <1>3, <1>5, <2>1, FS_AddElement
<1>6. CASE ~Ends(b)
  BY <1>2, <1>4, <1>6
<1> QED
  BY <1>5, <1>6

\* The lines of a stretch of bytes: one for each line feed.
LEMMA ParseTypes ==
  ASSUME NEW c, HasPartial(c)
  PROVE  \A s \in Seq(Cells) :
           /\ Parse(c, s) \in Parsed
           /\ IsFiniteSet(LineEnds(s))
           /\ Len(Parse(c, s).lines) = Cardinality(LineEnds(s))
<1> DEFINE P(s) == /\ Parse(c, s) \in Parsed
                   /\ IsFiniteSet(LineEnds(s))
                   /\ Len(Parse(c, s).lines) = Cardinality(LineEnds(s))
           All == {s \in Seq(Cells) : P(s)}
<1>1. P(<<>>)
  <2>1. Parse(c, <<>>) = Start(c)
    BY ParseNothing
  <2>2. Start(c) \in Parsed /\ Start(c).lines = <<>>
    BY SuperloopAssumption DEF Start, Parsed, HasPartial
  <2>3. LineEnds(<<>>) = {}
    BY DEF LineEnds
  <2>4. IsFiniteSet({}) /\ Cardinality({}) = 0
    BY FS_EmptySet
  <2>5. Len(<<>>) = 0
    OBVIOUS
  <2> QED
    BY <2>1, <2>2, <2>3, <2>4, <2>5, Zenon
<1>2. ASSUME NEW s \in Seq(Cells), NEW b \in Cells, P(s) PROVE P(Append(s, b))
  <2>1. PICK p : p = Parse(c, s)
    OBVIOUS
  <2>2. Parse(c, Append(s, b)) = Parse1(p, b)
    BY <2>1, ParseOneMore
  <2>3. p \in Parsed /\ p.lines \in Seq(Lines) /\ Len(p.lines) = Cardinality(LineEnds(s))
    BY <1>2, <2>1 DEF Parsed
  <2>4. /\ Parse1(p, b) \in Parsed
        /\ Len(Parse1(p, b).lines) = Len(p.lines) + IF Ends(b) THEN 1 ELSE 0
    <3>1. CASE Ends(b)
      <4>1. PICK line \in Lines : Parse1(p, b).lines = Append(p.lines, line)
        BY <2>3, <3>1, OneByte
      <4> QED
        BY <2>3, <3>1, <4>1, OneByte
    <3>2. CASE ~Ends(b)
      <4>1. Parse1(p, b).lines = p.lines /\ Parse1(p, b) \in Parsed
        BY <2>3, <3>2, OneByte
      <4> QED
        BY <2>3, <3>2, <4>1
    <3> QED
      BY <3>1, <3>2
  <2>5. /\ IsFiniteSet(LineEnds(Append(s, b)))
        /\ Cardinality(LineEnds(Append(s, b))) = Cardinality(LineEnds(s)) + IF Ends(b) THEN 1 ELSE 0
    BY <1>2, OneMoreEnd
  <2> QED
    BY <2>2, <2>3, <2>4, <2>5
<1>3. Seq(Cells) \subseteq All
  <2>1. <<>> \in All /\ \A s \in Seq(Cells), b \in Cells : s \in All => Append(s, b) \in All
    <3> HIDE DEF P
    <3> QED
      BY <1>1, <1>2
  <2> HIDE DEF All
  <2> QED
    BY <2>1, AllSequences
<1> QED
  BY <1>3

\* The lines of two stretches: those of the first, then those of the second, which begins
\* with what was left of the first.
Continues(d, c, s) == d.partial = Parse(c, s).text /\ d.partial_overflow = Parse(c, s).bad
Joined(before, p, q) == p.text = q.text /\ p.bad = q.bad /\ p.lines = before \o q.lines

LEMMA ParseInTwo ==
  ASSUME NEW c, NEW d, HasPartial(c), NEW s \in Seq(Cells), Continues(d, c, s),
         NEW t \in Seq(Cells)
  PROVE  Joined(Parse(c, s).lines, Parse(c, s \o t), Parse(d, t))
<1>1. PICK before : before = Parse(c, s).lines
  OBVIOUS
<1>2. Parse(c, s) \in Parsed /\ before \in Seq(Lines) /\ HasPartial(d)
  BY <1>1, ParseTypes DEF Parsed, HasPartial, Continues
<1> DEFINE P(u) == Joined(before, Parse(c, s \o u), Parse(d, u))
           All == {u \in Seq(Cells) : P(u)}
<1>3. P(<<>>)
  <2>1. s \o <<>> = s /\ before \o <<>> = before
    BY <1>2
  <2>2. Parse(c, s \o <<>>) = Parse(c, s)
    BY <2>1, Zenon
  <2>3. Start(d).text = d.partial /\ Start(d).bad = d.partial_overflow /\ Start(d).lines = <<>>
    BY DEF Start
  <2>4. Parse(d, <<>>) = Start(d)
    BY ParseNothing
  <2> QED
    BY <1>1, <2>1, <2>2, <2>3, <2>4, Zenon DEF Joined, Continues
<1>4. ASSUME NEW p \in Parsed, NEW q \in Parsed, NEW b \in Cells, Joined(before, p, q)
      PROVE  Joined(before, Parse1(p, b), Parse1(q, b))
  <2>1. /\ p.lines \in Seq(Lines) /\ q.lines \in Seq(Lines)
        /\ p.text = q.text /\ p.bad = q.bad /\ p.lines = before \o q.lines
    BY <1>4 DEF Parsed, Joined
  <2>2. Parse1(p, b) \in Parsed /\ Parse1(q, b) \in Parsed
    BY OneByte
  <2>3. Parse1(p, b).bad \in BOOLEAN /\ Parse1(q, b).bad \in BOOLEAN
    BY <2>2 DEF Parsed
  <2>4. CASE Ends(b)
    <3>1. PICK line \in Lines : line = LineOf(q.text, q.bad, b.busy)
      BY OneByte
    <3>2. LineOf(p.text, p.bad, b.busy) = line
      BY <2>1, <3>1, Zenon
    <3>3. /\ Parse1(p, b).text = <<>> /\ Parse1(q, b).text = <<>>
          /\ ~Parse1(p, b).bad /\ ~Parse1(q, b).bad
          /\ Parse1(p, b).lines = Append(p.lines, line) /\ Parse1(q, b).lines = Append(q.lines, line)
      BY <2>4, <3>1, <3>2, OneByte, ZenonT(30)
    <3>4. Append(before \o q.lines, line) = before \o Append(q.lines, line)
      <4>1. PICK rest \in Seq(Lines) : rest = q.lines
        BY <2>1
      <4>2. before \in Seq(Lines)
        BY <1>2
      <4>3. Append(before \o rest, line) = before \o Append(rest, line)
        BY <4>2, LinesAppend
      <4> QED
        BY <4>1, <4>3, Zenon
    <3>5. Parse1(p, b).lines = before \o Parse1(q, b).lines
      BY <2>1, <3>3, <3>4, Zenon
    <3>6. Parse1(p, b).bad = Parse1(q, b).bad
      BY <2>3, <3>3
    <3> QED
      BY <3>3, <3>5, <3>6 DEF Joined
  <2>5. CASE Spoils(p, b)
    <3>1. Spoils(q, b)
      BY <2>1, <2>5 DEF Spoils
    <3>2. /\ Parse1(p, b).text = p.text /\ Parse1(p, b).bad /\ Parse1(p, b).lines = p.lines
          /\ Parse1(q, b).text = q.text /\ Parse1(q, b).bad /\ Parse1(q, b).lines = q.lines
      BY <2>5, <3>1, OneByte
    <3> QED
      BY <2>1, <2>3, <3>2 DEF Joined
  <2>6. CASE ~Ends(b) /\ ~Spoils(p, b)
    <3>1. ~Spoils(q, b)
      BY <2>1, <2>6 DEF Spoils
    <3>2. /\ Parse1(p, b).text = Append(p.text, b.byte) /\ (Parse1(p, b).bad <=> p.bad)
          /\ Parse1(p, b).lines = p.lines
      BY <2>6, OneByte
    <3>3. /\ Parse1(q, b).text = Append(q.text, b.byte) /\ (Parse1(q, b).bad <=> q.bad)
          /\ Parse1(q, b).lines = q.lines
      BY <2>6, <3>1, OneByte
    <3> QED
      BY <2>1, <2>3, <3>2, <3>3 DEF Joined
  <2> QED
    BY <2>4, <2>5, <2>6
<1>5. ASSUME NEW u \in Seq(Cells), NEW b \in Cells, P(u) PROVE P(Append(u, b))
  <2>1. s \o Append(u, b) = Append(s \o u, b) /\ s \o u \in Seq(Cells)
    OBVIOUS
  <2>2. /\ Parse(c, s \o Append(u, b)) = Parse1(Parse(c, s \o u), b)
        /\ Parse(d, Append(u, b)) = Parse1(Parse(d, u), b)
    BY <2>1, ParseOneMore, ZenonT(30)
  <2>3. Parse(c, s \o u) \in Parsed /\ Parse(d, u) \in Parsed
    BY <1>2, <2>1, ParseTypes
  <2> QED
    BY <1>4, <1>5, <2>2, <2>3
<1>6. Seq(Cells) \subseteq All
  <2>1. <<>> \in All /\ \A u \in Seq(Cells), b \in Cells : u \in All => Append(u, b) \in All
    <3> HIDE DEF P
    <3> QED
      BY <1>3, <1>5
  <2> HIDE DEF All
  <2> QED
    BY <2>1, AllSequences
<1> QED
  BY <1>1, <1>6

-----------------------------------------------------------------------------
(* Counts, and sequences of SAFE lines.                                    *)

LEMMA MaxBelow ==
  ASSUME NEW n \in Nat, NEW S \in SUBSET (0 .. n), S # {}
  PROVE  Max(S) \in S /\ \A y \in S : Max(S) >= y
<1> DEFINE Gaps == {m \in Nat : n - m \in S}
<1>1. Gaps \subseteq Nat /\ Gaps # {}
  <2>1. PICK x \in S : TRUE
    OBVIOUS
  <2>2. n - x \in Nat /\ n - (n - x) = x
    OBVIOUS
  <2> QED
    BY <2>2
<1>2. \E m \in Gaps : \A y \in Gaps : ~(<<y, m>> \in OpToRel(<, Nat))
  BY <1>1, NatLessThanWellFounded, WFMin
<1>3. PICK m \in Gaps : \A y \in Gaps : ~(y < m)
  BY <1>1, <1>2 DEF OpToRel
<1>4. n - m \in S /\ m \in Nat
  BY <1>3
<1>5. ASSUME NEW y \in S PROVE n - m >= y
  <2>1. n - y \in Nat /\ n - (n - y) = y
    OBVIOUS
  <2>2. n - y \in Gaps
    BY <2>1
  <2>3. ~(n - y < m)
    BY <1>3, <2>2
  <2> HIDE DEF Gaps
  <2> QED
    BY <1>4, <2>3
<1>6. \E x \in S : \A y \in S : x >= y
  BY <1>4, <1>5
<1> HIDE DEF Gaps
<1> QED
  BY <1>6 DEF Max

LEMMA MinOfTwo ==
  ASSUME NEW a \in Nat, NEW b \in Nat
  PROVE  Min({a, b}) = IF a <= b THEN a ELSE b
<1>1. \E x \in {a, b} : \A y \in {a, b} : x <= y
  OBVIOUS
<1>2. Min({a, b}) \in {a, b} /\ \A y \in {a, b} : Min({a, b}) <= y
  <2> DEFINE S == {a, b}
  <2> HIDE DEF S
  <2>1. Min(S) \in S /\ \A y \in S : Min(S) <= y
    BY <1>1 DEF Min, S
  <2> QED
    BY <2>1 DEF S
<1> QED
  BY <1>2

Repeat(n) == [i \in 1 .. n |-> SafeLine]
IsSafeLine(line) == line.kind = "safe"
HasSafe(lines) == \E i \in DOMAIN lines : IsSafeLine(lines[i])

LEMMA RepeatFacts ==
  ASSUME NEW n \in Nat
  PROVE  /\ Repeat(n) \in Seq(Lines) /\ Len(Repeat(n)) = n
         /\ \A i \in 1 .. n : Repeat(n)[i] = SafeLine
         /\ n = 0 => Repeat(n) = <<>>
         /\ \A m \in Nat : Repeat(n) \o Repeat(m) = Repeat(n + m)
<1>1. SafeLine \in Lines
  BY DEF SafeLine, Lines, Kinds
<1>2. \A m \in Nat : Repeat(m) \in Seq(Lines) /\ Len(Repeat(m)) = m
                     /\ \A i \in 1 .. m : Repeat(m)[i] = SafeLine
  BY <1>1 DEF Repeat
<1>3. ASSUME NEW m \in Nat PROVE Repeat(n) \o Repeat(m) = Repeat(n + m)
  <2> DEFINE s == Repeat(n) \o Repeat(m)
             t == Repeat(n + m)
  <2>1. /\ s \in Seq(Lines) /\ Len(s) = n + m
        /\ \A i \in 1 .. n + m : s[i] = IF i <= n THEN Repeat(n)[i] ELSE Repeat(m)[i - n]
    BY <1>2, ConcatProperties
  <2>2. /\ t \in Seq(Lines) /\ Len(t) = n + m /\ \A i \in 1 .. n + m : t[i] = SafeLine
    BY <1>2
  <2> HIDE DEF s, t
  <2>3. ASSUME NEW i \in 1 .. n + m PROVE s[i] = t[i]
    <3>1. CASE i <= n
      <4>1. i \in 1 .. n /\ s[i] = Repeat(n)[i]
        BY <2>1, <3>1
      <4> QED
        BY <1>2, <2>2, <4>1
    <3>2. CASE i > n
      <4>1. i - n \in 1 .. m /\ s[i] = Repeat(m)[i - n]
        BY <2>1, <3>2
      <4> QED
        BY <1>2, <2>2, <4>1
    <3> QED
      BY <3>1, <3>2
  <2>4. s = t
    BY <2>1, <2>2, <2>3, SeqEqual
  <2> QED
    BY <2>4 DEF s, t
<1>4. n = 0 => Repeat(n) = <<>>
  BY DEF Repeat
<1> QED
  BY <1>2, <1>3, <1>4

LEMMA SafesCount ==
  ASSUME NEW lines \in Seq(Lines)
  PROVE  /\ Safes(lines) \in Nat /\ Safes(lines) <= Len(lines)
         /\ HasSafe(lines) <=> Safes(lines) > 0
<1> DEFINE S == {i \in DOMAIN lines : lines[i].kind = "safe"}
<1>1. DOMAIN lines = 1 .. Len(lines) /\ Len(lines) \in Nat
  OBVIOUS
<1>2. IsFiniteSet(1 .. Len(lines)) /\ Cardinality(1 .. Len(lines)) = Len(lines)
  BY <1>1, FS_Interval, SMTT(20)
<1>3. S \in SUBSET (1 .. Len(lines))
  BY <1>1
<1> HIDE DEF S
<1>4. IsFiniteSet(S) /\ Cardinality(S) <= Len(lines)
  BY <1>2, <1>3, FS_Subset
<1>5. Cardinality(S) \in Nat /\ (Cardinality(S) = 0 <=> S = {})
  BY <1>4, FS_CardinalityType, FS_EmptySet
<1> QED
  BY <1>4, <1>5 DEF S, Safes, HasSafe, IsSafeLine

LEMMA HasSafeConcat ==
  ASSUME NEW s \in Seq(Lines), NEW t \in Seq(Lines)
  PROVE  /\ HasSafe(s \o t) <=> HasSafe(s) \/ HasSafe(t)
         /\ ~HasSafe(<<>>)
         /\ \A n \in Nat : HasSafe(Repeat(n)) <=> n > 0
<1>1. /\ DOMAIN s = 1 .. Len(s) /\ DOMAIN t = 1 .. Len(t) /\ Len(s) \in Nat /\ Len(t) \in Nat
      /\ DOMAIN (s \o t) = 1 .. Len(s) + Len(t)
      /\ \A i \in 1 .. Len(s) + Len(t) : (s \o t)[i] = IF i <= Len(s) THEN s[i] ELSE t[i - Len(s)]
  BY ConcatProperties, LenProperties
<1>2. HasSafe(s \o t) => HasSafe(s) \/ HasSafe(t)
  BY <1>1 DEF HasSafe
<1>3. ASSUME NEW i \in DOMAIN s, IsSafeLine(s[i]) PROVE HasSafe(s \o t)
  BY <1>1, <1>3 DEF HasSafe
<1>4. ASSUME NEW i \in DOMAIN t, IsSafeLine(t[i]) PROVE HasSafe(s \o t)
  <2>1. i + Len(s) \in DOMAIN (s \o t) /\ (s \o t)[i + Len(s)] = t[i]
    BY <1>1
  <2> QED
    BY <1>4, <2>1 DEF HasSafe
<1>5. ~HasSafe(<<>>)
  BY DEF HasSafe
<1>6. ASSUME NEW n \in Nat PROVE HasSafe(Repeat(n)) <=> n > 0
  <2>1. DOMAIN Repeat(n) = 1 .. n /\ \A i \in 1 .. n : IsSafeLine(Repeat(n)[i])
    BY DEF Repeat, IsSafeLine, SafeLine
  <2>2. n > 0 => 1 \in 1 .. n
    OBVIOUS
  <2> QED
    BY <2>1, <2>2 DEF HasSafe
<1> QED
  BY <1>2, <1>3, <1>4, <1>5, <1>6 DEF HasSafe

-----------------------------------------------------------------------------
(* What the two operations on a channel do to what it owes.                *)

Channel == [ring : Seq(Cells), partial : Seq(LETTERS), partial_overflow : BOOLEAN,
            ring_overflow : BOOLEAN, recovered_safe : 0 .. RECOVERED_MAX, queue : Seq(Lines)]

\* A ring that is overflowing is empty, and the line it was in is spoilt.
Sound(c) ==
  /\ c \in Channel
  /\ Len(c.ring) < RING_SIZE /\ Len(c.partial) <= CMD_LINE_MAX /\ Len(c.queue) <= LINE_QUEUE
  /\ c.ring_overflow => c.ring = <<>> /\ c.partial_overflow

Owed(c) == c.queue \o Repeat(c.recovered_safe) \o Parse(c, c.ring).lines
InHand(c) == LET p == Parse(c, c.ring)
             IN IF c.ring_overflow \/ p.bad THEN [text |-> <<>>, bad |-> TRUE]
                ELSE [text |-> p.text, bad |-> FALSE]

LEMMA SoundTypes ==
  ASSUME NEW c, Sound(c)
  PROVE  /\ c.ring \in Seq(Cells) /\ c.partial \in Seq(LETTERS) /\ c.queue \in Seq(Lines)
         /\ c.partial_overflow \in BOOLEAN /\ c.ring_overflow \in BOOLEAN
         /\ c.recovered_safe \in Nat /\ c.recovered_safe <= RECOVERED_MAX
         /\ HasPartial(c) /\ Len(c.ring) \in Nat /\ Len(c.queue) \in Nat
         /\ Parse(c, c.ring) \in Parsed /\ Parse(c, c.ring).lines \in Seq(Lines)
<1>1. /\ c.ring \in Seq(Cells) /\ c.partial \in Seq(LETTERS) /\ c.queue \in Seq(Lines)
      /\ c.partial_overflow \in BOOLEAN /\ c.ring_overflow \in BOOLEAN
      /\ c.recovered_safe \in Nat /\ c.recovered_safe <= RECOVERED_MAX
      /\ Len(c.ring) \in Nat /\ Len(c.queue) \in Nat
  BY DEF Sound, Channel
<1>2. HasPartial(c)
  BY <1>1 DEF Sound, HasPartial
<1>3. Parse(c, c.ring) \in Parsed /\ Parse(c, c.ring).lines \in Seq(Lines)
  BY <1>1, <1>2, ParseTypes DEF Parsed
<1> QED
  BY <1>1, <1>2, <1>3

\* The three parts of what is owed.
LEMMA OwedParts ==
  ASSUME NEW c, Sound(c)
  PROVE  /\ Owed(c) \in Seq(Lines)
         /\ HasSafe(Owed(c)) <=> \/ HasSafe(c.queue) \/ c.recovered_safe > 0
                                 \/ HasSafe(Parse(c, c.ring).lines)
         /\ Owed(c) = <<>> => c.queue = <<>> /\ c.recovered_safe = 0 /\ Parse(c, c.ring).lines = <<>>
         /\ Len(Owed(c)) = Len(c.queue) + c.recovered_safe + Len(Parse(c, c.ring).lines)
<1>1. PICK lines \in Seq(Lines), queue \in Seq(Lines), n \in Nat :
        lines = Parse(c, c.ring).lines /\ queue = c.queue /\ n = c.recovered_safe
  BY SoundTypes
<1>2. Owed(c) = (queue \o Repeat(n)) \o lines
  BY <1>1, Zenon DEF Owed
<1>3. Repeat(n) \in Seq(Lines) /\ Len(Repeat(n)) = n
  BY RepeatFacts
<1>4. /\ queue \o Repeat(n) \in Seq(Lines) /\ (queue \o Repeat(n)) \o lines \in Seq(Lines)
      /\ Len((queue \o Repeat(n)) \o lines) = Len(queue) + n + Len(lines)
  <2>1. queue \o Repeat(n) \in Seq(Lines) /\ Len(queue \o Repeat(n)) = Len(queue) + n
    BY <1>3, ConcatProperties
  <2> QED
    BY <2>1, ConcatProperties
<1>5. HasSafe((queue \o Repeat(n)) \o lines) <=> HasSafe(queue) \/ n > 0 \/ HasSafe(lines)
  BY <1>3, <1>4, HasSafeConcat
<1>6. Len(<<>>) = 0 /\ Len(queue) \in Nat /\ Len(lines) \in Nat
      /\ (Len(queue) = 0 => queue = <<>>) /\ (Len(lines) = 0 => lines = <<>>)
  OBVIOUS
<1>7. (queue \o Repeat(n)) \o lines = <<>> => queue = <<>> /\ n = 0 /\ lines = <<>>
  BY <1>4, <1>6
<1> QED
  BY <1>1, <1>2, <1>4, <1>5, <1>7

\* The bytes svc_poll takes from a ring hold no more lines than there is room for.
LEMMA TakenFacts ==
  ASSUME NEW c, Sound(c)
  PROVE  /\ Rescued(c) \in 0 .. c.recovered_safe /\ Len(c.queue) + Rescued(c) <= LINE_QUEUE
         /\ Taken(c) \in 0 .. Len(c.ring)
         /\ Cardinality(LineEnds(SubSeq(c.ring, 1, Taken(c)))) <= LINE_QUEUE - Len(c.queue) - Rescued(c)
         /\ Rescued(c) < c.recovered_safe => Taken(c) = 0
<1>1. PICK len \in Nat, n \in Nat, ring \in Seq(Cells) :
        len = Len(c.queue) /\ n = c.recovered_safe /\ ring = c.ring
  BY SoundTypes
<1>2. LINE_QUEUE \in Nat /\ len <= LINE_QUEUE /\ LINE_QUEUE - len \in Nat
  BY <1>1, SuperloopAssumption DEF Sound
<1>3. PICK rescued \in Nat : /\ rescued = Rescued(c)
                             /\ rescued = IF n <= LINE_QUEUE - len THEN n ELSE LINE_QUEUE - len
  <2>1. Rescued(c) = Min({n, LINE_QUEUE - len})
    BY <1>1, Zenon DEF Rescued
  <2>2. Min({n, LINE_QUEUE - len}) = IF n <= LINE_QUEUE - len THEN n ELSE LINE_QUEUE - len
    BY <1>2, MinOfTwo
  <2> QED
    BY <1>2, <2>1, <2>2
<1>4. PICK free \in Nat : free = LINE_QUEUE - len - rescued
  <2>1. rescued <= LINE_QUEUE - len
    BY <1>2, <1>3
  <2>2. LINE_QUEUE - len - rescued \in Nat
    BY <1>2, <2>1
  <2> QED
    BY <2>2
<1> DEFINE Count(k) == Cardinality({i \in 1 .. k : ring[i].byte = NL})
           S == {k \in 0 .. Len(ring) : k = 0 \/ Count(k - 1) < free}
<1>5. Taken(c) = Max(S)
  BY <1>1, <1>3, <1>4 DEF Taken
<1>6. Max(S) \in S
  <2>1. S \in SUBSET (0 .. Len(ring)) /\ 0 \in S /\ Len(ring) \in Nat
    OBVIOUS
  <2> HIDE DEF S
  <2> QED
    BY <2>1, MaxBelow
<1>7. \A k \in Nat : IsFiniteSet({i \in 1 .. k : ring[i].byte = NL}) /\ Count(k) \in Nat
  <2> TAKE k \in Nat
  <2>1. IsFiniteSet(1 .. k) /\ {i \in 1 .. k : ring[i].byte = NL} \in SUBSET (1 .. k)
    BY FS_Interval
  <2> QED
    BY <2>1, FS_Subset, FS_CardinalityType
<1>8. PICK k \in 0 .. Len(ring) : k = Taken(c) /\ (k = 0 \/ Count(k - 1) < free)
  BY <1>5, <1>6
<1>9. LineEnds(SubSeq(ring, 1, k)) = {i \in 1 .. k : ring[i].byte = NL}
  <2>1. DOMAIN SubSeq(ring, 1, k) = 1 .. k /\ \A i \in 1 .. k : SubSeq(ring, 1, k)[i] = ring[i]
    BY <1>8
  <2> QED
    BY <2>1 DEF LineEnds, Ends
<1>10. Count(k) <= free
  <2>1. CASE k = 0
    <3>1. {i \in 1 .. k : ring[i].byte = NL} = {}
      BY <2>1
    <3>2. Cardinality({}) = 0
      BY FS_EmptySet
    <3>3. Count(k) = 0
      BY <3>1, <3>2, Zenon
    <3> QED
      BY <3>3
  <2>2. CASE k # 0
    <3> DEFINE A == {i \in 1 .. k - 1 : ring[i].byte = NL}
               B == {i \in 1 .. k : ring[i].byte = NL}
    <3>1. k - 1 \in Nat /\ IsFiniteSet(A) /\ Cardinality(A) \in Nat /\ Cardinality(A) < free
      BY <1>7, <1>8, <2>2
    <3>2. B = A \/ B = A \cup {k}
      BY <2>2
    <3>3. k \notin A
      OBVIOUS
    <3> HIDE DEF A, B
    <3>4. Cardinality(A \cup {k}) = Cardinality(A) + 1
      BY <3>1, <3>3, FS_AddElement
    <3>5. Cardinality(B) = Cardinality(A) \/ Cardinality(B) = Cardinality(A) + 1
      BY <3>2, <3>4
    <3>6. Cardinality(B) <= free
      BY <3>1, <3>5
    <3> QED
      BY <3>6 DEF B
  <2> QED
    BY <2>1, <2>2
<1>11. free = 0 => k = 0
  <2>1. k # 0 => k - 1 \in Nat
    BY <1>8
  <2>2. k # 0 => Count(k - 1) \in Nat
    BY <1>7, <2>1
  <2> QED
    BY <1>8, <2>2
<1>12. /\ rescued \in 0 .. n /\ len + rescued <= LINE_QUEUE
       /\ rescued < n => free = 0
  BY <1>2, <1>3, <1>4
<1>13. Cardinality(LineEnds(SubSeq(ring, 1, k))) <= free
  BY <1>9, <1>10, Zenon
<1> HIDE DEF Count, S
<1> QED
  BY <1>1, <1>3, <1>4, <1>8, <1>11, <1>12, <1>13

\* A channel field by field.
Chan(ring, partial, overflow, ringOverflow, recovered, queue) ==
  [ring |-> ring, partial |-> partial, partial_overflow |-> overflow,
   ring_overflow |-> ringOverflow, recovered_safe |-> recovered, queue |-> queue]

LEMMA ChannelOf ==
  ASSUME NEW ring \in Seq(Cells), NEW partial \in Seq(LETTERS), NEW overflow \in BOOLEAN,
         NEW ringOverflow \in BOOLEAN, NEW recovered \in 0 .. RECOVERED_MAX,
         NEW queue \in Seq(Lines)
  PROVE  Chan(ring, partial, overflow, ringOverflow, recovered, queue) \in Channel
BY DEF Channel, Chan

LEMMA ChannelFields ==
  ASSUME NEW c \in Channel
  PROVE  c = Chan(c.ring, c.partial, c.partial_overflow, c.ring_overflow, c.recovered_safe, c.queue)
BY DEF Channel, Chan

LEMMA PumpedFields ==
  ASSUME NEW c, Sound(c), NEW p, p = Parse(c, SubSeq(c.ring, 1, Taken(c)))
  PROVE  Pumped(c) = Chan(SubSeq(c.ring, Taken(c) + 1, Len(c.ring)), p.text, p.bad, c.ring_overflow,
                          c.recovered_safe - Rescued(c), c.queue \o Repeat(Rescued(c)) \o p.lines)
<1> DEFINE q == c.queue \o Repeat(Rescued(c)) \o p.lines
           n == c.recovered_safe - Rescued(c)
           r == SubSeq(c.ring, Taken(c) + 1, Len(c.ring))
           c1 == [c EXCEPT !.queue = q]
           c2 == [c1 EXCEPT !.recovered_safe = n]
           c3 == [c2 EXCEPT !.partial = p.text]
           c4 == [c3 EXCEPT !.partial_overflow = p.bad]
           c5 == [c4 EXCEPT !.ring = r]
<1>1. Pumped(c) = c5
  BY DEF Pumped, Repeat
<1> HIDE DEF q, n, r
<1>2. c = Chan(c.ring, c.partial, c.partial_overflow, c.ring_overflow, c.recovered_safe, c.queue)
  BY ChannelFields DEF Sound
<1>3. c1 = Chan(c.ring, c.partial, c.partial_overflow, c.ring_overflow, c.recovered_safe, q)
  BY <1>2 DEF Chan
<1> HIDE DEF c1
<1>4. c2 = Chan(c.ring, c.partial, c.partial_overflow, c.ring_overflow, n, q)
  BY <1>3 DEF Chan
<1> HIDE DEF c2
<1>5. c3 = Chan(c.ring, p.text, c.partial_overflow, c.ring_overflow, n, q)
  BY <1>4 DEF Chan
<1> HIDE DEF c3
<1>6. c4 = Chan(c.ring, p.text, p.bad, c.ring_overflow, n, q)
  BY <1>5 DEF Chan
<1> HIDE DEF c4
<1>7. c5 = Chan(r, p.text, p.bad, c.ring_overflow, n, q)
  BY <1>6 DEF Chan
<1> QED
  BY <1>1, <1>7 DEF q, n, r

LEMMA PumpedFacts ==
  ASSUME NEW c, Sound(c)
  PROVE  /\ Sound(Pumped(c)) /\ Owed(Pumped(c)) = Owed(c) /\ InHand(Pumped(c)) = InHand(c)
<1>1. PICK d : d = Pumped(c)
  OBVIOUS
<1>2. PICK ring \in Seq(Cells), queue \in Seq(Lines), n \in Nat, m \in Nat, k \in Nat :
        /\ m <= n /\ k <= Len(ring)
        /\ ring = c.ring /\ queue = c.queue /\ n = c.recovered_safe /\ m = Rescued(c) /\ k = Taken(c)
        /\ n <= RECOVERED_MAX /\ Len(ring) < RING_SIZE /\ Len(queue) + m <= LINE_QUEUE
        /\ Cardinality(LineEnds(SubSeq(ring, 1, k))) <= LINE_QUEUE - Len(queue) - m
        /\ m < n => k = 0
  <2>1. /\ c.ring \in Seq(Cells) /\ c.queue \in Seq(Lines) /\ c.recovered_safe \in Nat
        /\ Len(c.ring) \in Nat /\ c.recovered_safe <= RECOVERED_MAX /\ Len(c.ring) < RING_SIZE
    BY SoundTypes DEF Sound
  <2>2. /\ Rescued(c) \in Nat /\ Rescued(c) <= c.recovered_safe
        /\ Taken(c) \in Nat /\ Taken(c) <= Len(c.ring)
    BY <2>1, TakenFacts
  <2> QED
    BY <2>1, <2>2, TakenFacts
<1>3. PICK pre \in Seq(Cells), post \in Seq(Cells) :
        /\ pre = SubSeq(ring, 1, k) /\ post = SubSeq(ring, k + 1, Len(ring))
        /\ pre \o post = ring /\ Len(post) <= Len(ring)
        /\ k = 0 => pre = <<>> /\ post = ring
  <2>1. /\ SubSeq(ring, 1, k) \in Seq(Cells) /\ SubSeq(ring, k + 1, Len(ring)) \in Seq(Cells)
        /\ Len(SubSeq(ring, k + 1, Len(ring))) <= Len(ring)
    <3>1. /\ \A i \in 1 .. k : ring[i] \in Cells
          /\ \A i \in k + 1 .. Len(ring) : ring[i] \in Cells
          /\ 1 \in Int /\ k \in Int /\ k + 1 \in Int /\ Len(ring) \in Int
      BY <1>2, ElementOfSeq
    <3>2. SubSeq(ring, 1, k) \in Seq(Cells)
      BY <3>1, SubSeqProperties
    <3>3. /\ SubSeq(ring, k + 1, Len(ring)) \in Seq(Cells)
          /\ Len(SubSeq(ring, k + 1, Len(ring)))
               = IF k + 1 <= Len(ring) THEN Len(ring) - (k + 1) + 1 ELSE 0
      BY <3>1, SubSeqProperties
    <3> QED
      BY <1>2, <3>2, <3>3
  <2>2. SubSeq(ring, 1, k) \o SubSeq(ring, k + 1, Len(ring)) = SubSeq(ring, 1, Len(ring))
    <3>1. 1 \in 1 .. Len(ring) + 1 /\ k \in 1 - 1 .. Len(ring) /\ Len(ring) \in k .. Len(ring)
      BY <1>2
    <3> QED
      BY <3>1, ConcatAdjacentSubSeq
  <2>3. SubSeq(ring, 1, Len(ring)) = ring
    BY SubSeqFull
  <2>4. k = 0 => SubSeq(ring, 1, k) = <<>> /\ SubSeq(ring, k + 1, Len(ring)) = ring
    BY <2>3, SubSeqEmpty
  <2> QED
    BY <2>1, <2>2, <2>3, <2>4
<1>4. PICK p \in Parsed : p = Parse(c, pre)
  BY SoundTypes, ParseTypes
<1>5. /\ p.text \in Seq(LETTERS) /\ Len(p.text) <= CMD_LINE_MAX /\ p.bad \in BOOLEAN
      /\ p.lines \in Seq(Lines) /\ Len(p.lines) <= LINE_QUEUE - Len(queue) - m
  <2>1. Len(p.lines) = Cardinality(LineEnds(pre))
    BY <1>4, SoundTypes, ParseTypes
  <2> QED
    BY <1>2, <1>3, <2>1 DEF Parsed
<1>6. d = Chan(post, p.text, p.bad, c.ring_overflow, n - m, queue \o Repeat(m) \o p.lines)
  BY <1>1, <1>2, <1>3, <1>4, PumpedFields
<1>7. /\ d.ring = post /\ d.partial = p.text /\ d.partial_overflow = p.bad
      /\ d.ring_overflow = c.ring_overflow /\ d.recovered_safe = n - m
      /\ d.queue = queue \o Repeat(m) \o p.lines
  BY <1>6 DEF Chan
<1>8. Joined(p.lines, Parse(c, ring), Parse(d, post))
  <2>1. Continues(d, c, pre)
    BY <1>4, <1>7, Zenon DEF Continues
  <2>2. HasPartial(c)
    BY SoundTypes
  <2>3. Joined(Parse(c, pre).lines, Parse(c, pre \o post), Parse(d, post))
    BY <2>1, <2>2, ParseInTwo
  <2> QED
    BY <1>3, <1>4, <2>3, Zenon
<1>9. k = 0 => p.lines = <<>> /\ p.bad = c.partial_overflow
  <2>1. k = 0 => p = Start(c)
    BY <1>3, <1>4, ParseNothing
  <2> QED
    BY <2>1 DEF Start
<1>10. /\ Repeat(m) \in Seq(Lines) /\ Len(Repeat(m)) = m /\ Repeat(n - m) \in Seq(Lines)
       /\ Repeat(m) \o Repeat(n - m) = Repeat(n) /\ Repeat(n) \in Seq(Lines)
       /\ (n - m = 0 => Repeat(n - m) = <<>>)
  <2>1. n - m \in Nat /\ m + (n - m) = n
    BY <1>2
  <2>2. Repeat(m) \o Repeat(n - m) = Repeat(m + (n - m))
    BY <2>1, RepeatFacts
  <2>3. Repeat(m) \o Repeat(n - m) = Repeat(n)
    BY <2>1, <2>2, Zenon
  <2> QED
    BY <2>1, <2>3, RepeatFacts
<1>11. (queue \o Repeat(m)) \o Repeat(n - m) = queue \o (Repeat(m) \o Repeat(n - m))
  <2>1. PICK r1 \in Seq(Lines), r2 \in Seq(Lines) : r1 = Repeat(m) /\ r2 = Repeat(n - m)
    BY <1>10
  <2>2. (queue \o r1) \o r2 = queue \o (r1 \o r2)
    BY LinesConcat
  <2> QED
    BY <2>1, <2>2, Zenon
<1>12. PICK kept \in Seq(Lines), lines \in Seq(Lines), moved \in Seq(Lines) :
         /\ kept = queue \o Repeat(m) /\ lines = p.lines /\ moved = kept \o lines
         /\ d.queue = moved /\ Len(moved) <= LINE_QUEUE
  <2>1. PICK kept \in Seq(Lines), lines \in Seq(Lines) :
          kept = queue \o Repeat(m) /\ lines = p.lines /\ Len(kept) = Len(queue) + m
    <3>1. PICK r \in Seq(Lines) : r = Repeat(m) /\ Len(r) = m
      BY <1>10
    <3>2. queue \o r \in Seq(Lines) /\ Len(queue \o r) = Len(queue) + m
      BY <3>1, ConcatProperties
    <3> QED
      BY <1>5, <3>1, <3>2, Zenon
  <2>2. PICK moved \in Seq(Lines) : moved = kept \o lines /\ Len(moved) = Len(kept) + Len(lines)
    BY ConcatProperties
  <2>3. Len(moved) <= LINE_QUEUE
    <3>1. Len(lines) <= LINE_QUEUE - Len(queue) - m
      BY <1>5, <2>1
    <3> QED
      BY <1>2, <2>1, <2>2, <3>1, SuperloopAssumption, SMTT(20)
  <2>4. d.queue = moved
    BY <1>7, <2>1, <2>2, Zenon
  <2> QED
    BY <2>1, <2>2, <2>3, <2>4, Zenon
<1>13. Sound(d)
  <2>1. c.ring_overflow \in BOOLEAN /\ (c.ring_overflow => ring = <<>> /\ c.partial_overflow)
    BY <1>2, SoundTypes DEF Sound
  <2>2. ring = <<>> => k = 0 /\ post = <<>>
    <3>1. Len(<<>>) = 0
      OBVIOUS
    <3> QED
      BY <1>2, <1>3, <3>1
  <2>3. n - m \in 0 .. RECOVERED_MAX
    <3>1. RECOVERED_MAX \in Nat
      BY SuperloopAssumption
    <3>2. m <= n /\ n <= RECOVERED_MAX
      BY <1>2
    <3> QED
      BY <3>1, <3>2
  <2>4. d \in Channel
    <3>1. d = Chan(post, p.text, p.bad, c.ring_overflow, n - m, moved)
      BY <1>6, <1>12, Zenon
    <3>2. Chan(post, p.text, p.bad, c.ring_overflow, n - m, moved) \in Channel
      BY <1>5, <2>1, <2>3, ChannelOf
    <3> QED
      BY <3>1, <3>2, Zenon
  <2>5. Len(d.ring) < RING_SIZE /\ Len(d.partial) <= CMD_LINE_MAX
    <3>1. RING_SIZE \in Nat
      BY SuperloopAssumption
    <3>2. Len(post) \in Nat /\ Len(ring) \in Nat
      BY LenProperties
    <3>3. Len(post) <= Len(ring) /\ Len(ring) < RING_SIZE
      BY <1>2, <1>3, Zenon
    <3>4. Len(post) < RING_SIZE
      BY <3>1, <3>2, <3>3
    <3> QED
      BY <1>5, <1>7, <3>4, Zenon
  <2>6. Len(d.queue) <= LINE_QUEUE
    BY <1>12, Zenon
  <2>7. d.ring_overflow => d.ring = <<>> /\ d.partial_overflow
    BY <1>7, <1>9, <2>1, <2>2
  <2> QED
    BY <2>4, <2>5, <2>6, <2>7 DEF Sound
<1>14. PICK rest \in Seq(Lines) : rest = Parse(d, post).lines
  BY <1>7, <1>13, SoundTypes
<1>15. Owed(d) = moved \o Repeat(n - m) \o rest
  BY <1>7, <1>12, <1>14, Zenon DEF Owed
<1>16. Owed(c) = (queue \o Repeat(n)) \o (lines \o rest)
  BY <1>2, <1>8, <1>12, <1>14, Zenon DEF Owed, Joined
<1>17. Owed(d) = Owed(c)
  <2>1. CASE m = n
    <3>1. moved \o Repeat(n - m) = moved
      <4>1. Repeat(n - m) = <<>> /\ moved \o <<>> = moved
        BY <1>10, <2>1, ConcatEmptySeq
      <4> QED
        BY <4>1, Zenon
    <3>2. (kept \o lines) \o rest = kept \o (lines \o rest)
      BY LinesConcat, ZenonT(30)
    <3> QED
      BY <1>12, <1>15, <1>16, <2>1, <3>1, <3>2, Zenon
  <2>2. CASE m # n
    <3>1. lines = <<>>
      BY <1>2, <1>9, <1>12, <2>2
    <3>2. kept \o <<>> = kept /\ <<>> \o rest = rest
      BY ConcatEmptySeq
    <3> QED
      BY <1>10, <1>12, <1>15, <1>16, <1>11, <3>1, <3>2, Zenon
  <2> QED
    BY <2>1, <2>2
<1>18. InHand(d) = InHand(c)
  BY <1>2, <1>7, <1>8 DEF InHand, Joined
<1> QED
  BY <1>1, <1>13, <1>17, <1>18

LEMMA HasSafeAppend ==
  ASSUME NEW s \in Seq(Lines), NEW line \in Lines
  PROVE  HasSafe(Append(s, line)) <=> HasSafe(s) \/ IsSafeLine(line)
<1>1. /\ DOMAIN Append(s, line) = 1 .. Len(s) + 1 /\ DOMAIN s = 1 .. Len(s) /\ Len(s) \in Nat
      /\ Append(s, line)[Len(s) + 1] = line
      /\ \A i \in 1 .. Len(s) : Append(s, line)[i] = s[i]
  OBVIOUS
<1>2. ASSUME NEW i \in DOMAIN s, IsSafeLine(s[i]) PROVE HasSafe(Append(s, line))
  BY <1>1, <1>2 DEF HasSafe
<1>3. ASSUME IsSafeLine(line) PROVE HasSafe(Append(s, line))
  <2>1. Len(s) + 1 \in DOMAIN Append(s, line)
    BY <1>1
  <2> QED
    BY <1>1, <1>3, <2>1 DEF HasSafe
<1>4. ASSUME NEW i \in DOMAIN Append(s, line), IsSafeLine(Append(s, line)[i])
      PROVE  HasSafe(s) \/ IsSafeLine(line)
  <2>1. CASE i = Len(s) + 1
    BY <1>1, <1>4, <2>1
  <2>2. CASE i # Len(s) + 1
    <3>1. i \in DOMAIN s /\ Append(s, line)[i] = s[i]
      BY <1>1, <2>2
    <3> QED
      BY <1>4, <3>1 DEF HasSafe
  <2> QED
    BY <2>1, <2>2
<1> QED
  BY <1>2, <1>3, <1>4 DEF HasSafe

\* What a line under way becomes.
NewLine == [text |-> <<>>, bad |-> FALSE]
Spoilt == [text |-> <<>>, bad |-> TRUE]
WithByte(t, b) == IF t.bad \/ b = NUL \/ Len(t.text) = CMD_LINE_MAX
                  THEN Spoilt ELSE [t EXCEPT !.text = Append(@, b)]
Finished(t, busy) == LineOf(t.text, t.bad, busy)

LEMMA SameStart ==
  ASSUME NEW c, HasPartial(c), NEW d, d.partial = c.partial,
         d.partial_overflow = c.partial_overflow, NEW s \in Seq(Cells)
  PROVE  Parse(d, s) = Parse(c, s)
<1>1. Start(d) = Start(c)
  BY Zenon DEF Start
<1>2. Parse(c, <<>>) = Start(c) /\ Parse(c, <<>>).lines = <<>>
  BY ParseNothing DEF Start
<1>3. Continues(d, c, <<>>)
  BY <1>2 DEF Continues, Start
<1>4. <<>> \in Seq(Cells) /\ <<>> \o s = s
  BY ConcatEmptySeq
<1>5. Joined(Parse(c, <<>>).lines, Parse(c, <<>> \o s), Parse(d, s))
  BY <1>3, <1>4, ParseInTwo
<1>6. Joined(<<>>, Parse(c, s), Parse(d, s))
  BY <1>2, <1>4, <1>5, Zenon
<1>7. HasPartial(d)
  BY DEF HasPartial
<1>8. PICK p \in Parsed, q \in Parsed : p = Parse(c, s) /\ q = Parse(d, s)
  BY <1>7, ParseTypes
<1>9. <<>> \o q.lines = q.lines
  <2>1. q.lines \in Seq(Lines)
    BY DEF Parsed
  <2> QED
    BY <2>1, ConcatEmptySeq
<1>10. p.text = q.text /\ p.bad = q.bad /\ p.lines = q.lines
  BY <1>6, <1>8, <1>9, Zenon DEF Joined
<1>11. p = q
  BY <1>10 DEF Parsed
<1> QED
  BY <1>8, <1>11, Zenon

LEMMA InHandTypes ==
  ASSUME NEW c, Sound(c)
  PROVE  /\ InHand(c) \in [text : Seq(LETTERS), bad : BOOLEAN]
         /\ InHand(c).bad <=> Parse(c, c.ring).bad
         /\ InHand(c).bad => InHand(c) = Spoilt
         /\ ~InHand(c).bad => InHand(c).text = Parse(c, c.ring).text
         /\ \A busy \in BOOLEAN :
              Finished(InHand(c), busy) = LineOf(Parse(c, c.ring).text, Parse(c, c.ring).bad, busy)
<1>1. PICK p \in Parsed : p = Parse(c, c.ring)
  BY SoundTypes
<1>2. p.text \in Seq(LETTERS) /\ p.bad \in BOOLEAN /\ c.ring_overflow \in BOOLEAN
  BY SoundTypes DEF Parsed
<1>3. c.ring_overflow => p.bad
  <2>1. c.ring_overflow => c.ring = <<>> /\ c.partial_overflow
    BY DEF Sound
  <2>2. c.ring_overflow => p = Start(c)
    BY <1>1, <2>1, ParseNothing
  <2> QED
    BY <2>1, <2>2 DEF Start
<1>4. InHand(c) = IF p.bad THEN [text |-> <<>>, bad |-> TRUE] ELSE [text |-> p.text, bad |-> FALSE]
  BY <1>1, <1>2, <1>3 DEF InHand
<1>5. InHand(c).bad <=> p.bad
  BY <1>2, <1>4
<1>6. \A busy \in BOOLEAN : Finished(InHand(c), busy) = LineOf(p.text, p.bad, busy)
  <2>1. CASE p.bad
    BY <1>4, <2>1 DEF Finished, LineOf, KindOf
  <2>2. CASE ~p.bad
    BY <1>4, <2>2 DEF Finished, LineOf, KindOf
  <2> QED
    BY <2>1, <2>2
<1>7. CASE p.bad
  <2>1. InHand(c) = Spoilt /\ Spoilt \in [text : Seq(LETTERS), bad : BOOLEAN]
    BY <1>4, <1>7 DEF Spoilt
  <2> QED
    BY <1>1, <1>5, <1>6, <1>7, <2>1
<1>8. CASE ~p.bad
  <2>1. InHand(c) = [text |-> p.text, bad |-> FALSE]
    BY <1>4, <1>8
  <2>2. InHand(c) \in [text : Seq(LETTERS), bad : BOOLEAN] /\ InHand(c).text = p.text
    BY <1>2, <2>1
  <2> QED
    BY <1>1, <1>5, <1>6, <1>8, <2>2
<1> QED
  BY <1>7, <1>8

LEMMA ArrivingCell ==
  ASSUME NEW b \in BYTES, executing \in BOOLEAN
  PROVE  Arriving(b) \in Cells /\ Arriving(b).byte = b /\ Arriving(b).busy = executing
BY DEF Arriving, Cells

\* A byte that is dropped, or finds room in the ring.
LEMMA ReceivedFacts ==
  ASSUME NEW c, Sound(c), NEW b \in BYTES, executing \in BOOLEAN, ~Overflowing(c, b)
  PROVE  /\ Sound(Pushed(c, b))
         /\ b = NL => /\ Owed(Pushed(c, b)) = Append(Owed(c), Finished(InHand(c), executing))
                      /\ InHand(Pushed(c, b)) = NewLine
                      /\ Finished(InHand(c), executing) \in Lines
         /\ b # NL => /\ Owed(Pushed(c, b)) = Owed(c)
                      /\ InHand(Pushed(c, b)) = WithByte(InHand(c), b)
         /\ HasSafe(Parse(Pushed(c, b), Pushed(c, b).ring).lines)
              <=> \/ HasSafe(Parse(c, c.ring).lines)
                  \/ b = NL /\ IsSafeLine(Finished(InHand(c), executing))
<1>1. CASE c.ring_overflow /\ b # NL
  <2>1. Pushed(c, b) = c
    BY <1>1 DEF Pushed
  <2>2. InHand(c) = Spoilt
    BY <1>1 DEF InHand, Spoilt
  <2>3. WithByte(InHand(c), b) = Spoilt
    BY <2>2 DEF WithByte, Spoilt
  <2> QED
    BY <1>1, <2>1, <2>2, <2>3
<1>2. CASE ~(c.ring_overflow /\ b # NL)
  <2>1. PICK r \in Cells : r = Arriving(b) /\ r.byte = b /\ r.busy = executing
    BY ArrivingCell
  <2>2. PICK d : d = Pushed(c, b)
    OBVIOUS
  <2>3. PICK ring \in Seq(Cells) : ring = c.ring /\ Len(ring) + 1 < RING_SIZE
    <3>1. c.ring \in Seq(Cells) /\ Len(c.ring) < RING_SIZE
      BY SoundTypes DEF Sound
    <3>2. Len(c.ring) # RING_SIZE - 1
      BY <1>2 DEF Overflowing
    <3> QED
      BY <3>1, <3>2, SuperloopAssumption
  <2>4. d = Chan(Append(ring, r), c.partial, c.partial_overflow, FALSE, c.recovered_safe, c.queue)
    <3> DEFINE no == FALSE
               c1 == [c EXCEPT !.ring_overflow = no]
               longer == Append(ring, r)
               c2 == [c1 EXCEPT !.ring = longer]
    <3>1. d = [c EXCEPT !.ring_overflow = FALSE, !.ring = Append(@, Arriving(b))]
      BY <1>2, <2>2 DEF Pushed
    <3>2. d = c2
      BY <2>1, <2>3, <3>1
    <3>3. c = Chan(c.ring, c.partial, c.partial_overflow, c.ring_overflow, c.recovered_safe, c.queue)
      BY ChannelFields DEF Sound
    <3> HIDE DEF no
    <3>4. c1 = Chan(c.ring, c.partial, c.partial_overflow, no, c.recovered_safe, c.queue)
      BY <3>3 DEF Chan
    <3> HIDE DEF c1, longer
    <3>5. c2 = Chan(longer, c.partial, c.partial_overflow, no, c.recovered_safe, c.queue)
      BY <3>4 DEF Chan
    <3> QED
      BY <3>2, <3>5 DEF no, longer
  <2>5. /\ d.ring = Append(ring, r) /\ d.partial = c.partial /\ d.partial_overflow = c.partial_overflow
        /\ d.ring_overflow = FALSE /\ d.recovered_safe = c.recovered_safe /\ d.queue = c.queue
    BY <2>4 DEF Chan
  <2>6. Append(ring, r) \in Seq(Cells) /\ Len(Append(ring, r)) = Len(ring) + 1
    OBVIOUS
  <2>7. Sound(d)
    <3>1. /\ c.partial \in Seq(LETTERS) /\ c.queue \in Seq(Lines)
          /\ c.partial_overflow \in BOOLEAN /\ c.recovered_safe \in 0 .. RECOVERED_MAX
          /\ Len(c.partial) <= CMD_LINE_MAX /\ Len(c.queue) <= LINE_QUEUE
      BY DEF Sound, Channel
    <3>2. d \in Channel
      BY <2>4, <2>6, <3>1 DEF Channel, Chan
    <3> QED
      BY <2>3, <2>5, <2>6, <3>1, <3>2 DEF Sound
  <2>8. PICK p \in Parsed : p = Parse(c, ring) /\ p = Parse(d, ring)
    <3>1. HasPartial(c) /\ Parse(c, ring) \in Parsed
      BY <2>3, SoundTypes
    <3>2. Parse(d, ring) = Parse(c, ring)
      BY <2>5, <3>1, SameStart
    <3> QED
      BY <3>1, <3>2
  <2>9. PICK q \in Parsed : q = Parse(d, d.ring) /\ q = Parse1(p, r)
    <3>1. Parse(d, Append(ring, r)) = Parse1(Parse(d, ring), r)
      BY ParseOneMore
    <3> QED
      BY <2>5, <2>8, <3>1, OneByte
  <2>10. /\ p.lines \in Seq(Lines) /\ q.lines \in Seq(Lines) /\ p.text \in Seq(LETTERS)
         /\ p.bad \in BOOLEAN /\ q.bad \in BOOLEAN
    BY DEF Parsed
  <2>11. PICK line \in Lines :
           line = LineOf(p.text, p.bad, r.busy) /\ line = Finished(InHand(c), executing)
    <3>1. LineOf(p.text, p.bad, r.busy) \in Lines
      BY OneByte
    <3>2. Finished(InHand(c), executing) = LineOf(p.text, p.bad, r.busy)
      BY <2>1, <2>3, <2>8, InHandTypes
    <3> QED
      BY <3>1, <3>2
  <2>12. InHand(d) = IF q.bad THEN Spoilt ELSE [text |-> q.text, bad |-> FALSE]
    BY <2>5, <2>9 DEF InHand, Spoilt
  <2>13. PICK old \in Seq(Lines) :
           /\ old = c.queue \o Repeat(c.recovered_safe)
           /\ Owed(c) = old \o p.lines /\ Owed(d) = old \o q.lines
    <3>1. PICK queue \in Seq(Lines), rep \in Seq(Lines) :
            queue = c.queue /\ rep = Repeat(c.recovered_safe)
      BY SoundTypes, RepeatFacts
    <3>2. queue \o rep \in Seq(Lines)
      BY ConcatProperties
    <3>3. Owed(c) = (c.queue \o Repeat(c.recovered_safe)) \o p.lines
      BY <2>3, <2>8, Zenon DEF Owed
    <3>4. Owed(d) = (c.queue \o Repeat(c.recovered_safe)) \o q.lines
      BY <2>5, <2>9, Zenon DEF Owed
    <3> QED
      BY <3>1, <3>2, <3>3, <3>4, Zenon
  <2>14. CASE b = NL
    <3>1. q.text = <<>> /\ ~q.bad /\ q.lines = Append(p.lines, line)
      <4>1. Ends(r)
        BY <2>1, <2>14 DEF Ends
      <4>2. /\ Parse1(p, r).text = <<>> /\ ~Parse1(p, r).bad
            /\ Parse1(p, r).lines = Append(p.lines, LineOf(p.text, p.bad, r.busy))
        BY <4>1, OneByte
      <4> QED
        BY <2>9, <2>11, <4>2, Zenon
    <3>2. Append(old \o p.lines, line) = old \o Append(p.lines, line)
      BY <2>10, LinesAppend
    <3>3. HasSafe(q.lines) <=> HasSafe(p.lines) \/ IsSafeLine(line)
      BY <2>10, <3>1, HasSafeAppend
    <3>4. Owed(d) = Append(Owed(c), line)
      BY <2>13, <3>1, <3>2, Zenon
    <3>5. InHand(d) = NewLine
      BY <2>12, <3>1 DEF NewLine
    <3> QED
      BY <2>2, <2>3, <2>7, <2>8, <2>9, <2>11, <2>14, <3>3, <3>4, <3>5
  <2>15. CASE b # NL
    <3>1. q.lines = p.lines
      BY <2>1, <2>9, <2>15, OneByte DEF Ends
    <3>2. InHand(d) = WithByte(InHand(c), b)
      <4>1. PICK t \in [text : Seq(LETTERS), bad : BOOLEAN] :
              /\ t = InHand(c) /\ (t.bad <=> p.bad) /\ (~t.bad => t.text = p.text)
        BY <2>3, <2>8, InHandTypes
      <4>2. CASE Spoils(p, r)
        <5>1. q.bad
          BY <2>9, <4>2, OneByte
        <5>2. t.bad \/ b = NUL \/ Len(t.text) = CMD_LINE_MAX
          BY <2>1, <4>1, <4>2 DEF Spoils
        <5> QED
          BY <2>12, <4>1, <5>1, <5>2 DEF WithByte
      <4>3. CASE ~Spoils(p, r)
        <5>1. q.text = Append(p.text, b) /\ (q.bad <=> p.bad)
          BY <2>1, <2>9, <2>15, <4>3, OneByte DEF Ends
        <5>2. b # NUL /\ Len(p.text) # CMD_LINE_MAX
          BY <2>1, <2>15, <4>3 DEF Spoils, Ends
        <5>3. CASE p.bad
          BY <2>12, <4>1, <5>1, <5>3 DEF WithByte
        <5>4. CASE ~p.bad
          <6> DEFINE more == Append(p.text, b)
          <6>1. t = [text |-> p.text, bad |-> t.bad] /\ ~t.bad
            BY <4>1, <5>4
          <6> HIDE DEF more
          <6>2. [t EXCEPT !.text = more] = [text |-> more, bad |-> t.bad]
            BY <6>1
          <6>3. [t EXCEPT !.text = more] = [text |-> more, bad |-> FALSE]
            BY <4>1, <6>1, <6>2
          <6>4. [t EXCEPT !.text = Append(@, b)] = [t EXCEPT !.text = more]
            <7>1. t.text = p.text
              BY <4>1, <5>4
            <7> QED
              BY <7>1, Zenon DEF more
          <6>5. WithByte(InHand(c), b) = [text |-> more, bad |-> FALSE]
            <7>1. ~(t.bad \/ b = NUL \/ Len(t.text) = CMD_LINE_MAX)
              BY <4>1, <5>2, <5>4
            <7>2. WithByte(t, b) = [t EXCEPT !.text = Append(@, b)]
              BY <7>1, Zenon DEF WithByte
            <7> QED
              BY <4>1, <6>3, <6>4, <7>2, Zenon
          <6>6. InHand(d) = [text |-> more, bad |-> FALSE]
            BY <2>12, <5>1, <5>4 DEF more
          <6> QED
            BY <6>5, <6>6
        <5> QED
          BY <5>3, <5>4
      <4> QED
        BY <4>2, <4>3
    <3>3. Owed(d) = Owed(c)
      BY <2>13, <3>1, Zenon
    <3> QED
      BY <2>2, <2>3, <2>7, <2>8, <2>9, <2>15, <3>1, <3>2, <3>3
  <2> QED
    BY <2>14, <2>15
<1> QED
  BY <1>1, <1>2

Kept(b) == IF b = NL THEN <<Arriving(b)>> ELSE <<>>

LEMMA KeptFacts ==
  ASSUME NEW b \in BYTES, executing \in BOOLEAN
  PROVE  /\ Kept(b) \in Seq(Cells) /\ Len(Kept(b)) < RING_SIZE
         /\ b # NL => Kept(b) = <<>>
         /\ b = NL => Kept(b) = <<Arriving(b)>>
<1>1. PICK r \in Cells : r = Arriving(b)
  BY ArrivingCell
<1>2. <<>> \in Seq(Cells) /\ Len(<<>>) = 0 /\ <<r>> \in Seq(Cells) /\ Len(<<r>>) = 1
  OBVIOUS
<1>3. RING_SIZE \in Nat /\ RING_SIZE > 1
  BY SuperloopAssumption
<1>4. CASE b = NL
  <2>1. Kept(b) = <<r>>
    BY <1>1, <1>4 DEF Kept
  <2> QED
    BY <1>1, <1>2, <1>3, <1>4, <2>1
<1>5. CASE b # NL
  <2>1. Kept(b) = <<>>
    BY <1>5 DEF Kept
  <2> QED
    BY <1>2, <1>3, <1>5, <2>1
<1> QED
  BY <1>4, <1>5

\* A byte that does not fit: the ring is lost, but for the SAFE in it.
LEMMA OverflowedFacts ==
  ASSUME NEW c, Sound(c), NEW b \in BYTES, executing \in BOOLEAN, Overflowing(c, b)
  PROVE  /\ Sound(Pushed(c, b)) /\ Pushed(c, b).queue = c.queue
         /\ InHand(Pushed(c, b)) = IF b = NL THEN NewLine ELSE Spoilt
         /\ Owed(Pushed(c, b)) = (c.queue \o Repeat(Pushed(c, b).recovered_safe))
                                   \o IF b = NL THEN <<Finished(Spoilt, executing)>> ELSE <<>>
         /\ Pushed(c, b).recovered_safe
              = Min({RECOVERED_MAX, c.recovered_safe + buffered_safe_count(c, <<Arriving(b)>>)})
         /\ buffered_safe_count(c, <<Arriving(b)>>)
              = Safes(IF b = NL
                      THEN Append(Parse(c, c.ring).lines, Finished(InHand(c), executing))
                      ELSE Parse(c, c.ring).lines)
         /\ buffered_safe_count(c, <<Arriving(b)>>) \in Nat
         /\ b = NL => Finished(InHand(c), executing) \in Lines
<1>1. PICK r \in Cells : r = Arriving(b) /\ r.byte = b /\ r.busy = executing
  BY ArrivingCell
<1>2. PICK ring \in Seq(Cells), queue \in Seq(Lines), n \in Nat :
        ring = c.ring /\ queue = c.queue /\ n = c.recovered_safe
  BY SoundTypes
<1>3. PICK p \in Parsed, q \in Parsed :
        p = Parse(c, ring) /\ q = Parse(c, Append(ring, r)) /\ q = Parse1(p, r)
  <2>1. Parse(c, ring) \in Parsed
    BY <1>2, SoundTypes
  <2> QED
    BY <2>1, ParseOneMore, OneByte
<1>4. p.lines \in Seq(Lines) /\ q.lines \in Seq(Lines)
  BY DEF Parsed
<1>5. buffered_safe_count(c, <<Arriving(b)>>) = Safes(q.lines)
  <2>1. Append(ring, r) = ring \o <<r>>
    BY AppendIsConcat
  <2> QED
    BY <1>1, <1>2, <1>3, <2>1, Zenon DEF buffered_safe_count
<1>6. PICK found \in Nat : found = Safes(q.lines)
  BY <1>4, SafesCount
<1>7. LineOf(p.text, p.bad, r.busy) = Finished(InHand(c), executing)
      /\ LineOf(p.text, p.bad, r.busy) \in Lines
  BY <1>1, <1>2, <1>3, InHandTypes, OneByte
<1>8. q.lines = IF b = NL THEN Append(p.lines, Finished(InHand(c), executing)) ELSE p.lines
  <2>1. CASE b = NL
    <3>1. Ends(r)
      BY <1>1, <2>1 DEF Ends
    <3>2. Parse1(p, r).lines = Append(p.lines, LineOf(p.text, p.bad, r.busy))
      BY <3>1, OneByte
    <3>3. q.lines = Append(p.lines, Finished(InHand(c), executing))
      BY <1>3, <1>7, <3>2, Zenon
    <3> QED
      BY <2>1, <3>3
  <2>2. CASE b # NL
    <3>1. ~Ends(r)
      BY <1>1, <2>2 DEF Ends
    <3>2. Parse1(p, r).lines = p.lines
      BY <3>1, OneByte
    <3> QED
      BY <1>3, <2>2, <3>2
  <2> QED
    BY <2>1, <2>2
<1>9. PICK all \in 0 .. RECOVERED_MAX : all = Min({RECOVERED_MAX, n + found})
  <2>1. RECOVERED_MAX \in Nat /\ n + found \in Nat
    BY SuperloopAssumption
  <2>2. Min({RECOVERED_MAX, n + found}) = IF RECOVERED_MAX <= n + found THEN RECOVERED_MAX ELSE n + found
    BY <2>1, MinOfTwo
  <2> QED
    BY <2>1, <2>2
<1>10. PICK d : d = Pushed(c, b)
  OBVIOUS
<1>11. PICK left \in Seq(Cells) :
         /\ left = Kept(b) /\ Len(left) < RING_SIZE
         /\ b # NL => left = <<>>
         /\ b = NL => left = <<r>>
  BY <1>1, KeptFacts
<1>12. d = Chan(left, <<>>, TRUE, b # NL, all, queue)
  <2> DEFINE safes == Min({RECOVERED_MAX, c.recovered_safe + buffered_safe_count(c, <<Arriving(b)>>)})
  <2>1. d = [Emptied EXCEPT !.queue = c.queue, !.recovered_safe = safes, !.partial_overflow = TRUE,
                            !.ring_overflow = b # NL, !.ring = Kept(b)]
    <3>1. ~(c.ring_overflow /\ b # NL)
      BY DEF Overflowing
    <3> QED
      BY <1>10, <3>1, Zenon DEF Pushed, Kept
  <2>2. safes = all
    BY <1>2, <1>5, <1>6, <1>9, Zenon
  <2> HIDE DEF safes
  <2>3. d = [Emptied EXCEPT !.queue = queue, !.recovered_safe = all, !.partial_overflow = TRUE,
                            !.ring_overflow = b # NL, !.ring = left]
    BY <1>2, <1>11, <2>1, <2>2, Zenon
  <2> QED
    BY <2>3 DEF Emptied, Chan
<1>13. /\ d.ring = left /\ d.partial = <<>> /\ d.partial_overflow /\ (d.ring_overflow <=> b # NL)
       /\ d.recovered_safe = all /\ d.queue = queue
  BY <1>12 DEF Chan
<1>14. Sound(d)
  <2>1. Len(queue) <= LINE_QUEUE /\ CMD_LINE_MAX \in Nat
    BY <1>2, SuperloopAssumption DEF Sound
  <2>2. d \in Channel
    BY <1>12 DEF Channel, Chan
  <2>3. Len(d.ring) < RING_SIZE /\ Len(d.queue) <= LINE_QUEUE
    BY <1>11, <1>13, <2>1, Zenon
  <2>4. Len(d.partial) <= CMD_LINE_MAX
    <3>1. Len(<<>>) = 0 /\ 0 <= CMD_LINE_MAX
      BY <2>1
    <3> QED
      BY <1>13, <3>1, Zenon
  <2>5. d.ring_overflow => d.ring = <<>> /\ d.partial_overflow
    <3>1. b # NL => left = <<>>
      BY <1>11
    <3> QED
      BY <1>13, <3>1, Zenon
  <2> QED
    BY <2>2, <2>3, <2>4, <2>5, Zenon DEF Sound
<1>15. PICK s \in Parsed :
         /\ s = Start(d) /\ s = Parse(d, <<>>)
         /\ s.text = <<>> /\ s.bad /\ s.lines = <<>>
  <2>1. Parse(d, <<>>) = Start(d)
    BY ParseNothing
  <2>2. Start(d) = [text |-> <<>>, bad |-> TRUE, lines |-> <<>>]
    BY <1>12 DEF Start, Chan
  <2>3. [text |-> <<>>, bad |-> TRUE, lines |-> <<>>] \in Parsed
    BY SuperloopAssumption DEF Parsed
  <2> QED
    BY <2>1, <2>2, <2>3
<1>16. CASE b = NL
  <2>1. Ends(r)
    BY <1>1, <1>16 DEF Ends
  <2>2. Parse(d, left) = Parse1(s, r)
    <3>1. PICK none \in Seq(Cells) : none = <<>>
      <4>1. <<>> \in Seq(Cells)
        OBVIOUS
      <4> QED
        BY <4>1
    <3>2. Append(none, r) = <<r>>
      BY <3>1
    <3>3. left = <<r>>
      BY <1>11, <1>16
    <3>4. Parse(d, Append(none, r)) = Parse1(Parse(d, none), r)
      BY ParseOneMore
    <3> QED
      BY <1>15, <3>1, <3>2, <3>3, <3>4, Zenon
  <2>3. /\ Parse1(s, r).text = <<>> /\ ~Parse1(s, r).bad
        /\ Parse1(s, r).lines = Append(s.lines, LineOf(s.text, s.bad, r.busy))
    BY <2>1, OneByte
  <2>4. LineOf(s.text, s.bad, r.busy) = Finished(Spoilt, executing)
    BY <1>1, <1>15 DEF Finished, Spoilt, LineOf, KindOf
  <2>5. Append(s.lines, LineOf(s.text, s.bad, r.busy)) = <<Finished(Spoilt, executing)>>
    <3>1. PICK line : line = Finished(Spoilt, executing)
      OBVIOUS
    <3>2. Append(<<>>, line) = <<line>>
      OBVIOUS
    <3> QED
      BY <1>15, <2>4, <3>1, <3>2, Zenon
  <2>6. Parse(d, d.ring).lines = <<Finished(Spoilt, executing)>>
    BY <1>13, <2>2, <2>3, <2>5, Zenon
  <2>7. InHand(d) = NewLine
    BY <1>13, <1>16, <2>2, <2>3 DEF InHand, NewLine
  <2>8. Owed(d) = (queue \o Repeat(all)) \o <<Finished(Spoilt, executing)>>
    BY <1>13, <2>6, Zenon DEF Owed
  <2> QED
    BY <1>2, <1>3, <1>5, <1>6, <1>7, <1>8, <1>9, <1>10, <1>13, <1>14, <1>16, <2>7, <2>8
<1>17. CASE b # NL
  <2>1. Parse(d, d.ring) = s
    BY <1>11, <1>13, <1>15, <1>17, Zenon
  <2>2. InHand(d) = Spoilt
    BY <1>13, <1>17, <2>1 DEF InHand, Spoilt
  <2>3. Owed(d) = (queue \o Repeat(all)) \o <<>>
    BY <1>13, <1>15, <2>1, Zenon DEF Owed
  <2> QED
    BY <1>2, <1>3, <1>5, <1>6, <1>8, <1>9, <1>10, <1>13, <1>14, <1>17, <2>2, <2>3
<1> QED
  BY <1>16, <1>17
-----------------------------------------------------------------------------
(* The inductive invariant.                                                *)

Buffered(c) == HasSafe(Parse(c, c.ring).lines)

ChannelsSound == chan \in [CH -> Channel] /\ \A ch \in CH : Sound(chan[ch])

\* What the client sent is there only while there is a client.
ClientInv ==
  /\ {client_connected, accept_pending, client_lost, client_up} \subseteq BOOLEAN
  /\ session \in {"none", "new", "safe"}
  /\ client_lost => ~client_up
  /\ client_up => client_connected \/ accept_pending
  /\ ~client_connected /\ ~accept_pending => Owed(chan["tcp"]) = <<>>
  /\ pc = "lostSafe" => ~client_connected
  /\ client_connected /\ pc # "acceptSafe" => session = "safe"

\* A line is in hand exactly where a command runs or its reply is written.
RunInv ==
  /\ {executing, abort_requested, polling, expired, safe_during} \subseteq BOOLEAN
  /\ next_channel \in CH
  /\ pc \in {"top", "lostSafe", "acceptSafe", "dispatch", "run", "reply"}
  /\ pc \notin {"run", "reply"} =>
       current = Idle /\ ~executing /\ ~abort_requested /\ ~safe_during
  /\ pc \in {"run", "reply"} =>
       /\ current \in [ch : CH, kind : Kinds, verdict : {"RANGE", "BUSY", "execute"}]
       /\ executing <=> current.verdict = "execute"
  /\ pc = "run" => current.verdict = "execute"
  /\ current.ch = "tcp" => client_connected

\* Until the next poll a SAFE that has come waits in a ring.
AbortInv ==
  /\ executing /\ safe_during /\ ~abort_requested => polling /\ \E ch \in CH : Buffered(chan[ch])
  /\ abort_requested => \E ch \in CH : HasSafe(Owed(chan[ch]))

FramesInv ==
  /\ {console_resync, line_open} \subseteq BOOLEAN /\ part \in {"none", "some"}
  /\ line_open => \/ console_resync
                  \/ pc = "reply" /\ current.ch = "console" /\ part = "some"

Inv == ChannelsSound /\ ClientInv /\ RunInv /\ AbortInv /\ FramesInv

LEMMA EmptiedFacts ==
  /\ Sound(Emptied) /\ Owed(Emptied) = <<>> /\ InHand(Emptied) = NewLine
  /\ ~Buffered(Emptied) /\ ~HasSafe(Owed(Emptied))
<1>1. Emptied = Chan(<<>>, <<>>, FALSE, FALSE, 0, <<>>)
  BY DEF Emptied, Chan
<1>2. /\ RECOVERED_MAX \in Nat /\ RING_SIZE \in Nat /\ RING_SIZE > 0
      /\ LINE_QUEUE \in Nat /\ CMD_LINE_MAX \in Nat
  BY SuperloopAssumption
<1>3. Emptied \in Channel
  BY <1>1, <1>2 DEF Channel, Chan
<1>4. /\ Emptied.ring = <<>> /\ Emptied.partial = <<>> /\ ~Emptied.partial_overflow
      /\ ~Emptied.ring_overflow /\ Emptied.recovered_safe = 0 /\ Emptied.queue = <<>>
  BY <1>1 DEF Chan
<1>5. Len(<<>>) = 0
  OBVIOUS
<1>6. Sound(Emptied)
  BY <1>2, <1>3, <1>4, <1>5 DEF Sound
<1>7. Parse(Emptied, Emptied.ring) = [text |-> <<>>, bad |-> FALSE, lines |-> <<>>]
  <2>1. Parse(Emptied, <<>>) = Start(Emptied)
    BY ParseNothing
  <2>2. Start(Emptied) = [text |-> <<>>, bad |-> FALSE, lines |-> <<>>]
    BY <1>1 DEF Start, Chan
  <2> QED
    BY <1>4, <2>1, <2>2, Zenon
<1>8. Repeat(0) = <<>> /\ <<>> \o <<>> = <<>>
  BY RepeatFacts
<1>9. Owed(Emptied) = <<>>
  <2>1. Parse(Emptied, Emptied.ring).lines = <<>>
    BY <1>7
  <2> QED
    BY <1>4, <1>8, <2>1, Zenon DEF Owed
<1>10. InHand(Emptied) = NewLine
  <2>1. PICK p : p = Parse(Emptied, Emptied.ring)
    OBVIOUS
  <2>2. p.text = <<>> /\ ~p.bad
    BY <1>7, <2>1
  <2>3. InHand(Emptied) = [text |-> p.text, bad |-> FALSE]
    BY <1>4, <2>1, <2>2, Zenon DEF InHand
  <2> QED
    BY <2>2, <2>3, Zenon DEF NewLine
<1>11. ~HasSafe(<<>>)
  BY DEF HasSafe
<1> QED
  BY <1>6, <1>7, <1>9, <1>10, <1>11 DEF Buffered

\* A SAFE among what is owed survives a byte; one in the ring that has to make
\* way for a byte is counted.
LEMMA PushedSafe ==
  ASSUME NEW c, Sound(c), NEW b \in BYTES, executing \in BOOLEAN
  PROVE  /\ Sound(Pushed(c, b))
         /\ HasSafe(Owed(c)) => HasSafe(Owed(Pushed(c, b)))
         /\ Overflowing(c, b) /\ buffered_safe_count(c, <<Arriving(b)>>) > 0
              => HasSafe(Owed(Pushed(c, b)))
         /\ Overflowing(c, b) /\ (Buffered(c) \/ (b = NL /\ IsSafeLine(Finished(InHand(c), executing))))
              => buffered_safe_count(c, <<Arriving(b)>>) > 0
         /\ ~Overflowing(c, b) /\ (Buffered(c) \/ (b = NL /\ IsSafeLine(Finished(InHand(c), executing))))
              => Buffered(Pushed(c, b))
<1>1. PICK d : d = Pushed(c, b)
  OBVIOUS
<1>2. PICK lines \in Seq(Lines) : lines = Parse(c, c.ring).lines /\ d = Pushed(c, b)
  BY <1>1, SoundTypes
<1>3. Owed(c) \in Seq(Lines)
  BY OwedParts
<1>4. CASE ~Overflowing(c, b)
  <2>1. /\ Sound(d)
        /\ b = NL => /\ Owed(d) = Append(Owed(c), Finished(InHand(c), executing))
                     /\ Finished(InHand(c), executing) \in Lines
        /\ b # NL => Owed(d) = Owed(c)
        /\ Buffered(d) <=> Buffered(c) \/ (b = NL /\ IsSafeLine(Finished(InHand(c), executing)))
    BY <1>2, <1>4, ReceivedFacts DEF Buffered
  <2>2. HasSafe(Owed(c)) => HasSafe(Owed(d))
    BY <1>3, <2>1, HasSafeAppend
  <2> QED
    BY <1>2, <1>4, <2>1, <2>2, Zenon
<1>5. CASE Overflowing(c, b)
  <2>1. PICK found \in Nat, n \in Nat :
          /\ found = buffered_safe_count(c, <<Arriving(b)>>) /\ n = c.recovered_safe
          /\ found = Safes(IF b = NL THEN Append(lines, Finished(InHand(c), executing)) ELSE lines)
          /\ d.recovered_safe = Min({RECOVERED_MAX, n + found})
    <3>1. /\ buffered_safe_count(c, <<Arriving(b)>>) \in Nat
          /\ buffered_safe_count(c, <<Arriving(b)>>)
               = Safes(IF b = NL THEN Append(lines, Finished(InHand(c), executing)) ELSE lines)
          /\ d.recovered_safe
               = Min({RECOVERED_MAX, c.recovered_safe + buffered_safe_count(c, <<Arriving(b)>>)})
      BY <1>2, <1>5, OverflowedFacts, Zenon
    <3>2. c.recovered_safe \in Nat
      BY SoundTypes
    <3> QED
      BY <3>1, <3>2, Zenon
  <2>2. /\ Sound(d) /\ d.queue = c.queue
        /\ b = NL => Finished(InHand(c), executing) \in Lines
    BY <1>2, <1>5, OverflowedFacts
  <2>3. n + found > 0 => d.recovered_safe > 0
    <3>1. RECOVERED_MAX \in Nat /\ RECOVERED_MAX > 0 /\ n + found \in Nat
      BY SuperloopAssumption DEF CH
    <3>2. Min({RECOVERED_MAX, n + found}) = IF RECOVERED_MAX <= n + found THEN RECOVERED_MAX ELSE n + found
      BY <3>1, MinOfTwo
    <3> QED
      BY <2>1, <3>1, <3>2
  <2>4. found > 0 <=> HasSafe(lines) \/ (b = NL /\ IsSafeLine(Finished(InHand(c), executing)))
    <3>1. CASE b = NL
      <4>1. PICK line \in Lines : line = Finished(InHand(c), executing)
        BY <2>2, <3>1
      <4>2. Append(lines, line) \in Seq(Lines) /\ found = Safes(Append(lines, line))
        BY <2>1, <3>1, <4>1
      <4>3. HasSafe(Append(lines, line)) <=> found > 0
        BY <4>2, SafesCount
      <4> QED
        BY <3>1, <4>1, <4>3, HasSafeAppend
    <3>2. CASE b # NL
      <4>1. found = Safes(lines)
        BY <2>1, <3>2
      <4> QED
        BY <3>2, <4>1, SafesCount
    <3> QED
      BY <3>1, <3>2
  <2>5. HasSafe(Owed(c)) <=> HasSafe(c.queue) \/ n > 0 \/ HasSafe(lines)
    BY <1>2, <2>1, OwedParts
  <2>6. HasSafe(d.queue) \/ d.recovered_safe > 0 => HasSafe(Owed(d))
    BY <2>2, OwedParts
  <2>7. HasSafe(Owed(c)) => HasSafe(Owed(d))
    BY <2>2, <2>3, <2>4, <2>5, <2>6
  <2>8. found > 0 => HasSafe(Owed(d))
    BY <2>3, <2>6
  <2>9. Buffered(c) <=> HasSafe(lines)
    BY <1>2 DEF Buffered
  <2> QED
    BY <1>2, <1>5, <2>1, <2>2, <2>4, <2>7, <2>8, <2>9
<1> QED
  BY <1>4, <1>5

\* The pump sees each SAFE of a ring, and none that is not there.
LEMMA SeenFacts ==
  ASSUME NEW c, Sound(c)
  PROVE  /\ Buffered(c) => SafeSeen(c)
         /\ SafeSeen(c) => HasSafe(Owed(c))
<1>1. PICK lines \in Seq(Lines), ring \in Seq(Cells) : lines = Parse(c, ring).lines /\ ring = c.ring
  BY SoundTypes
<1>2. buffered_safe_count(c, <<>>) = Safes(lines)
  <2>1. ring \o <<>> = ring
    BY ConcatEmptySeq
  <2> QED
    BY <1>1, <2>1, Zenon DEF buffered_safe_count
<1>3. Buffered(c) <=> buffered_safe_count(c, <<>>) > 0
  BY <1>1, <1>2, SafesCount DEF Buffered
<1>4. Rescued(c) \in 0 .. c.recovered_safe /\ c.recovered_safe \in Nat
  BY TakenFacts, SoundTypes
<1>5. Rescued(c) > 0 => HasSafe(Owed(c))
  BY <1>4, OwedParts
<1>6. Buffered(c) => HasSafe(Owed(c))
  BY OwedParts DEF Buffered
<1> QED
  BY <1>3, <1>5, <1>6 DEF SafeSeen

\* The line a channel is served.
LEMMA ServedFacts ==
  ASSUME NEW c, Sound(c), c.queue # <<>>
  PROVE  /\ Sound([c EXCEPT !.queue = Tail(@)])
         /\ Owed([c EXCEPT !.queue = Tail(@)]) = Tail(Owed(c)) /\ Owed(c) # <<>>
         /\ Head(Owed(c)) = Head(c.queue) /\ Head(c.queue) \in Lines
         /\ InHand([c EXCEPT !.queue = Tail(@)]) = InHand(c)
<1>1. PICK queue \in Seq(Lines), rest \in Seq(Lines) :
        /\ queue = c.queue /\ rest = Tail(queue) /\ queue # <<>>
        /\ Len(queue) <= LINE_QUEUE /\ Len(rest) <= LINE_QUEUE
  <2>1. c.queue \in Seq(Lines) /\ Len(c.queue) <= LINE_QUEUE /\ LINE_QUEUE \in Nat
    BY SoundTypes, SuperloopAssumption DEF Sound
  <2>2. Tail(c.queue) \in Seq(Lines) /\ Len(Tail(c.queue)) = Len(c.queue) - 1
    BY <2>1, HeadTailProperties
  <2>3. Len(Tail(c.queue)) <= LINE_QUEUE
    BY <2>1, <2>2
  <2> QED
    BY <2>1, <2>2, <2>3
<1>2. PICK line \in Lines : line = Head(queue)
  BY <1>1, HeadTailProperties
<1>3. PICK d : d = [c EXCEPT !.queue = Tail(@)]
  OBVIOUS
<1>4. d = Chan(c.ring, c.partial, c.partial_overflow, c.ring_overflow, c.recovered_safe, rest)
  <2>1. c = Chan(c.ring, c.partial, c.partial_overflow, c.ring_overflow, c.recovered_safe, c.queue)
    BY ChannelFields DEF Sound
  <2>2. d = [c EXCEPT !.queue = rest]
    BY <1>1, <1>3
  <2> QED
    BY <2>1, <2>2 DEF Chan
<1>5. /\ d.ring = c.ring /\ d.partial = c.partial /\ d.partial_overflow = c.partial_overflow
      /\ d.ring_overflow = c.ring_overflow /\ d.recovered_safe = c.recovered_safe /\ d.queue = rest
  BY <1>4 DEF Chan
<1>6. Sound(d)
  <2>1. d \in Channel
    BY <1>4 DEF Sound, Channel, Chan
  <2> QED
    BY <1>1, <1>5, <2>1 DEF Sound
<1>7. Parse(d, d.ring) = Parse(c, c.ring)
  BY <1>5, SoundTypes, SameStart
<1>8. InHand(d) = InHand(c)
  BY <1>5, <1>7, Zenon DEF InHand
<1>9. PICK rep \in Seq(Lines), lines \in Seq(Lines) :
        rep = Repeat(c.recovered_safe) /\ lines = Parse(c, c.ring).lines
  BY SoundTypes, RepeatFacts
<1>10. PICK more \in Seq(Lines) : more = rep \o lines
  BY ConcatProperties
<1>11. Owed(c) = queue \o more
  <2>1. Owed(c) = (queue \o rep) \o lines
    BY <1>1, <1>9, Zenon DEF Owed
  <2>2. (queue \o rep) \o lines = queue \o (rep \o lines)
    BY LinesConcat, SMTT(20)
  <2> QED
    BY <1>10, <2>1, <2>2, Zenon
<1>12. Owed(d) = rest \o more
  <2>1. Owed(d) = (rest \o rep) \o lines
    BY <1>5, <1>7, <1>9, Zenon DEF Owed
  <2>2. (rest \o rep) \o lines = rest \o (rep \o lines)
    BY LinesConcat, SMTT(20)
  <2> QED
    BY <1>10, <2>1, <2>2, Zenon
<1>13. /\ queue \o more # <<>> /\ Head(queue \o more) = Head(queue)
       /\ Tail(queue \o more) = Tail(queue) \o more
  BY <1>1, HeadTailOfConcat
<1> QED
  BY <1>1, <1>2, <1>3, <1>6, <1>8, <1>11, <1>12, <1>13

-----------------------------------------------------------------------------
(* The steps.                                                              *)

LEMMA ChannelUpdate ==
  ASSUME ChannelsSound, NEW ch \in CH, NEW d, Sound(d), chan' = [chan EXCEPT ![ch] = d]
  PROVE  /\ ChannelsSound' /\ chan'[ch] = d
         /\ \A other \in CH \ {ch} : chan'[other] = chan[other]
<1>1. chan \in [CH -> Channel] /\ \A o \in CH : Sound(chan[o])
  BY DEF ChannelsSound
<1>2. chan'[ch] = d /\ \A other \in CH \ {ch} : chan'[other] = chan[other]
  BY <1>1
<1>3. \A o \in CH : Sound(chan'[o])
  BY <1>1, <1>2
<1>4. \A o \in CH : chan'[o] \in Channel
  BY <1>3 DEF Sound
<1>5. chan' \in [CH -> Channel]
  BY <1>1, <1>4
<1> QED
  BY <1>2, <1>3, <1>5 DEF ChannelsSound

LEMMA TurnFacts ==
  ASSUME next_channel \in CH
  PROVE  Turn \in CH /\ \A other \in CH \ {Turn} : CH \ {Turn} = {other}
<1>1. (CHOOSE ch \in CH : ch # next_channel) \in CH
  BY DEF CH
<1>2. Turn \in CH
  BY <1>1 DEF Turn
<1> QED
  BY <1>2 DEF CH

\* The channels after each step that touches one.
LEMMA ByteStep ==
  ASSUME ChannelsSound, executing \in BOOLEAN, NEW ch \in CH, NEW b \in BYTES, ByteArrives(ch, b)
  PROVE  /\ ChannelsSound' /\ chan'[ch] = Pushed(chan[ch], b)
         /\ \A other \in CH \ {ch} : chan'[other] = chan[other]
<1>1. Sound(Pushed(chan[ch], b))
  BY PushedSafe DEF ChannelsSound
<1>2. chan' = [chan EXCEPT ![ch] = Pushed(chan[ch], b)]
  BY DEF ByteArrives, ChannelsSound
<1> QED
  BY <1>1, <1>2, ChannelUpdate

LEMMA PumpStep ==
  ASSUME ChannelsSound, Pump
  PROVE  /\ ChannelsSound' /\ \A ch \in CH : chan'[ch] = Pumped(chan[ch])
<1>1. chan' = [ch \in CH |-> Pumped(chan[ch])]
  BY DEF Pump
<1>2. \A ch \in CH : chan'[ch] = Pumped(chan[ch]) /\ Sound(chan'[ch])
  <2> SUFFICES ASSUME NEW ch \in CH
               PROVE  chan'[ch] = Pumped(chan[ch]) /\ Sound(chan'[ch])
    OBVIOUS
  <2>1. Sound(chan[ch])
    BY DEF ChannelsSound
  <2> QED
    BY <1>1, <2>1, PumpedFacts
<1>3. \A ch \in CH : chan'[ch] \in Channel
  BY <1>2 DEF Sound
<1>4. chan' \in [CH -> Channel]
  BY <1>1, <1>3
<1> QED
  BY <1>2, <1>4 DEF ChannelsSound

LEMMA AcceptSafeStep ==
  ASSUME ChannelsSound, AcceptSafeDone
  PROVE  /\ ChannelsSound' /\ chan'["tcp"] = Pumped(chan["tcp"])
         /\ chan'["console"] = chan["console"]
<1>1. "tcp" \in CH /\ "console" \in CH \ {"tcp"}
  BY DEF CH
<1>2. Sound(Pumped(chan["tcp"]))
  BY <1>1, PumpedFacts DEF ChannelsSound
<1>3. chan' = [chan EXCEPT !["tcp"] = Pumped(chan["tcp"])]
  BY DEF AcceptSafeDone
<1> QED
  BY <1>1, <1>2, <1>3, ChannelUpdate

LEMMA ResetStep ==
  ASSUME ChannelsSound, chan' = [chan EXCEPT !["tcp"] = Emptied]
  PROVE  /\ ChannelsSound' /\ chan'["tcp"] = Emptied
         /\ chan'["console"] = chan["console"]
<1>1. "tcp" \in CH /\ "console" \in CH \ {"tcp"}
  BY DEF CH
<1> QED
  BY <1>1, EmptiedFacts, ChannelUpdate

LEMMA DispatchStep ==
  ASSUME ChannelsSound, next_channel \in CH, Dispatch
  PROVE  /\ ChannelsSound' /\ Turn \in CH /\ chan[Turn].queue # <<>>
         /\ chan'[Turn] = [chan[Turn] EXCEPT !.queue = Tail(@)]
         /\ \A other \in CH \ {Turn} : chan'[other] = chan[other]
         /\ Head(chan[Turn].queue) \in Lines
<1>1. Turn \in CH
  BY TurnFacts
<1>2. chan[Turn].queue # <<>> /\ Sound(chan[Turn])
  BY <1>1 DEF Dispatch, Servable, ChannelsSound
<1>3. PICK d : d = [chan[Turn] EXCEPT !.queue = Tail(@)]
  OBVIOUS
<1>4. Sound(d) /\ Head(chan[Turn].queue) \in Lines
  BY <1>2, <1>3, ServedFacts
<1>5. chan' = [chan EXCEPT ![Turn] = d]
  BY <1>3, Zenon DEF Dispatch
<1> QED
  BY <1>1, <1>2, <1>3, <1>4, <1>5, ChannelUpdate

\* The channels after any step.
LEMMA SoundStep ==
  ASSUME ChannelsSound, RunInv, [Next]_vars
  PROVE  ChannelsSound'
<1>1. executing \in BOOLEAN /\ next_channel \in CH
  BY DEF RunInv
<1>2. CASE chan' = chan
  BY <1>2 DEF ChannelsSound
<1>3. ASSUME NEW ch \in CH, NEW b \in BYTES, ByteArrives(ch, b) PROVE ChannelsSound'
  BY <1>1, <1>3, ByteStep
<1>4. CASE NetAccept
  BY <1>4, ResetStep DEF NetAccept
<1>5. CASE Pump
  BY <1>5, PumpStep
<1>6. CASE LostFirst
  <2>1. chan' = chan \/ chan' = [chan EXCEPT !["tcp"] = Emptied]
    BY <1>6 DEF LostFirst
  <2> QED
    BY <1>2, <2>1, ResetStep
<1>7. CASE AcceptSafeDone
  BY <1>7, AcceptSafeStep
<1>8. CASE Dispatch
  BY <1>1, <1>8, DispatchStep
<1>9. CASE \/ SafePoll \/ LostSafeDone \/ NothingToDo \/ RunPoll \/ RunEnds \/ TcpWrite
           \/ ConsoleWrite \/ Tick \/ NetClosed
  BY <1>2, <1>9 DEF SafePoll, LostSafeDone, NothingToDo, RunPoll, RunEnds, TcpWrite, ConsoleWrite,
                    Tick, NetClosed
<1>10. CASE UNCHANGED vars
  BY <1>2, <1>10 DEF vars
<1> QED
  BY <1>3, <1>4, <1>5, <1>6, <1>7, <1>8, <1>9, <1>10 DEF Next, Loop, Environment

LEMMA ClientStep ==
  ASSUME ChannelsSound, ClientInv, RunInv, [Next]_vars
  PROVE  ClientInv'
<1> USE DEF ClientInv
<1>1. "tcp" \in CH /\ "console" \in CH \ {"tcp"} /\ Sound(chan["tcp"]) /\ executing \in BOOLEAN
  BY DEF CH, ChannelsSound, RunInv
<1>2. ASSUME NEW ch \in CH, NEW b \in BYTES, ByteArrives(ch, b) PROVE ClientInv'
  <2>1. UNCHANGED <<client, pc>> /\ (ch = "tcp" => client_up)
    BY <1>2 DEF ByteArrives
  <2>2. CASE ch = "tcp"
    BY <2>1, <2>2 DEF client
  <2>3. CASE ch # "tcp"
    <3>1. chan'["tcp"] = chan["tcp"]
      BY <1>1, <1>2, <2>3, ByteStep
    <3> QED
      BY <2>1, <3>1 DEF client
  <2> QED
    BY <2>2, <2>3
<1>3. CASE NetAccept
  BY <1>3 DEF NetAccept, MayAccept, client
<1>4. CASE NetClosed
  BY <1>4 DEF NetClosed
<1>5. CASE Pump
  <2>1. Owed(chan'["tcp"]) = Owed(chan["tcp"])
    BY <1>1, <1>5, PumpStep, PumpedFacts
  <2> QED
    BY <1>5, <2>1 DEF Pump, client
<1>6. CASE LostFirst
  <2>1. CASE client_lost /\ had_client
    <3>1. chan' = [chan EXCEPT !["tcp"] = Emptied]
      BY <1>6, <2>1 DEF LostFirst
    <3>2. Owed(chan'["tcp"]) = <<>>
      BY <3>1, ResetStep, EmptiedFacts
    <3> QED
      BY <1>6, <2>1, <3>2 DEF LostFirst
  <2>2. CASE client_lost /\ ~had_client
    BY <1>6, <2>2 DEF LostFirst, had_client
  <2>3. CASE ~client_lost
    BY <1>6, <2>3 DEF LostFirst
  <2> QED
    BY <2>1, <2>2, <2>3
<1>7. CASE LostSafeDone
  BY <1>7 DEF LostSafeDone
<1>8. CASE AcceptSafeDone
  <2>1. Owed(chan'["tcp"]) = Owed(chan["tcp"])
    BY <1>1, <1>8, AcceptSafeStep, PumpedFacts
  <2> QED
    BY <1>8, <2>1 DEF AcceptSafeDone
<1>9. CASE Dispatch
  <2>1. pc = "dispatch" /\ pc' \in {"run", "reply"} /\ UNCHANGED client /\ next_channel \in CH
    BY <1>9 DEF Dispatch, RunInv
  <2>2. CASE Turn = "tcp"
    <3>1. client_connected
      BY <1>9, <2>2 DEF Dispatch, Servable
    <3> QED
      BY <2>1, <3>1 DEF client
  <2>3. CASE Turn # "tcp"
    <3>1. chan'["tcp"] = chan["tcp"]
      BY <1>1, <1>9, <2>1, <2>3, DispatchStep
    <3> QED
      BY <2>1, <3>1 DEF client
  <2> QED
    BY <2>2, <2>3
<1>10. CASE TcpWrite
  <2>1. pc = "reply" /\ pc' \in {"reply", "top"} /\ UNCHANGED chan
    BY <1>10 DEF TcpWrite, EndLine, run
  <2>2. /\ UNCHANGED <<client_connected, accept_pending, session>>
        /\ \/ UNCHANGED <<client_lost, client_up>>
           \/ client_up' = FALSE /\ client_lost' = TRUE
    BY <1>10 DEF TcpWrite, client
  <2>3. {client_lost', client_up'} \subseteq BOOLEAN /\ (client_up' => client_up)
        /\ (client_lost' => ~client_up')
    <3>1. CASE UNCHANGED <<client_lost, client_up>>
      BY <3>1
    <3>2. CASE client_up' = FALSE /\ client_lost' = TRUE
      BY <3>2
    <3> QED
      BY <2>2, <3>1, <3>2
  <2> QED
    BY <2>1, <2>2, <2>3
<1>11. CASE SafePoll \/ NothingToDo \/ RunPoll \/ Tick
  BY <1>11 DEF SafePoll, NothingToDo, RunPoll, Tick, client
<1>12. CASE RunEnds \/ ConsoleWrite
  <2>1. UNCHANGED <<client, chan>> /\ pc \in {"run", "reply"} /\ pc' \in {"run", "reply", "top"}
    BY <1>12 DEF RunEnds, ConsoleWrite, Stalled, EndLine, run
  <2> QED
    BY <2>1 DEF client
<1>13. CASE UNCHANGED vars
  BY <1>13 DEF vars, client
<1> QED
  BY <1>2, <1>3, <1>4, <1>5, <1>6, <1>7, <1>8, <1>9, <1>10, <1>11, <1>12, <1>13
     DEF Next, Loop, Environment

LEMMA SameRun ==
  ASSUME RunInv, {polling', expired'} \subseteq BOOLEAN,
         UNCHANGED <<run, next_channel, pc, client_connected>>
  PROVE  RunInv'
BY DEF RunInv, run

LEMMA RunStep ==
  ASSUME ChannelsSound, RunInv, ClientInv, [Next]_vars
  PROVE  RunInv'
<1>0. {polling, expired} \subseteq BOOLEAN
  BY DEF RunInv
<1>1. CASE NetAccept \/ NetClosed \/ Tick
  <2>1. UNCHANGED <<run, next_channel, pc, client_connected, polling>> /\ expired' \in {expired, TRUE}
    BY <1>1 DEF NetAccept, NetClosed, Tick, client
  <2> QED
    BY <1>0, <2>1, SameRun
<1> USE DEF RunInv
<1>2. ASSUME NEW ch \in CH, NEW b \in BYTES, ByteArrives(ch, b) PROVE RunInv'
  <2>1. executing => pc \in {"run", "reply"}
    OBVIOUS
  <2>2. abort_requested' \in BOOLEAN /\ (~executing /\ ~abort_requested => ~abort_requested')
    BY <1>2 DEF ByteArrives
  <2>3. safe_during' \in BOOLEAN /\ (~executing /\ ~safe_during => ~safe_during')
    BY <1>2 DEF ByteArrives
  <2> QED
    BY <1>2, <2>1, <2>2, <2>3 DEF ByteArrives, client
<1>3. CASE Pump
  <2>1. abort_requested' \in BOOLEAN /\ (~executing /\ ~abort_requested => ~abort_requested')
    BY <1>3 DEF Pump
  <2> QED
    BY <1>3, <2>1 DEF Pump, client
<1>4. CASE LostFirst
  <2>1. /\ pc = "top" /\ pc' \in {"lostSafe", "acceptSafe", "dispatch"} /\ expired' \in BOOLEAN
        /\ UNCHANGED <<run, next_channel, polling>>
    BY <1>4 DEF LostFirst
  <2> QED
    BY <2>1 DEF run, Idle
<1>5. CASE SafePoll \/ RunPoll
  <2>1. UNCHANGED <<run, next_channel, pc, client_connected, expired>> /\ polling' = TRUE
    BY <1>5 DEF SafePoll, RunPoll, client
  <2> QED
    BY <1>0, <2>1, SameRun
<1>6. CASE NothingToDo
  BY <1>6 DEF NothingToDo, run, Idle
<1>7. CASE LostSafeDone
  <2>1. /\ pc = "lostSafe" /\ pc' \in {"acceptSafe", "dispatch"} /\ expired' \in BOOLEAN
        /\ UNCHANGED <<run, next_channel, polling>>
    BY <1>7 DEF LostSafeDone
  <2> QED
    BY <2>1 DEF run, Idle
<1>8. CASE AcceptSafeDone
  BY <1>8 DEF AcceptSafeDone, run
<1>9. CASE Dispatch
  <2>1. PICK line \in Lines : line = Head(chan[Turn].queue)
    BY <1>9, DispatchStep
  <2>2. Verdict(line) \in {"RANGE", "BUSY", "execute"} /\ line.kind \in Kinds
    BY DEF Verdict, Lines
  <2>3. Turn \in CH /\ (Turn = "tcp" => client_connected)
    BY <1>9, TurnFacts DEF Dispatch, Servable
  <2>4. current' = [ch |-> Turn, kind |-> line.kind, verdict |-> Verdict(line)]
    BY <1>9, <2>1 DEF Dispatch
  <2>5. /\ (executing' <=> Verdict(line) = "execute") /\ executing' \in BOOLEAN
        /\ pc' = IF Verdict(line) = "execute" THEN "run" ELSE "reply"
    BY <1>9, <2>1 DEF Dispatch
  <2>6. next_channel' \in CH /\ ~abort_requested' /\ ~safe_during' /\ ~expired'
        /\ {abort_requested', safe_during', expired'} \subseteq BOOLEAN
        /\ polling' = polling /\ client_connected' = client_connected
    BY <1>9 DEF Dispatch, client
  <2>7. /\ current' \in [ch : CH, kind : Kinds, verdict : {"RANGE", "BUSY", "execute"}]
        /\ current'.verdict = Verdict(line) /\ current'.ch = Turn
    BY <2>2, <2>3, <2>4
  <2>8. pc' = "run" => Verdict(line) = "execute"
    BY <2>5
  <2>9. pc' \in {"run", "reply"}
    BY <2>5
  <2> QED
    BY <2>3, <2>5, <2>6, <2>7, <2>8, <2>9
<1>10. ASSUME EndLine, expired' \in BOOLEAN, next_channel' = next_channel PROVE RunInv'
  BY <1>10 DEF EndLine, Idle
<1>11. CASE RunEnds
  <2>1. CASE current.kind = "empty"
    BY <1>10, <1>11, <2>1 DEF RunEnds
  <2>2. CASE current.kind # "empty"
    <3>1. /\ pc = "run" /\ pc' = "reply" /\ expired' = FALSE
          /\ UNCHANGED <<run, polling, client_connected, next_channel>>
      BY <1>11, <2>2 DEF RunEnds, client
    <3> QED
      BY <3>1 DEF run
  <2> QED
    BY <2>1, <2>2
<1>12. CASE TcpWrite
  <2>1. CASE EndLine
    BY <1>10, <1>12, <2>1 DEF TcpWrite
  <2>2. CASE ~EndLine
    <3>1. UNCHANGED <<run, next_channel, pc, client_connected, expired>> /\ polling' = TRUE
      BY <1>12, <2>2 DEF TcpWrite, client
    <3> QED
      BY <1>0, <3>1, SameRun
  <2> QED
    BY <2>1, <2>2
<1>13. CASE ConsoleWrite
  <2>1. CASE EndLine
    BY <1>10, <1>13, <2>1 DEF ConsoleWrite
  <2>2. CASE ~EndLine
    <3>1. UNCHANGED <<run, next_channel, pc, client_connected, expired>> /\ polling' = TRUE
      BY <1>13, <2>2 DEF ConsoleWrite, Stalled, client
    <3> QED
      BY <1>0, <3>1, SameRun
  <2> QED
    BY <2>1, <2>2
<1>14. CASE UNCHANGED vars
  BY <1>14 DEF vars, run, client
<1> QED
  BY <1>2, <1>1, <1>3, <1>4, <1>5, <1>7, <1>8, <1>9, <1>11, <1>12, <1>13, <1>14, <1>6
     DEF Next, Loop, Environment

LEMMA FramesStep ==
  ASSUME RunInv, FramesInv, [Next]_vars
  PROVE  FramesInv'
<1> USE DEF FramesInv
<1>1. CASE Dispatch
  BY <1>1 DEF Dispatch
<1>2. CASE RunEnds
  <2>1. UNCHANGED reply /\ pc = "run"
    BY <1>2 DEF RunEnds
  <2> QED
    BY <2>1 DEF reply
<1>3. CASE TcpWrite
  <2>1. UNCHANGED <<line_open, console_resync>> /\ current.ch = "tcp" /\ part' \in {"none", "some"}
    BY <1>3 DEF TcpWrite
  <2> QED
    BY <2>1
<1>4. CASE ConsoleWrite
  <2>1. CASE expired /\ Stalled
    BY <2>1 DEF Stalled
  <2>2. CASE console_resync /\ ~expired
    <3>1. PICK taken \in BOOLEAN : console_resync' = ~taken /\ line_open' = (line_open /\ ~taken)
                                   /\ UNCHANGED part
      BY <1>4, <2>2 DEF ConsoleWrite, Stalled
    <3> QED
      BY <2>2, <3>1
  <2>3. CASE ~console_resync /\ line_open' = FALSE /\ EndLine /\ UNCHANGED <<part, console_resync>>
    BY <2>3
  <2>4. CASE /\ ~console_resync /\ ~expired
             /\ \/ part' = "some" /\ line_open' = TRUE
                \/ UNCHANGED <<part, line_open>>
             /\ polling' = TRUE /\ UNCHANGED <<run, pc, console_resync>>
    <3>1. pc = "reply" /\ current.ch = "console"
      BY <1>4 DEF ConsoleWrite
    <3>2. UNCHANGED <<pc, current, console_resync>>
      BY <2>4 DEF run
    <3>3. part' = "some" \/ UNCHANGED <<part, line_open>>
      BY <2>4
    <3>4. CASE part' = "some" /\ line_open' = TRUE
      BY <3>1, <3>2, <3>4
    <3>5. CASE UNCHANGED <<part, line_open>>
      BY <3>1, <3>2, <3>5
    <3> QED
      BY <2>4, <3>4, <3>5
  <2> QED
    BY <1>4, <2>1, <2>2, <2>3, <2>4 DEF ConsoleWrite
<1>5. CASE LostFirst \/ SafePoll \/ LostSafeDone \/ AcceptSafeDone \/ NothingToDo
  <2>1. UNCHANGED reply /\ pc # "reply"
    BY <1>5 DEF LostFirst, SafePoll, LostSafeDone, AcceptSafeDone, NothingToDo
  <2> QED
    BY <2>1 DEF reply
<1>6. CASE Pump \/ RunPoll \/ Tick \/ NetAccept \/ NetClosed
  BY <1>6 DEF Pump, RunPoll, Tick, NetAccept, NetClosed, reply, run
<1>7. ASSUME NEW ch \in CH, NEW b \in BYTES, ByteArrives(ch, b) PROVE FramesInv'
  BY <1>7 DEF ByteArrives, reply
<1>8. CASE UNCHANGED vars
  BY <1>8 DEF vars, reply, run
<1> QED
  BY <1>1, <1>2, <1>3, <1>4, <1>5, <1>6, <1>7, <1>8 DEF Next, Loop, Environment

LEMMA SameAbort ==
  ASSUME AbortInv, UNCHANGED <<run, chan>>, polling => polling'
  PROVE  AbortInv'
BY DEF AbortInv, run

LEMMA IdleAbort ==
  ASSUME ~executing', ~abort_requested'
  PROVE  AbortInv'
BY DEF AbortInv

LEMMA TypedIsInHand ==
  ASSUME NEW ch \in CH
  PROVE  TypedLine(ch) = InHand(chan[ch])
BY Zenon DEF TypedLine, InHand

LEMMA AbortStep ==
  ASSUME ChannelsSound, ClientInv, RunInv, AbortInv, [Next]_vars
  PROVE  AbortInv'
<1>1. executing \in BOOLEAN /\ \A ch \in CH : Sound(chan[ch])
  BY DEF RunInv, ChannelsSound
<1>2. ASSUME NEW ch \in CH, NEW b \in BYTES, ByteArrives(ch, b) PROVE AbortInv'
  <2>1. PICK c : c = chan[ch] /\ Sound(c)
    BY <1>1
  <2>2. /\ chan'[ch] = Pushed(c, b)
        /\ \A other \in CH \ {ch} : chan'[other] = chan[other]
    BY <1>1, <1>2, <2>1, ByteStep
  <2> DEFINE Lost == Overflowing(c, b) /\ buffered_safe_count(c, <<Arriving(b)>>) > 0
             Done == b = NL /\ IsSafeLine(Finished(InHand(c), executing))
  <2>3. abort_requested' <=> abort_requested \/ (executing /\ Lost)
    BY <1>2, <2>1 DEF ByteArrives, RunInv
  <2>4. /\ HasSafe(Owed(c)) => HasSafe(Owed(chan'[ch]))
        /\ Lost => HasSafe(Owed(chan'[ch]))
        /\ Buffered(c) \/ Done => Lost \/ Buffered(chan'[ch])
    BY <1>1, <2>1, <2>2, PushedSafe
  <2>5. safe_during' => safe_during \/ Done
    <3>1. KindOf(TypedLine(ch).text, TypedLine(ch).bad) = "safe"
            => IsSafeLine(Finished(InHand(c), executing))
      BY <2>1, TypedIsInHand DEF Finished, LineOf, IsSafeLine
    <3> QED
      BY <1>2, <3>1 DEF ByteArrives
  <2>6. polling /\ polling' = polling /\ executing' = executing
    BY <1>2 DEF ByteArrives
  <2> HIDE DEF Lost, Done
  <2>7. ASSUME executing', safe_during', ~abort_requested'
        PROVE  polling' /\ \E o \in CH : Buffered(chan'[o])
    <3>1. ~abort_requested /\ ~Lost /\ executing
      BY <2>3, <2>6, <2>7
    <3>2. CASE Done \/ Buffered(c)
      BY <2>4, <2>6, <3>1, <3>2
    <3>3. CASE ~Done /\ ~Buffered(c)
      <4>1. PICK o \in CH : Buffered(chan[o])
        BY <2>5, <2>7, <3>1, <3>3 DEF AbortInv
      <4>2. chan'[o] = chan[o]
        BY <2>1, <2>2, <3>3, <4>1
      <4> QED
        BY <2>6, <4>1, <4>2
    <3> QED
      BY <3>2, <3>3
  <2>8. ASSUME abort_requested' PROVE \E o \in CH : HasSafe(Owed(chan'[o]))
    <3>1. CASE Lost
      BY <2>4, <3>1
    <3>2. CASE ~Lost
      <4>1. PICK o \in CH : HasSafe(Owed(chan[o]))
        BY <2>3, <2>8, <3>2 DEF AbortInv
      <4>2. HasSafe(Owed(chan'[o]))
        BY <2>1, <2>2, <2>4, <4>1
      <4> QED
        BY <4>2
    <3> QED
      BY <3>1, <3>2
  <2> QED
    BY <2>7, <2>8 DEF AbortInv
<1>3. CASE NetAccept
  <2>1. Owed(chan["tcp"]) = <<>>
    BY <1>3 DEF NetAccept, MayAccept, ClientInv
  <2>2. ~HasSafe(Owed(chan["tcp"])) /\ ~Buffered(chan["tcp"])
    <3>1. ~HasSafe(<<>>)
      BY DEF HasSafe
    <3>2. "tcp" \in CH
      BY DEF CH
    <3>3. Buffered(chan["tcp"]) => HasSafe(Owed(chan["tcp"]))
      BY <1>1, <3>2, OwedParts DEF Buffered
    <3> QED
      BY <2>1, <3>1, <3>3
  <2>3. /\ CH = {"tcp", "console"} /\ chan'["console"] = chan["console"]
        /\ UNCHANGED <<executing, abort_requested, safe_during, polling>>
    BY <1>3, ResetStep DEF NetAccept, CH, run
  <2>4. (\E o \in CH : Buffered(chan[o])) => \E o \in CH : Buffered(chan'[o])
    BY <2>2, <2>3
  <2>5. (\E o \in CH : HasSafe(Owed(chan[o]))) => \E o \in CH : HasSafe(Owed(chan'[o]))
    BY <2>2, <2>3
  <2> QED
    BY <2>3, <2>4, <2>5 DEF AbortInv
<1>4. CASE Pump
  <2>1. /\ UNCHANGED <<executing, safe_during>>
        /\ abort_requested' <=> abort_requested \/ (executing /\ \E ch \in CH : SafeSeen(chan[ch]))
    BY <1>4 DEF Pump, RunInv
  <2>2. \A ch \in CH : /\ Owed(chan'[ch]) = Owed(chan[ch])
                       /\ Buffered(chan[ch]) => SafeSeen(chan[ch])
                       /\ SafeSeen(chan[ch]) => HasSafe(Owed(chan[ch]))
    BY <1>1, <1>4, PumpStep, PumpedFacts, SeenFacts
  <2>3. executing /\ safe_during => abort_requested'
    BY <2>1, <2>2 DEF AbortInv
  <2>4. abort_requested' => \E ch \in CH : HasSafe(Owed(chan'[ch]))
    BY <2>1, <2>2 DEF AbortInv
  <2> QED
    BY <2>1, <2>3, <2>4 DEF AbortInv
<1>5. CASE LostFirst \/ SafePoll \/ LostSafeDone \/ AcceptSafeDone \/ NothingToDo
  <2>1. UNCHANGED run /\ pc \notin {"run", "reply"}
    BY <1>5 DEF LostFirst, SafePoll, LostSafeDone, AcceptSafeDone, NothingToDo
  <2>2. ~executing' /\ ~abort_requested'
    BY <2>1 DEF run, RunInv
  <2> QED
    BY <2>2, IdleAbort
<1>6. CASE Dispatch
  <2>1. abort_requested' = FALSE /\ safe_during' = FALSE
    BY <1>6 DEF Dispatch
  <2> QED
    BY <2>1 DEF AbortInv
<1>7. CASE NetClosed \/ Tick \/ RunPoll
  BY <1>7, SameAbort DEF NetClosed, Tick, RunPoll
<1>8. CASE EndLine
  BY <1>8, IdleAbort DEF EndLine
<1>9. CASE (RunEnds \/ TcpWrite \/ ConsoleWrite) /\ ~EndLine
  <2>1. UNCHANGED <<run, chan>> /\ (polling => polling')
    BY <1>9 DEF RunEnds, TcpWrite, ConsoleWrite, Stalled
  <2> QED
    BY <2>1, SameAbort
<1>10. CASE UNCHANGED vars
  BY <1>10, SameAbort DEF vars
<1> QED
  BY <1>2, <1>3, <1>4, <1>5, <1>6, <1>7, <1>8, <1>9, <1>10 DEF Next, Loop, Environment

LEMMA InvInit == Init => Inv
<1> SUFFICES ASSUME Init PROVE Inv
  OBVIOUS
<1>1. chan = [ch \in CH |-> Emptied]
  BY DEF Init
<1>2. ChannelsSound
  BY <1>1, EmptiedFacts DEF ChannelsSound, Sound
<1>3. Owed(chan["tcp"]) = <<>>
  BY <1>1, EmptiedFacts DEF CH
<1>4. ClientInv /\ RunInv /\ FramesInv
  BY <1>3 DEF Init, ClientInv, RunInv, FramesInv, CH, Idle
<1>5. AbortInv
  BY DEF Init, AbortInv
<1> QED
  BY <1>2, <1>4, <1>5 DEF Inv

\* The invariant the other theorems about Superloop follow from.
THEOREM SuperloopInvariant == Spec => []Inv
<1>1. Inv /\ [Next]_vars => Inv'
  BY SoundStep, ClientStep, RunStep, AbortStep, FramesStep DEF Inv
<1> QED
  BY InvInit, <1>1, PTL DEF Spec

\* A command is told of a SAFE that came meanwhile, and is not stopped for one
\* that nobody will answer.
THEOREM SafeAbortsTheorem == Spec => []SafeAborts
<1>1. Inv => SafeAborts
  <2> SUFFICES ASSUME Inv PROVE SafeAborts
    OBVIOUS
  <2>1. \A ch \in CH : Pending(ch) = Owed(chan[ch])
    BY Zenon DEF Pending, Owed, Repeat
  <2>2. executing /\ ~polling /\ safe_during => abort_requested
    BY DEF Inv, AbortInv
  <2>3. ASSUME abort_requested
        PROVE  \E ch \in CH : \E i \in DOMAIN Pending(ch) : Pending(ch)[i].kind = "safe"
    <3>1. PICK ch \in CH : HasSafe(Owed(chan[ch]))
      BY <2>3 DEF Inv, AbortInv
    <3> QED
      BY <2>1, <3>1, Zenon DEF HasSafe, IsSafeLine
  <2> QED
    BY <2>2, <2>3 DEF SafeAborts
<1> QED
  BY SuperloopInvariant, <1>1, PTL

\* No line of a client is answered before the SAFE of its connection has ended.
THEOREM SafeBeforeClientTheorem == Spec => []SafeBeforeClient
<1>1. Inv => SafeBeforeClient
  <2> SUFFICES ASSUME Inv, current.ch = "tcp" PROVE session = "safe"
    BY DEF SafeBeforeClient
  <2>1. pc \in {"run", "reply"}
    BY DEF Inv, RunInv, Idle
  <2> QED
    BY <2>1 DEF Inv, RunInv, ClientInv
<1> QED
  BY SuperloopInvariant, <1>1, PTL

\* The state is well typed and a cut frame of the console is closed before the next.
THEOREM FramesTheorem == Spec => []FramesKeptApart
<1>1. Inv => FramesKeptApart
  <2> SUFFICES ASSUME Inv PROVE FramesKeptApart
    OBVIOUS
  <2>1. ASSUME NEW ch \in CH
        PROVE  /\ chan[ch].ring \in Seq([byte : BYTES, busy : BOOLEAN]) /\ Len(chan[ch].ring) < RING_SIZE
               /\ chan[ch].partial \in Seq(LETTERS) /\ Len(chan[ch].partial) <= CMD_LINE_MAX
               /\ chan[ch].partial_overflow \in BOOLEAN /\ chan[ch].ring_overflow \in BOOLEAN
               /\ chan[ch].recovered_safe \in 0 .. RECOVERED_MAX
               /\ chan[ch].queue \in Seq([kind : Kinds, busy : BOOLEAN])
               /\ Len(chan[ch].queue) <= LINE_QUEUE
    <3>1. Sound(chan[ch])
      BY DEF Inv, ChannelsSound
    <3> QED
      BY <3>1 DEF Sound, Channel, Cells, Lines
  <2>2. /\ current.ch \in CH \cup {"none"}
        /\ current.verdict \in {"none", "RANGE", "BUSY", "execute"}
    BY DEF Inv, RunInv, Idle
  <2>3. TypeOK
    BY <2>1, <2>2 DEF TypeOK, Inv, ClientInv, RunInv, FramesInv
  <2> QED
    BY <2>3 DEF FramesKeptApart, Inv, FramesInv
<1> QED
  BY SuperloopInvariant, <1>1, PTL
-----------------------------------------------------------------------------
(* Each channel keeps the promise of CommandChannel.                       *)

LEMMA SplitConcat ==
  ASSUME NEW a \in Seq(Lines), NEW b \in Seq(Lines)
  PROVE  /\ SubSeq(a \o b, 1, Len(a)) = a
         /\ SubSeq(a \o b, Len(a) + 1, Len(a \o b)) = b
<1>1. /\ a \o b \in Seq(Lines) /\ Len(a \o b) = Len(a) + Len(b)
      /\ \A i \in 1 .. Len(a) + Len(b) : (a \o b)[i] = IF i <= Len(a) THEN a[i] ELSE b[i - Len(a)]
      /\ Len(a) \in Nat /\ Len(b) \in Nat
  BY ConcatProperties
<1>2. PICK both \in Seq(Lines) : both = a \o b
  BY <1>1
<1>3. /\ Len(both) = Len(a) + Len(b)
      /\ \A i \in 1 .. Len(a) : both[i] = a[i]
      /\ \A i \in 1 .. Len(b) : both[Len(a) + i] = b[i]
  <2>1. \A i \in 1 .. Len(a) : both[i] = a[i]
    BY <1>1, <1>2
  <2>2. ASSUME NEW i \in 1 .. Len(b) PROVE both[Len(a) + i] = b[i]
    <3>1. /\ Len(a) + i \in 1 .. Len(a) + Len(b) /\ ~(Len(a) + i <= Len(a))
          /\ Len(a) + i - Len(a) = i
      BY <1>1
    <3> QED
      BY <1>1, <1>2, <3>1
  <2> QED
    BY <1>1, <1>2, <2>1, <2>2
<1>4. SubSeq(both, 1, Len(a)) = a
  <2>1. \A i \in 1 .. Len(a) : both[i] \in Lines
    BY <1>3, ElementOfSeq
  <2>2. PICK s \in Seq(Lines) : /\ s = SubSeq(both, 1, Len(a)) /\ Len(s) = Len(a)
                                /\ \A i \in 1 .. Len(a) : s[i] = both[i]
    <3>1. /\ SubSeq(both, 1, Len(a)) \in Seq(Lines)
          /\ Len(SubSeq(both, 1, Len(a))) = IF 1 <= Len(a) THEN Len(a) - 1 + 1 ELSE 0
          /\ \A i \in 1 .. Len(a) - 1 + 1 : SubSeq(both, 1, Len(a))[i] = both[1 + i - 1]
      BY <1>1, <2>1, SubSeqProperties
    <3>2. Len(SubSeq(both, 1, Len(a))) = Len(a)
      BY <1>1, <3>1
    <3>3. \A i \in 1 .. Len(a) : SubSeq(both, 1, Len(a))[i] = both[i]
      <4>1. \A i \in 1 .. Len(a) : i \in 1 .. Len(a) - 1 + 1 /\ 1 + i - 1 = i
        BY <1>1
      <4> QED
        BY <3>1, <4>1
    <3> QED
      BY <3>1, <3>2, <3>3
  <2>3. s = a
    BY <1>3, <2>2, SeqEqual
  <2> QED
    BY <2>2, <2>3
<1>5. SubSeq(both, Len(a) + 1, Len(both)) = b
  <2>1. PICK s \in Seq(Lines) :
          /\ s = SubSeq(both, Len(a) + 1, Len(both)) /\ Len(s) = Len(b)
          /\ \A i \in 1 .. Len(b) : s[i] = both[Len(a) + i]
    BY <1>1, <1>3
  <2>2. s = b
    BY <1>3, <2>1, SeqEqual
  <2> QED
    BY <2>1, <2>2
<1> QED
  BY <1>2, <1>4, <1>5

\* What is owed after an overflow: the lines up to the ring, and the SAFE behind them.
AllLines(c, b) == IF b = NL THEN Append(Owed(c), Finished(InHand(c), executing)) ELSE Owed(c)
AfterLoss(c, b, k) ==
  SubSeq(Owed(c), 1, k) \o Repeat(Safes(SubSeq(AllLines(c, b), k + 1, Len(AllLines(c, b)))))
    \o (IF b = NL THEN <<Finished(Spoilt, executing)>> ELSE <<>>)

LEMMA OverflowKeepsSafe ==
  ASSUME NEW c, Sound(c), NEW b \in BYTES, executing \in BOOLEAN, Overflowing(c, b),
         NEW max \in Nat, Len(Owed(c)) < max, max < RECOVERED_MAX
  PROVE  \E k \in 0 .. Len(Owed(c)) : Owed(Pushed(c, b)) = AfterLoss(c, b, k)
<1>1. PICK lines \in Seq(Lines), queue \in Seq(Lines), n \in Nat :
        /\ lines = Parse(c, c.ring).lines /\ queue = c.queue /\ n = c.recovered_safe
  BY SoundTypes
<1>2. PICK rep \in Seq(Lines) : rep = Repeat(n) /\ Len(rep) = n
  BY RepeatFacts
<1>3. ASSUME NEW m \in Nat PROVE (queue \o rep) \o Repeat(m) = queue \o Repeat(n + m)
  <2>1. PICK more \in Seq(Lines) : more = Repeat(m)
    BY RepeatFacts
  <2>2. Repeat(n) \o Repeat(m) = Repeat(n + m)
    BY RepeatFacts
  <2>3. (queue \o rep) \o more = queue \o (rep \o more)
    BY LinesConcat
  <2> QED
    BY <1>2, <2>1, <2>2, <2>3, Zenon
<1>4. PICK head \in Seq(Lines) : head = queue \o rep /\ Len(head) = Len(queue) + n
  <2>1. queue \o rep \in Seq(Lines) /\ Len(queue \o rep) = Len(queue) + Len(rep)
    BY ConcatProperties
  <2> QED
    BY <1>2, <2>1
<1>5. Owed(c) = head \o lines
  BY <1>1, <1>2, <1>4, Zenon DEF Owed
<1>6. PICK tail \in Seq(Lines) :
        /\ tail = IF b = NL THEN Append(lines, Finished(InHand(c), executing)) ELSE lines
        /\ Len(tail) <= Len(lines) + 1
        /\ AllLines(c, b) = head \o tail
  <2>1. CASE b = NL
    <3>1. PICK line \in Lines : line = Finished(InHand(c), executing)
      BY <2>1, OverflowedFacts
    <3>2. Append(lines, line) \in Seq(Lines) /\ Len(Append(lines, line)) = Len(lines) + 1
      OBVIOUS
    <3>3. Append(head \o lines, line) = head \o Append(lines, line)
      BY LinesAppend
    <3>4. AllLines(c, b) = head \o Append(lines, line)
      <4>1. AllLines(c, b) = Append(Owed(c), line)
        BY <2>1, <3>1 DEF AllLines
      <4> QED
        BY <1>5, <3>3, <4>1, Zenon
    <3>5. (IF b = NL THEN Append(lines, Finished(InHand(c), executing)) ELSE lines) = Append(lines, line)
      BY <2>1, <3>1
    <3>6. Len(Append(lines, line)) <= Len(lines) + 1
      BY <3>2
    <3> QED
      BY <3>2, <3>4, <3>5, <3>6, Zenon
  <2>2. CASE b # NL
    BY <1>5, <2>2 DEF AllLines
  <2> QED
    BY <2>1, <2>2
<1>7. PICK found \in Nat :
        /\ found = Safes(tail) /\ found <= Len(tail)
        /\ Pushed(c, b).recovered_safe = Min({RECOVERED_MAX, n + found})
  BY <1>1, <1>6, OverflowedFacts, SafesCount
<1>8. Pushed(c, b).recovered_safe = n + found
  <2>1. Len(Owed(c)) = Len(queue) + n + Len(lines)
    BY <1>1, OwedParts
  <2>2. n + found < RECOVERED_MAX /\ RECOVERED_MAX \in Nat /\ n + found \in Nat
    <3>1. Len(queue) \in Nat /\ Len(lines) \in Nat /\ RECOVERED_MAX \in Nat /\ Len(tail) \in Nat
      BY SuperloopAssumption
    <3> QED
      BY <1>6, <1>7, <2>1, <3>1
  <2>3. Min({RECOVERED_MAX, n + found}) = IF RECOVERED_MAX <= n + found THEN RECOVERED_MAX ELSE n + found
    BY <2>2, MinOfTwo
  <2> QED
    BY <1>7, <2>2, <2>3
<1>9. queue \o Repeat(n + found) = head \o Repeat(found)
  BY <1>4, <1>3, Zenon
<1>10. SubSeq(Owed(c), 1, Len(head)) = head
  BY <1>5, SplitConcat
<1>11. SubSeq(AllLines(c, b), Len(head) + 1, Len(AllLines(c, b))) = tail
  <2>1. SubSeq(head \o tail, Len(head) + 1, Len(head \o tail)) = tail
    BY SplitConcat
  <2> QED
    BY <1>6, <2>1, Zenon
<1>12. Len(head) \in 0 .. Len(Owed(c))
  <2>1. Len(head \o lines) = Len(head) + Len(lines) /\ Len(head) \in Nat /\ Len(lines) \in Nat
    BY ConcatProperties
  <2> QED
    BY <1>5, <2>1
<1>13. Owed(Pushed(c, b)) = (queue \o Repeat(n + found))
                              \o (IF b = NL THEN <<Finished(Spoilt, executing)>> ELSE <<>>)
  BY <1>1, <1>8, OverflowedFacts, Zenon
<1>14. Owed(Pushed(c, b)) = AfterLoss(c, b, Len(head))
  BY <1>7, <1>9, <1>10, <1>11, <1>13, Zenon DEF AfterLoss
<1> QED
  BY <1>12, <1>14
\* What each step of the loop and its surroundings is for one channel.
Answering(ch) == current.ch = ch
Stays(ch) == UNCHANGED <<Owed(chan[ch]), InHand(chan[ch]), AnswerOn(ch), executing>>
Receives(ch, b) ==
  /\ b = NL => /\ Owed(chan'[ch]) = Append(Owed(chan[ch]), Finished(InHand(chan[ch]), executing))
               /\ InHand(chan'[ch]) = NewLine
  /\ b # NL => /\ Owed(chan'[ch]) = Owed(chan[ch])
               /\ InHand(chan'[ch]) = WithByte(InHand(chan[ch]), b)
  /\ UNCHANGED <<AnswerOn(ch), executing>>
Overflows(ch, b) ==
  /\ \E k \in 0 .. Len(Owed(chan[ch])) : Owed(chan'[ch]) = AfterLoss(chan[ch], b, k)
  /\ InHand(chan'[ch]) = IF b = NL THEN NewLine ELSE Spoilt
  /\ UNCHANGED <<AnswerOn(ch), executing>>
Answers(ch) ==
  /\ Owed(chan[ch]) # <<>> /\ ~Answering(ch)
  /\ AnswerOn(ch)' = [kind |-> Head(Owed(chan[ch])).kind, verdict |-> Verdict(Head(Owed(chan[ch])))]
  /\ Owed(chan'[ch]) = Tail(Owed(chan[ch])) /\ InHand(chan'[ch]) = InHand(chan[ch])
  /\ executing' = (Verdict(Head(Owed(chan[ch]))) = "execute")
Ended(ch) ==
  /\ Answering(ch) /\ ~Answering(ch)' /\ executing' = FALSE
  /\ UNCHANGED <<Owed(chan[ch]), InHand(chan[ch])>>
OtherRuns(ch) ==
  /\ ~Answering(ch) /\ ~Answering(ch)' /\ executing' = ~executing
  /\ UNCHANGED <<Owed(chan[ch]), InHand(chan[ch])>>
Resets(ch) ==
  /\ Owed(chan'[ch]) = <<>> /\ InHand(chan'[ch]) = NewLine
  /\ UNCHANGED <<AnswerOn(ch), executing>>
ChannelNext(ch) == \/ Stays(ch) \/ Answers(ch) \/ Ended(ch) \/ OtherRuns(ch) \/ Resets(ch)
                   \/ \E b \in BYTES : Receives(ch, b) \/ Overflows(ch, b)

LEMMA ChannelSteps ==
  ASSUME Inv, [Next]_vars, NEW ch \in CH
  PROVE  ChannelNext(ch)
<1>1. /\ Sound(chan[ch]) /\ ChannelsSound /\ RunInv
      /\ executing \in BOOLEAN /\ next_channel \in CH
  BY DEF Inv, ChannelsSound, RunInv
<1>2. ASSUME UNCHANGED <<current, executing>>, Owed(chan'[ch]) = Owed(chan[ch]),
             InHand(chan'[ch]) = InHand(chan[ch])
      PROVE  ChannelNext(ch)
  <2>1. Stays(ch)
    BY <1>2 DEF Stays, AnswerOn
  <2> QED
    BY <2>1 DEF ChannelNext
<1>3. ASSUME NEW from \in CH, NEW b \in BYTES, ByteArrives(from, b) PROVE ChannelNext(ch)
  <2>1. /\ chan'[from] = Pushed(chan[from], b)
        /\ \A other \in CH \ {from} : chan'[other] = chan[other]
        /\ UNCHANGED <<current, executing>>
    BY <1>1, <1>3, ByteStep DEF ByteArrives
  <2>2. CASE ch # from
    BY <1>2, <2>1, <2>2
  <2>3. CASE ch = from /\ ~Overflowing(chan[ch], b)
    <3>1. Receives(ch, b)
      BY <1>1, <2>1, <2>3, ReceivedFacts DEF Receives, AnswerOn
    <3> QED
      BY <3>1 DEF ChannelNext
  <2>4. CASE ch = from /\ Overflowing(chan[ch], b)
    <3>1. PICK max \in Nat : max = MAX_PENDING[ch] /\ max < RECOVERED_MAX
      BY SuperloopAssumption
    <3>2. Len(Owed(chan[ch])) < max
      <4>1. Pending(ch) = Owed(chan[ch])
        BY Zenon DEF Pending, Owed, Repeat
      <4> QED
        BY <1>3, <2>4, <3>1, <4>1 DEF ByteArrives
    <3>3. \E k \in 0 .. Len(Owed(chan[ch])) : Owed(chan'[ch]) = AfterLoss(chan[ch], b, k)
      BY <1>1, <2>1, <2>4, <3>1, <3>2, OverflowKeepsSafe
    <3>4. InHand(chan'[ch]) = IF b = NL THEN NewLine ELSE Spoilt
      <4>1. InHand(Pushed(chan[ch], b)) = IF b = NL THEN NewLine ELSE Spoilt
        BY <1>1, <2>4, OverflowedFacts
      <4> QED
        BY <2>1, <2>4, <4>1, Zenon
    <3>5. Overflows(ch, b)
      BY <2>1, <3>3, <3>4 DEF Overflows, AnswerOn
    <3> QED
      BY <3>5 DEF ChannelNext
  <2> QED
    BY <2>2, <2>3, <2>4
<1>4. ASSUME chan' = [chan EXCEPT !["tcp"] = Emptied], UNCHANGED <<current, executing>>
      PROVE  ChannelNext(ch)
  <2>1. CASE ch = "tcp"
    <3>1. Resets(ch)
      BY <1>1, <1>4, <2>1, ResetStep, EmptiedFacts DEF Resets, AnswerOn
    <3> QED
      BY <3>1 DEF ChannelNext
  <2>2. CASE ch = "console"
    BY <1>1, <1>2, <1>4, <2>2, ResetStep
  <2> QED
    BY <2>1, <2>2 DEF CH
<1>5. ASSUME UNCHANGED <<chan, current, executing>> PROVE ChannelNext(ch)
  BY <1>2, <1>5
<1>6. CASE NetAccept
  BY <1>4, <1>6 DEF NetAccept, run
<1>7. CASE Pump
  <2>1. chan'[ch] = Pumped(chan[ch]) /\ UNCHANGED <<current, executing>>
    BY <1>1, <1>7, PumpStep DEF Pump
  <2> QED
    BY <1>1, <1>2, <2>1, PumpedFacts
<1>8. CASE LostFirst
  <2>1. \/ UNCHANGED <<chan, current, executing>>
        \/ chan' = [chan EXCEPT !["tcp"] = Emptied] /\ UNCHANGED <<current, executing>>
    BY <1>8 DEF LostFirst, run
  <2> QED
    BY <1>4, <1>5, <2>1
<1>9. CASE AcceptSafeDone
  <2>1. UNCHANGED <<current, executing>>
    BY <1>9 DEF AcceptSafeDone, run
  <2>2. Owed(chan'[ch]) = Owed(chan[ch]) /\ InHand(chan'[ch]) = InHand(chan[ch])
    BY <1>1, <1>9, AcceptSafeStep, PumpedFacts DEF CH
  <2> QED
    BY <1>2, <2>1, <2>2
<1>10. CASE Dispatch
  <2>1. /\ Turn \in CH /\ chan[Turn].queue # <<>> /\ Sound(chan[Turn])
        /\ chan'[Turn] = [chan[Turn] EXCEPT !.queue = Tail(@)]
        /\ \A other \in CH \ {Turn} : chan'[other] = chan[other]
    BY <1>1, <1>10, DispatchStep DEF ChannelsSound
  <2>2. PICK line \in Lines : line = Head(chan[Turn].queue)
    BY <1>1, <1>10, DispatchStep
  <2>3. /\ current' = [ch |-> Turn, kind |-> line.kind, verdict |-> Verdict(line)]
        /\ executing' = (Verdict(line) = "execute")
    BY <1>10, <2>2 DEF Dispatch
  <2>4. current = Idle /\ ~executing
    BY <1>1, <1>10 DEF Dispatch, RunInv
  <2>5. current.ch = "none" /\ current'.ch = Turn /\ ~Answering(ch)
    BY <2>3, <2>4 DEF Idle, Answering, CH
  <2>6. CASE ch = Turn
    <3>1. /\ Owed(chan'[ch]) = Tail(Owed(chan[ch])) /\ Owed(chan[ch]) # <<>>
          /\ Head(Owed(chan[ch])) = line /\ InHand(chan'[ch]) = InHand(chan[ch])
      BY <2>1, <2>2, <2>6, ServedFacts
    <3>2. AnswerOn(ch)' = [kind |-> line.kind, verdict |-> Verdict(line)]
      BY <2>3, <2>6 DEF AnswerOn
    <3>3. Answers(ch)
      BY <2>3, <2>5, <3>1, <3>2 DEF Answers
    <3> QED
      BY <3>3 DEF ChannelNext
  <2>7. CASE ch # Turn
    <3>1. chan'[ch] = chan[ch] /\ ~Answering(ch)'
      BY <2>1, <2>5, <2>7 DEF Answering
    <3>2. UNCHANGED AnswerOn(ch)
      BY <2>5, <3>1 DEF AnswerOn, Answering
    <3>3. CASE Verdict(line) = "execute"
      <4>1. executing' = ~executing
        BY <1>1, <2>3, <2>4, <3>3
      <4>2. OtherRuns(ch)
        BY <2>5, <3>1, <4>1 DEF OtherRuns
      <4> QED
        BY <4>2 DEF ChannelNext
    <3>4. CASE Verdict(line) # "execute"
      <4>1. executing' = executing
        BY <1>1, <2>3, <2>4, <3>4
      <4>2. Stays(ch)
        BY <3>1, <3>2, <4>1 DEF Stays
      <4> QED
        BY <4>2 DEF ChannelNext
    <3> QED
      BY <3>3, <3>4
  <2> QED
    BY <2>6, <2>7
<1>11. ASSUME EndLine, UNCHANGED chan, pc \in {"run", "reply"} PROVE ChannelNext(ch)
  <2>1. current' = Idle /\ executing' = FALSE /\ ~Answering(ch)'
    BY <1>11 DEF EndLine, Idle, Answering, CH
  <2>2. CASE Answering(ch)
    <3>1. Ended(ch)
      BY <1>11, <2>1, <2>2 DEF Ended
    <3> QED
      BY <3>1 DEF ChannelNext
  <2>3. CASE ~Answering(ch) /\ executing
    <3>1. OtherRuns(ch)
      BY <1>1, <1>11, <2>1, <2>3 DEF OtherRuns
    <3> QED
      BY <3>1 DEF ChannelNext
  <2>4. CASE ~Answering(ch) /\ ~executing
    <3>1. UNCHANGED AnswerOn(ch)
      BY <2>1, <2>4 DEF AnswerOn, Answering
    <3>2. Stays(ch)
      BY <1>1, <1>11, <2>1, <2>4, <3>1 DEF Stays
    <3> QED
      BY <3>2 DEF ChannelNext
  <2> QED
    BY <2>2, <2>3, <2>4
<1>12. CASE (RunEnds \/ TcpWrite \/ ConsoleWrite) /\ EndLine
  <2>1. UNCHANGED chan /\ pc \in {"run", "reply"}
    BY <1>12 DEF RunEnds, TcpWrite, ConsoleWrite
  <2> QED
    BY <1>11, <1>12, <2>1
<1>13. CASE (RunEnds \/ TcpWrite \/ ConsoleWrite) /\ ~EndLine
  <2>1. UNCHANGED <<run, chan>>
    BY <1>13 DEF RunEnds, TcpWrite, ConsoleWrite, Stalled
  <2> QED
    BY <1>5, <2>1 DEF run
<1>14. CASE SafePoll \/ LostSafeDone \/ NothingToDo \/ RunPoll \/ Tick \/ NetClosed
  BY <1>5, <1>14 DEF SafePoll, LostSafeDone, NothingToDo, RunPoll, Tick, NetClosed, run
<1>15. CASE UNCHANGED vars
  BY <1>5, <1>15 DEF vars, run
<1> QED
  BY <1>3, <1>6, <1>7, <1>8, <1>9, <1>10, <1>12, <1>13, <1>14, <1>15 DEF Next, Loop, Environment
LEMMA Seen ==
  ASSUME NEW ch \in CH
  PROVE  /\ Pending(ch) = Owed(chan[ch]) /\ Pending(ch)' = Owed(chan'[ch])
         /\ TypedLine(ch) = InHand(chan[ch]) /\ TypedLine(ch)' = InHand(chan'[ch])
BY Zenon DEF Pending, Owed, Repeat, TypedLine, InHand

\* The words of the two specifications.
LEMMA TcpWords ==
  /\ Tcp!NewLine = NewLine /\ Tcp!Damaged = Spoilt /\ Tcp!SafeLine = SafeLine
  /\ Tcp!Nothing = [kind |-> "none", verdict |-> "none"]
  /\ \A t, busy : Tcp!LineOf(t, busy) = Finished(t, busy)
  /\ \A t, b : Tcp!Typed(t, b) = WithByte(t, b)
  /\ \A line : Tcp!Verdict(line) = Verdict(line)
  /\ \A S : Tcp!Cardinality(S) = Cardinality(S)
BY Zenon DEF Tcp!Cardinality, Cardinality, Tcp!NewLine, NewLine, Tcp!Damaged, Spoilt, Tcp!SafeLine, SafeLine, Tcp!Nothing,
       Tcp!LineOf, Tcp!KindOf, Finished, LineOf, KindOf, Tcp!Typed, WithByte, Tcp!Verdict, Verdict

LEMMA TcpSteps ==
  ASSUME Inv, [Next]_vars
  PROVE  [Tcp!Next]_(Tcp!channelVars)
<1>1. "tcp" \in CH
  BY DEF CH
<1>2. ChannelNext("tcp")
  BY <1>1, ChannelSteps
<1>3. /\ Pending("tcp") = Owed(chan["tcp"]) /\ Pending("tcp")' = Owed(chan'["tcp"])
      /\ TypedLine("tcp") = InHand(chan["tcp"]) /\ TypedLine("tcp")' = InHand(chan'["tcp"])
  BY <1>1, Seen
<1>4. CASE Stays("tcp")
  BY <1>3, <1>4, Zenon DEF Stays, Tcp!channelVars
<1>5. CASE Answers("tcp")
  <2>1. Tcp!Answer
    BY <1>3, <1>5, TcpWords, Zenon DEF Answers, Answering, AnswerOn, Tcp!Answer
  <2> QED
    BY <2>1 DEF Tcp!Next
<1>6. CASE Ended("tcp")
  <2>1. AnswerOn("tcp") # Tcp!Nothing
    BY <1>1, <1>6, TcpWords DEF Ended, Answering, AnswerOn, Inv, RunInv, Kinds, Idle
  <2>2. AnswerOn("tcp")' = Tcp!Nothing
    BY <1>6, TcpWords DEF Ended, Answering, AnswerOn
  <2>3. Tcp!Answered
    BY <1>3, <1>6, <2>1, <2>2, Zenon DEF Ended, Tcp!Answered
  <2> QED
    BY <2>3 DEF Tcp!Next
<1>7. CASE OtherRuns("tcp")
  <2>1. AnswerOn("tcp") = Tcp!Nothing /\ AnswerOn("tcp")' = Tcp!Nothing
    BY <1>7, TcpWords DEF OtherRuns, Answering, AnswerOn
  <2>2. Tcp!OtherExecutes
    BY <1>3, <1>7, <2>1, Zenon DEF OtherRuns, Tcp!OtherExecutes
  <2> QED
    BY <2>2 DEF Tcp!Next
<1>8. CASE Resets("tcp")
  <2>1. Tcp!Reset
    BY <1>3, <1>8, TcpWords, Zenon DEF Resets, Tcp!Reset
  <2> QED
    BY <2>1 DEF Tcp!Next
<1>9. ASSUME NEW b \in BYTES, Receives("tcp", b) PROVE Tcp!Next
  <2>1. Tcp!Receive(b)
    BY <1>3, <1>9, TcpWords, Zenon DEF Receives, Tcp!Receive
  <2> QED
    BY <2>1 DEF Tcp!Next
<1>10. ASSUME NEW b \in BYTES, Overflows("tcp", b) PROVE Tcp!Next
  <2>1. PICK k \in 0 .. Len(Owed(chan["tcp"])) : Owed(chan'["tcp"]) = AfterLoss(chan["tcp"], b, k)
    BY <1>10 DEF Overflows
  <2>2. InHand(chan'["tcp"]) = IF b = NL THEN NewLine ELSE Spoilt
    BY <1>10, Zenon DEF Overflows
  <2>3. UNCHANGED <<AnswerOn("tcp"), executing>>
    BY <1>10, Zenon DEF Overflows
  <2> DEFINE all == IF b = NL THEN Append(Pending("tcp"), Tcp!LineOf(TypedLine("tcp"), executing))
                    ELSE Pending("tcp")
             lost == SubSeq(all, k + 1, Len(all))
             safes == Tcp!Cardinality({i \in DOMAIN lost : lost[i].kind = "safe"})
             bad == IF b = NL THEN <<Tcp!LineOf(Tcp!Damaged, executing)>> ELSE <<>>
  <2>4. all = AllLines(chan["tcp"], b)
    BY <1>3, TcpWords, Zenon DEF AllLines
  <2>5. safes = Safes(lost)
    BY TcpWords, Zenon DEF Safes
  <2>6. [i \in 1 .. safes |-> Tcp!SafeLine] = Repeat(safes)
    BY TcpWords, Zenon DEF Repeat
  <2>7. bad = IF b = NL THEN <<Finished(Spoilt, executing)>> ELSE <<>>
    BY TcpWords, Zenon
  <2>8. Pending("tcp")' = SubSeq(Pending("tcp"), 1, k) \o [i \in 1 .. safes |-> Tcp!SafeLine] \o bad
    <3> HIDE DEF all, safes, bad
    <3> QED
      BY <1>3, <2>1, <2>4, <2>5, <2>6, <2>7, Zenon DEF AfterLoss
  <2>9. TypedLine("tcp")' = IF b = NL THEN Tcp!NewLine ELSE Tcp!Damaged
    BY <1>3, <2>2, TcpWords, Zenon
  <2>10. Tcp!Overflow(b)
    BY <1>3, <2>3, <2>8, <2>9, Zenon DEF Tcp!Overflow
  <2> QED
    BY <2>10 DEF Tcp!Next
<1> QED
  BY <1>2, <1>4, <1>5, <1>6, <1>7, <1>8, <1>9, <1>10 DEF ChannelNext

LEMMA ConsoleWords ==
  /\ Console!NewLine = NewLine /\ Console!Damaged = Spoilt /\ Console!SafeLine = SafeLine
  /\ Console!Nothing = [kind |-> "none", verdict |-> "none"]
  /\ \A t, busy : Console!LineOf(t, busy) = Finished(t, busy)
  /\ \A t, b : Console!Typed(t, b) = WithByte(t, b)
  /\ \A line : Console!Verdict(line) = Verdict(line)
  /\ \A S : Console!Cardinality(S) = Cardinality(S)
BY Zenon DEF Console!Cardinality, Cardinality, Console!NewLine, NewLine, Console!Damaged, Spoilt, Console!SafeLine, SafeLine, Console!Nothing,
       Console!LineOf, Console!KindOf, Finished, LineOf, KindOf, Console!Typed, WithByte, Console!Verdict, Verdict

LEMMA ConsoleSteps ==
  ASSUME Inv, [Next]_vars
  PROVE  [Console!Next]_(Console!channelVars)
<1>1. "console" \in CH
  BY DEF CH
<1>2. ChannelNext("console")
  BY <1>1, ChannelSteps
<1>3. /\ Pending("console") = Owed(chan["console"]) /\ Pending("console")' = Owed(chan'["console"])
      /\ TypedLine("console") = InHand(chan["console"]) /\ TypedLine("console")' = InHand(chan'["console"])
  BY <1>1, Seen
<1>4. CASE Stays("console")
  BY <1>3, <1>4, Zenon DEF Stays, Console!channelVars
<1>5. CASE Answers("console")
  <2>1. Console!Answer
    BY <1>3, <1>5, ConsoleWords, Zenon DEF Answers, Answering, AnswerOn, Console!Answer
  <2> QED
    BY <2>1 DEF Console!Next
<1>6. CASE Ended("console")
  <2>1. AnswerOn("console") # Console!Nothing
    BY <1>1, <1>6, ConsoleWords DEF Ended, Answering, AnswerOn, Inv, RunInv, Kinds, Idle
  <2>2. AnswerOn("console")' = Console!Nothing
    BY <1>6, ConsoleWords DEF Ended, Answering, AnswerOn
  <2>3. Console!Answered
    BY <1>3, <1>6, <2>1, <2>2, Zenon DEF Ended, Console!Answered
  <2> QED
    BY <2>3 DEF Console!Next
<1>7. CASE OtherRuns("console")
  <2>1. AnswerOn("console") = Console!Nothing /\ AnswerOn("console")' = Console!Nothing
    BY <1>7, ConsoleWords DEF OtherRuns, Answering, AnswerOn
  <2>2. Console!OtherExecutes
    BY <1>3, <1>7, <2>1, Zenon DEF OtherRuns, Console!OtherExecutes
  <2> QED
    BY <2>2 DEF Console!Next
<1>8. CASE Resets("console")
  <2>1. Console!Reset
    BY <1>3, <1>8, ConsoleWords, Zenon DEF Resets, Console!Reset
  <2> QED
    BY <2>1 DEF Console!Next
<1>9. ASSUME NEW b \in BYTES, Receives("console", b) PROVE Console!Next
  <2>1. Console!Receive(b)
    BY <1>3, <1>9, ConsoleWords, Zenon DEF Receives, Console!Receive
  <2> QED
    BY <2>1 DEF Console!Next
<1>10. ASSUME NEW b \in BYTES, Overflows("console", b) PROVE Console!Next
  <2>1. PICK k \in 0 .. Len(Owed(chan["console"])) : Owed(chan'["console"]) = AfterLoss(chan["console"], b, k)
    BY <1>10 DEF Overflows
  <2>2. InHand(chan'["console"]) = IF b = NL THEN NewLine ELSE Spoilt
    BY <1>10, Zenon DEF Overflows
  <2>3. UNCHANGED <<AnswerOn("console"), executing>>
    BY <1>10, Zenon DEF Overflows
  <2> DEFINE all == IF b = NL THEN Append(Pending("console"), Console!LineOf(TypedLine("console"), executing))
                    ELSE Pending("console")
             lost == SubSeq(all, k + 1, Len(all))
             safes == Console!Cardinality({i \in DOMAIN lost : lost[i].kind = "safe"})
             bad == IF b = NL THEN <<Console!LineOf(Console!Damaged, executing)>> ELSE <<>>
  <2>4. all = AllLines(chan["console"], b)
    BY <1>3, ConsoleWords, Zenon DEF AllLines
  <2>5. safes = Safes(lost)
    BY ConsoleWords, Zenon DEF Safes
  <2>6. [i \in 1 .. safes |-> Console!SafeLine] = Repeat(safes)
    BY ConsoleWords, Zenon DEF Repeat
  <2>7. bad = IF b = NL THEN <<Finished(Spoilt, executing)>> ELSE <<>>
    BY ConsoleWords, Zenon
  <2>8. Pending("console")' = SubSeq(Pending("console"), 1, k) \o [i \in 1 .. safes |-> Console!SafeLine] \o bad
    <3> HIDE DEF all, safes, bad
    <3> QED
      BY <1>3, <2>1, <2>4, <2>5, <2>6, <2>7, Zenon DEF AfterLoss
  <2>9. TypedLine("console")' = IF b = NL THEN Console!NewLine ELSE Console!Damaged
    BY <1>3, <2>2, ConsoleWords, Zenon
  <2>10. Console!Overflow(b)
    BY <1>3, <2>3, <2>8, <2>9, Zenon DEF Console!Overflow
  <2> QED
    BY <2>10 DEF Console!Next
<1> QED
  BY <1>2, <1>4, <1>5, <1>6, <1>7, <1>8, <1>9, <1>10 DEF ChannelNext

LEMMA ChannelsInit ==
  ASSUME Init
  PROVE  Tcp!Init /\ Console!Init
<1>1. \A ch \in CH : chan[ch] = Emptied
  BY DEF Init
<1>2. "tcp" \in CH /\ "console" \in CH
  BY DEF CH
<1>3. /\ Pending("tcp") = <<>> /\ TypedLine("tcp") = NewLine
      /\ Pending("console") = <<>> /\ TypedLine("console") = NewLine
  BY <1>1, <1>2, Seen, EmptiedFacts
<1>4. \A ch \in CH : AnswerOn(ch) = [kind |-> "none", verdict |-> "none"]
  BY DEF Init, AnswerOn, Idle, CH
<1>5. executing = FALSE
  BY DEF Init
<1>6. Tcp!Init
  BY <1>2, <1>3, <1>4, <1>5, TcpWords, Zenon DEF Tcp!Init
<1>7. Console!Init
  BY <1>2, <1>3, <1>4, <1>5, ConsoleWords, Zenon DEF Console!Init
<1> QED
  BY <1>6, <1>7

\* Rings, queues, overflows, resets and turns keep the promise of the channel to its
\* peer, on both channels: order, ERR:BUSY for the right lines, and no SAFE lost.
THEOREM ImplementsChannelTheorem == Spec => ImplementsChannel
<1>1. Init => Tcp!Init /\ Console!Init
  BY ChannelsInit
<1>2. Inv /\ [Next]_vars => [Tcp!Next]_(Tcp!channelVars)
  BY TcpSteps
<1>3. Inv /\ [Next]_vars => [Console!Next]_(Console!channelVars)
  BY ConsoleSteps
<1> QED
  BY <1>1, <1>2, <1>3, SuperloopInvariant, PTL DEF Spec, ImplementsChannel, Tcp!Spec, Console!Spec
=============================================================================
