--------------------------- MODULE SectionsProofs ---------------------------
(***************************************************************************)
(* What a section announces is true: `SectionTruth` and `MatrixShows`.     *)
(*                                                                         *)
(* The inductive invariant speaks of the program a command has still to    *)
(* run.  `UnderWay`: what the section lacks to be in service, a step of    *)
(* `work` will still do or check.  `Kept`, before a restart: every other   *)
(* element shows its announced code, or the image of the matrices is still *)
(* to be checked; and no write of the direction comes before that check.   *)
(* `Lost`, in a power-up: every element has the code after power-up, or is *)
(* still to be confirmed with it.  `Ends`: RES:SET ends with the           *)
(* confirmation of its own code.                                           *)
(***************************************************************************)
EXTENDS Sections, TLAPS

-----------------------------------------------------------------------------
(* Programs: the steps of one, and one behind another.                     *)

\* The steps of a program, and what makes a program.
Steps(w) == {w[i] : i \in 1 .. Len(w)}
IsProgram(w) == Len(w) \in Nat /\ w = [i \in 1 .. Len(w) |-> w[i]]

\* The elements, one by one.
LEMMA ElementsAre == Elements = {"pot1", "mtx1", "pot2", "poth", "mtx2"}
<1>1. DOMAIN elements = 1 .. 5
  BY DEF elements
<1>2. /\ elements[1] = "pot1" /\ elements[2] = "mtx1" /\ elements[3] = "pot2"
      /\ elements[4] = "poth" /\ elements[5] = "mtx2"
  BY DEF elements
<1>3. \A i \in 1 .. 5 : i = 1 \/ i = 2 \/ i = 3 \/ i = 4 \/ i = 5
  OBVIOUS
<1>4. Elements = {elements[i] : i \in 1 .. 5}
  BY <1>1 DEF Elements
<1>5. /\ 1 \in 1 .. 5 /\ 2 \in 1 .. 5 /\ 3 \in 1 .. 5 /\ 4 \in 1 .. 5 /\ 5 \in 1 .. 5
  OBVIOUS
<1>6. ASSUME NEW x PROVE x \in Elements <=> x \in {"pot1", "mtx1", "pot2", "poth", "mtx2"}
  <2>1. x \in Elements => \E i \in 1 .. 5 : x = elements[i]
    BY <1>4
  <2>2. \A i \in 1 .. 5 : elements[i] \in Elements
    BY <1>4
  <2> QED BY <1>2, <1>3, <1>5, <2>1, <2>2
<1> QED BY <1>6

\* A program of one step, and one of two.
LEMMA OneStep ==
  ASSUME NEW a
  PROVE  IsProgram(<<a>>) /\ Len(<<a>>) = 1 /\ <<a>>[1] = a /\ Steps(<<a>>) = {a}
<1>1. Len(<<a>>) = 1 /\ <<a>>[1] = a /\ <<a>> = [i \in 1 .. 1 |-> <<a>>[i]]
  OBVIOUS
<1> QED BY <1>1 DEF IsProgram, Steps

LEMMA TwoSteps ==
  ASSUME NEW a, NEW b
  PROVE  /\ IsProgram(<<a, b>>) /\ Len(<<a, b>>) = 2 /\ <<a, b>>[1] = a /\ <<a, b>>[2] = b
         /\ Steps(<<a, b>>) = {a, b}
<1>1. PICK w : w = <<a, b>>
  OBVIOUS
<1>2. Len(w) = 2 /\ w[1] = a /\ w[2] = b /\ w = [i \in 1 .. 2 |-> w[i]]
  BY <1>1
<1>3. \A i \in 1 .. 2 : i = 1 \/ i = 2
  OBVIOUS
<1>4. 1 \in 1 .. 2 /\ 2 \in 1 .. 2
  OBVIOUS
<1>5. Steps(w) = {w[i] : i \in 1 .. 2}
  BY <1>2 DEF Steps
<1>6. Steps(w) = {a, b}
  BY <1>2, <1>3, <1>4, <1>5
<1> QED BY <1>1, <1>2, <1>6 DEF IsProgram

\* One program behind another.
LEMMA Behind ==
  ASSUME NEW s, NEW t, IsProgram(s), IsProgram(t)
  PROVE  /\ IsProgram(s \o t) /\ Len(s \o t) = Len(s) + Len(t)
         /\ \A i \in 1 .. Len(s) : (s \o t)[i] = s[i]
         /\ \A i \in 1 .. Len(t) : (s \o t)[Len(s) + i] = t[i]
         /\ Steps(s \o t) = Steps(s) \cup Steps(t)
<1> DEFINE T == Steps(s) \cup Steps(t)
<1>1. s \in Seq(T) /\ t \in Seq(T)
  BY DEF IsProgram, Steps
<1> HIDE DEF T
<1>2. PICK w \in Seq(T) : w = s \o t
  <2>1. s \o t \in Seq(T)
    BY <1>1
  <2> QED BY <2>1
<1>3. /\ Len(w) = Len(s) + Len(t)
      /\ \A i \in 1 .. Len(s) : w[i] = s[i]
      /\ \A i \in 1 .. Len(t) : w[Len(s) + i] = t[i]
  BY <1>1, <1>2
<1>4. IsProgram(w)
  BY DEF IsProgram
<1>5. PICK m \in Nat, n \in Nat : m = Len(s) /\ n = Len(t)
  BY <1>1
<1>6. \A i \in 1 .. m + n : i \in 1 .. m \/ (i - m \in 1 .. n /\ i = m + (i - m))
  OBVIOUS
<1>7. \A i \in 1 .. m : i \in 1 .. m + n
  OBVIOUS
<1>8. \A i \in 1 .. n : m + i \in 1 .. m + n
  OBVIOUS
<1>9. Steps(w) = T
  <2>1. ASSUME NEW i \in 1 .. m + n PROVE w[i] \in T
    <3>1. CASE i \in 1 .. m
      BY <1>3, <1>5, <3>1 DEF T, Steps
    <3>2. CASE i - m \in 1 .. n /\ i = m + (i - m)
      BY <1>3, <1>5, <3>2 DEF T, Steps
    <3> QED BY <1>6, <3>1, <3>2
  <2>2. \A i \in 1 .. m : s[i] \in Steps(w)
    BY <1>3, <1>5, <1>7 DEF Steps
  <2>3. \A i \in 1 .. n : t[i] \in Steps(w)
    BY <1>3, <1>5, <1>8 DEF Steps
  <2>4. Steps(w) \subseteq T
    BY <1>3, <1>5, <2>1 DEF Steps
  <2>5. T \subseteq Steps(w)
    BY <1>5, <2>2, <2>3 DEF T, Steps
  <2> QED BY <2>4, <2>5
<1> QED BY <1>2, <1>3, <1>4, <1>9 DEF T

JoinOf(w, s, t) ==
  /\ IsProgram(w) /\ Len(w) = Len(s) + Len(t)
  /\ \A i \in 1 .. Len(s) : w[i] = s[i]
  /\ \A i \in 1 .. Len(t) : w[Len(s) + i] = t[i]
  /\ Steps(w) = Steps(s) \cup Steps(t)

LEMMA Joined ==
  ASSUME NEW s, NEW t, IsProgram(s), IsProgram(t), NEW w, w = s \o t
  PROVE  JoinOf(w, s, t)
BY Behind DEF JoinOf

\* The empty program.
LEMMA NoSteps ==
  ASSUME NEW T, NEW w \in Seq(T)
  PROVE  w = <<>> <=> Len(w) = 0
OBVIOUS

\* The first step of a program and what is left after it.
LEMMA FirstStep ==
  ASSUME NEW w, IsProgram(w), w # <<>>
  PROVE  /\ IsProgram(Tail(w)) /\ Len(Tail(w)) = Len(w) - 1 /\ Len(w) >= 1 /\ Head(w) = w[1]
         /\ \A i \in 1 .. Len(w) - 1 : Tail(w)[i] = w[i + 1]
         /\ Steps(w) = {Head(w)} \cup Steps(Tail(w))
         /\ (Tail(w) = <<>> <=> Len(w) = 1)
<1> DEFINE T == Steps(w)
<1>1. w \in Seq(T)
  BY DEF IsProgram, Steps
<1> HIDE DEF T
<1>2. Len(w) \in Nat /\ Len(w) >= 1
  BY <1>1
<1>3. PICK t \in Seq(T) : t = Tail(w)
  <2>1. Tail(w) \in Seq(T)
    BY <1>1
  <2> QED BY <2>1
<1>4. Len(t) = Len(w) - 1 /\ Head(w) = w[1] /\ \A i \in 1 .. Len(w) - 1 : t[i] = w[i + 1]
  BY <1>1, <1>3
<1>5. IsProgram(t)
  BY DEF IsProgram
<1>6. PICK n \in Nat : n = Len(t) /\ n + 1 = Len(w)
  BY <1>2, <1>4
<1>7. \A i \in 1 .. n + 1 : i = 1 \/ (i - 1 \in 1 .. n /\ i = (i - 1) + 1)
  OBVIOUS
<1>8. 1 \in 1 .. n + 1 /\ \A i \in 1 .. n : i + 1 \in 1 .. n + 1
  OBVIOUS
<1>9. Steps(w) = {w[1]} \cup Steps(t)
  <2>1. ASSUME NEW i \in 1 .. n + 1 PROVE w[i] \in {w[1]} \cup Steps(t)
    <3>1. CASE i = 1
      BY <3>1
    <3>2. CASE i - 1 \in 1 .. n /\ i = (i - 1) + 1
      <4>1. t[i - 1] = w[i]
        BY <1>4, <1>6, <3>2
      <4> QED BY <1>6, <3>2, <4>1 DEF Steps
    <3> QED BY <1>7, <3>1, <3>2
  <2>2. \A i \in 1 .. n : t[i] \in Steps(w)
    BY <1>4, <1>6, <1>8 DEF Steps
  <2>3. w[1] \in Steps(w)
    BY <1>6, <1>8 DEF Steps
  <2> QED BY <1>6, <2>1, <2>2, <2>3 DEF Steps
<1>10. t = <<>> <=> Len(w) = 1
  <2>1. t = <<>> <=> Len(t) = 0
    BY <1>3, NoSteps
  <2>2. n = 0 <=> n + 1 = 1
    OBVIOUS
  <2> QED BY <1>6, <2>1, <2>2, Zenon
<1> QED BY <1>2, <1>3, <1>4, <1>5, <1>9, <1>10

-----------------------------------------------------------------------------
(* The steps of the operations.                                            *)

WriteOf(to) == Step("write", to)
CheckOf(to) == Step("check", to)
ConfirmOf(e, value) == Step("confirm", Value(e, value))
Setting(e, value) == {WriteOf(Value(e, value)), ConfirmOf(e, value)}
Checking(to) == {WriteOf(to), CheckOf(to)}

Image == [m \in Matrix |-> DEFAULT]
PowerSteps ==
  {Plain("power"), Plain("release"), Plain("ack"), Plain("on")}
    \cup Checking(Image) \cup Checking(Value("direction", "out")) \cup Checking(Value("wiper", "free"))
    \cup UNION {Setting(e, DEFAULT) : e \in Elements}

\* What the operations are made of: set_once, a checked write, matrix_init, power_on.
LEMMA SetOnceIs ==
  ASSUME NEW e, NEW value
  PROVE  /\ IsProgram(set_once(e, value)) /\ Len(set_once(e, value)) = 2
         /\ set_once(e, value)[1] = WriteOf(Value(e, value)) /\ set_once(e, value)[2] = ConfirmOf(e, value)
         /\ Steps(set_once(e, value)) = Setting(e, value)
BY TwoSteps DEF set_once, Setting, WriteOf, ConfirmOf

LEMMA CheckedIs ==
  ASSUME NEW to
  PROVE  /\ IsProgram(Checked(to)) /\ Len(Checked(to)) = 2
         /\ Checked(to)[1] = WriteOf(to) /\ Checked(to)[2] = CheckOf(to)
         /\ Steps(Checked(to)) = Checking(to)
BY TwoSteps DEF Checked, Checking, WriteOf, CheckOf

LEMMA MatrixInitIs ==
  ASSUME NEW image
  PROVE  /\ IsProgram(matrix_init(image)) /\ Len(matrix_init(image)) = 4
         /\ matrix_init(image)[1] = WriteOf(image) /\ matrix_init(image)[2] = CheckOf(image)
         /\ matrix_init(image)[3] = WriteOf(Value("direction", "out"))
         /\ matrix_init(image)[4] = CheckOf(Value("direction", "out"))
         /\ Steps(matrix_init(image)) = Checking(image) \cup Checking(Value("direction", "out"))
<1> DEFINE s == Checked(image)
           t == Checked(Value("direction", "out"))
<1>1. /\ IsProgram(s) /\ Len(s) = 2 /\ s[1] = WriteOf(image) /\ s[2] = CheckOf(image)
      /\ Steps(s) = Checking(image)
  BY CheckedIs
<1>2. /\ IsProgram(t) /\ Len(t) = 2
      /\ t[1] = WriteOf(Value("direction", "out")) /\ t[2] = CheckOf(Value("direction", "out"))
      /\ Steps(t) = Checking(Value("direction", "out"))
  BY CheckedIs
<1>3. matrix_init(image) = s \o t
  BY DEF matrix_init
<1> HIDE DEF s, t
<1>4. /\ IsProgram(s \o t) /\ Len(s \o t) = Len(s) + Len(t)
      /\ \A i \in 1 .. Len(s) : (s \o t)[i] = s[i]
      /\ \A i \in 1 .. Len(t) : (s \o t)[Len(s) + i] = t[i]
      /\ Steps(s \o t) = Steps(s) \cup Steps(t)
  BY <1>1, <1>2, Behind
<1>5. 1 \in 1 .. 2 /\ 2 \in 1 .. 2 /\ 2 + 1 = 3 /\ 2 + 2 = 4
  OBVIOUS
<1> QED BY <1>1, <1>2, <1>3, <1>4, <1>5

LEMMA PowerOnIs == IsProgram(power_on) /\ power_on # <<>> /\ Steps(power_on) = PowerSteps
<1> DEFINE a == <<Plain("power"), Plain("release")>>
           b == matrix_init([m \in Matrix |-> DEFAULT])
           c == ad_init
           d(i) == set_once(elements[i], DEFAULT)
           f == <<Plain("ack"), Plain("on")>>
           d2 == d(1) \o d(2)
           d3 == d2 \o d(3)
           d4 == d3 \o d(4)
           d5 == d4 \o d(5)
           p1 == a \o b
           p2 == p1 \o c
           p3 == p2 \o d5
           p4 == p3 \o f
<1>1. power_on = p4
  BY DEF power_on, DefaultCodes
<1>2. IsProgram(a) /\ Steps(a) = {Plain("power"), Plain("release")} /\ Len(a) = 2
  BY TwoSteps
<1>3. /\ IsProgram(b)
      /\ Steps(b) = Checking(Image) \cup Checking(Value("direction", "out"))
  BY MatrixInitIs DEF Image
<1>4. IsProgram(c) /\ Steps(c) = Checking(Value("wiper", "free"))
  BY CheckedIs DEF ad_init
<1>5. \A i : IsProgram(d(i)) /\ Steps(d(i)) = Setting(elements[i], DEFAULT)
  BY SetOnceIs
<1>6. IsProgram(f) /\ Steps(f) = {Plain("ack"), Plain("on")} /\ Len(f) = 2
  BY TwoSteps
<1> HIDE DEF a, b, c, d, f
<1>7. /\ IsProgram(d5)
      /\ Steps(d5) = Setting(elements[1], DEFAULT) \cup Setting(elements[2], DEFAULT)
                       \cup Setting(elements[3], DEFAULT) \cup Setting(elements[4], DEFAULT)
                       \cup Setting(elements[5], DEFAULT)
  <2>1. IsProgram(d2) /\ Steps(d2) = Steps(d(1)) \cup Steps(d(2))
    BY <1>5, Behind
  <2> HIDE DEF d2
  <2>2. IsProgram(d3) /\ Steps(d3) = Steps(d2) \cup Steps(d(3))
    BY <1>5, <2>1, Behind
  <2> HIDE DEF d3
  <2>3. IsProgram(d4) /\ Steps(d4) = Steps(d3) \cup Steps(d(4))
    BY <1>5, <2>2, Behind
  <2> HIDE DEF d4
  <2>4. IsProgram(d5) /\ Steps(d5) = Steps(d4) \cup Steps(d(5))
    BY <1>5, <2>3, Behind
  <2> HIDE DEF d5
  <2> QED BY <1>5, <2>1, <2>2, <2>3, <2>4
<1>8. UNION {Setting(e, DEFAULT) : e \in Elements} =
        Setting(elements[1], DEFAULT) \cup Setting(elements[2], DEFAULT)
          \cup Setting(elements[3], DEFAULT) \cup Setting(elements[4], DEFAULT)
          \cup Setting(elements[5], DEFAULT)
  <2>1. /\ elements[1] = "pot1" /\ elements[2] = "mtx1" /\ elements[3] = "pot2"
        /\ elements[4] = "poth" /\ elements[5] = "mtx2"
    BY DEF elements
  <2> QED BY <2>1, ElementsAre
<1> HIDE DEF d5
<1>9. IsProgram(p1) /\ Steps(p1) = Steps(a) \cup Steps(b)
  BY <1>2, <1>3, Behind
<1> HIDE DEF p1
<1>10. IsProgram(p2) /\ Steps(p2) = Steps(p1) \cup Steps(c)
  BY <1>4, <1>9, Behind
<1> HIDE DEF p2
<1>11. IsProgram(p3) /\ Steps(p3) = Steps(p2) \cup Steps(d5)
  BY <1>7, <1>10, Behind
<1> HIDE DEF p3
<1>12. IsProgram(p4) /\ Steps(p4) = Steps(p3) \cup Steps(f) /\ Len(p4) = Len(p3) + Len(f)
  BY <1>6, <1>11, Behind
<1> HIDE DEF p4
<1>13. Steps(p4) = PowerSteps
  BY <1>2, <1>3, <1>4, <1>6, <1>7, <1>8, <1>9, <1>10, <1>11, <1>12 DEF PowerSteps
<1>14. p4 # <<>>
  BY <1>6, <1>11, <1>12 DEF IsProgram
<1> QED BY <1>1, <1>12, <1>13, <1>14

-----------------------------------------------------------------------------
(* The inductive invariant.                                                *)

Registers == Elements \cup Resettable

\* A step is one of those a section knows.
StepOK(s) ==
  /\ s.do \in {"power", "release", "write", "check", "confirm", "ack", "on"}
  /\ s.do \in {"write", "check", "confirm"} =>
       /\ DOMAIN s.to \subseteq Registers
       /\ \A e \in DOMAIN s.to \cap Elements : s.to[e] \in VALUES
       /\ "wiper" \in DOMAIN s.to => s.to["wiper"] = "free"
       /\ "direction" \in DOMAIN s.to => s.to["direction"] = "out"
  /\ s.do = "confirm" => DOMAIN s.to \subseteq Elements

Typed ==
  /\ TypeOK /\ chip = [r \in Registers |-> chip[r]]
  /\ IsProgram(work) /\ \A s \in Steps(work) : StepOK(s)

\* What a section that is on has, or has still to get.
UnderWay ==
  ~Idle \/ section_on =>
    /\ powered \/ Plain("power") \in Steps(work)
    /\ held = {} \/ Plain("release") \in Steps(work)
    /\ chip["wiper"] = "free" \/ CheckOf(Value("wiper", "free")) \in Steps(work)
    /\ chip["direction"] = "out" \/ CheckOf(Value("direction", "out")) \in Steps(work)
    /\ section_on \/ Plain("on") \in Steps(work)

\* The matrices are still to be shown again as they are announced.
ImageLeft(e) ==
  \E s \in Steps(work) : s.do = "check" /\ e \in DOMAIN s.to /\ s.to[e] = section_code[e]
DrivesMatrix(s) == s.do = "write" /\ "direction" \in DOMAIN s.to
ChecksMatrix(s) == s.do = "check" /\ DOMAIN s.to \cap Matrix # {}
Ordered(w) ==
  \A i \in 1 .. Len(w), j \in 1 .. Len(w) : i < j /\ DrivesMatrix(w[i]) => ~ChecksMatrix(w[j])

\* RES:SET until the section is restarted: the other elements keep their codes.
Kept ==
  op.stage \in {"set", "reset"} =>
    /\ ~restarted /\ section_code \in [Elements -> VALUES]
    /\ \A e \in Elements \ {op.e} :
         section_code[e] = known[e] /\ (chip[e] = section_code[e] \/ ImageLeft(e))
    /\ op.e \in Matrix => chip[op.e] \in {section_code[op.e], op.value} \/ ImageLeft(op.e)
    /\ \A s \in Steps(work) :
         /\ s.do # "power"
         /\ s.do \in {"write", "check"} =>
              \A e \in DOMAIN s.to \cap Elements :
                s.to[e] = section_code[e] \/ (e = op.e /\ s.to[e] = op.value)
         /\ s.do = "confirm" => s = ConfirmOf(op.e, op.value)
    /\ op.stage = "set" => Steps(work) \subseteq Setting(op.e, op.value)
    /\ Ordered(work)
    /\ chip["direction"] = "out" => \A s \in Steps(work) : ~ChecksMatrix(s)

\* The power-up of the section: every element gets the default.
Lost ==
  op.stage \in {"power_on", "power"} =>
    /\ op.stage = "power" => restarted
    /\ \A e \in Elements : e # op.e \/ op.stage = "power_on" =>
         \/ section_code[e] = DEFAULT /\ chip[e] = DEFAULT
         \/ ConfirmOf(e, DEFAULT) \in Steps(work)
    /\ \A s \in Steps(work) : s.do \in {"write", "confirm"} =>
         \A e \in DOMAIN s.to \cap Elements :
           s.to[e] = DEFAULT \/ (op.stage = "power" /\ e = op.e /\ s.to[e] = op.value)
    /\ \A m \in Matrix :
         /\ chip[m] = DEFAULT \/ (op.stage = "power" /\ op.e = m /\ chip[m] = op.value)
         /\ section_code[m] \in {UNKNOWN, DEFAULT} \/ (op.stage = "power" /\ op.e = m /\ work = <<>>)

\* RES:SET ends with the confirmation of its code.
Ends ==
  op.stage \in {"set", "reset", "power"} =>
    /\ work = <<>> => chip[op.e] = op.value /\ section_code[op.e] = op.value
    /\ work # <<>> => work[Len(work)] = ConfirmOf(op.e, op.value)
    /\ \A i \in 1 .. Len(work) : i # Len(work) /\ work[i].do = "confirm" =>
         op.stage = "power" /\ \A e \in DOMAIN work[i].to : work[i].to[e] = DEFAULT

Rests ==
  Idle => /\ work = <<>> /\ ~failed /\ powered = section_on
          /\ section_on => \A e \in Elements : chip[e] = section_code[e]
          /\ NeighboursKept

SectionsInv == Typed /\ UnderWay /\ Kept /\ Lost /\ Ends /\ Rests

-----------------------------------------------------------------------------
(* The programs are made of steps a section knows.                         *)

\* The registers and the chips, one by one.
LEMMA Names ==
  /\ Elements = {"pot1", "mtx1", "pot2", "poth", "mtx2"} /\ Matrix = {"mtx1", "mtx2"}
  /\ Resettable = {"poth", "wiper", "mtx1", "mtx2", "direction"}
  /\ Registers = {"pot1", "mtx1", "pot2", "poth", "mtx2", "wiper", "direction"}
  /\ Poth = {"poth", "wiper"} /\ Expander = {"mtx1", "mtx2", "direction"}
<1>1. Elements = {"pot1", "mtx1", "pot2", "poth", "mtx2"}
  BY ElementsAre
<1>2. Matrix = {"mtx1", "mtx2"} /\ Poth = {"poth", "wiper"}
  BY DEF Matrix, Poth
<1>3. Expander = {"mtx1", "mtx2", "direction"}
  BY <1>2 DEF Expander
<1>4. Resettable = {"poth", "wiper", "mtx1", "mtx2", "direction"}
  BY <1>2, <1>3 DEF Resettable
<1>5. Registers = {"pot1", "mtx1", "pot2", "poth", "mtx2", "wiper", "direction"}
  BY <1>1, <1>4 DEF Registers
<1> QED BY <1>1, <1>2, <1>3, <1>4, <1>5

LEMMA ValueIs ==
  ASSUME NEW r, NEW v
  PROVE  DOMAIN Value(r, v) = {r} /\ Value(r, v)[r] = v
BY DEF Value

LEMMA StepIs ==
  ASSUME NEW do, NEW to
  PROVE  Step(do, to).do = do /\ Step(do, to).to = to
BY DEF Step

\* Each family of steps is one a section knows.
LEMMA SettingOK ==
  ASSUME NEW e \in Elements, NEW value \in VALUES
  PROVE  \A s \in Setting(e, value) : StepOK(s)
<1>1. DOMAIN Value(e, value) = {e} /\ Value(e, value)[e] = value
  BY ValueIs
<1>2. e # "wiper" /\ e # "direction" /\ e \in Registers
  BY Names
<1>3. StepOK(WriteOf(Value(e, value)))
  BY <1>1, <1>2, StepIs DEF StepOK, WriteOf
<1>4. StepOK(ConfirmOf(e, value))
  BY <1>1, <1>2, StepIs DEF StepOK, ConfirmOf
<1> QED BY <1>3, <1>4 DEF Setting

LEMMA CheckingOK ==
  ASSUME NEW to, DOMAIN to \subseteq Registers,
         \A e \in DOMAIN to \cap Elements : to[e] \in VALUES,
         "wiper" \in DOMAIN to => to["wiper"] = "free",
         "direction" \in DOMAIN to => to["direction"] = "out"
  PROVE  \A s \in Checking(to) : StepOK(s)
<1>1. StepOK(WriteOf(to))
  BY StepIs DEF StepOK, WriteOf
<1>2. StepOK(CheckOf(to))
  BY StepIs DEF StepOK, CheckOf
<1> QED BY <1>1, <1>2 DEF Checking

LEMMA PinsOK ==
  /\ \A s \in Checking(Value("wiper", "free")) : StepOK(s)
  /\ \A s \in Checking(Value("direction", "out")) : StepOK(s)
<1>1. DOMAIN Value("wiper", "free") = {"wiper"} /\ Value("wiper", "free")["wiper"] = "free"
  BY ValueIs
<1>2. DOMAIN Value("direction", "out") = {"direction"} /\ Value("direction", "out")["direction"] = "out"
  BY ValueIs
<1>3. {"wiper", "direction"} \subseteq Registers /\ "wiper" \notin Elements /\ "direction" \notin Elements
  BY Names
<1>4. \A s \in Checking(Value("wiper", "free")) : StepOK(s)
  <2>1. PICK to : to = Value("wiper", "free")
    OBVIOUS
  <2>2. \A s \in Checking(to) : StepOK(s)
    BY <1>1, <1>3, <2>1, CheckingOK
  <2> QED BY <2>1, <2>2
<1>5. \A s \in Checking(Value("direction", "out")) : StepOK(s)
  <2>1. PICK to : to = Value("direction", "out")
    OBVIOUS
  <2>2. \A s \in Checking(to) : StepOK(s)
    BY <1>2, <1>3, <2>1, CheckingOK
  <2> QED BY <2>1, <2>2
<1> QED BY <1>4, <1>5

LEMMA ImageOK ==
  ASSUME NEW image, DOMAIN image = Matrix, \A m \in Matrix : image[m] \in VALUES
  PROVE  \A s \in Checking(image) : StepOK(s)
<1>1. Matrix \subseteq Registers /\ "wiper" \notin Matrix /\ "direction" \notin Matrix
  BY Names
<1> QED BY <1>1, CheckingOK

LEMMA PowerStepsOK == \A s \in PowerSteps : StepOK(s)
<1>1. \A s \in Checking(Image) : StepOK(s)
  BY SectionsAssumption, ImageOK DEF Image
<1>2. \A e \in Elements : \A s \in Setting(e, DEFAULT) : StepOK(s)
  BY SectionsAssumption, SettingOK
<1>3. \A do \in {"power", "release", "ack", "on"} : StepOK(Plain(do))
  BY StepIs DEF StepOK, Plain
<1> QED BY <1>1, <1>2, <1>3, PinsOK DEF PowerSteps

\* A program that ends with set_once.
EndsSetting(q, p, e, value) ==
  /\ IsProgram(q) /\ q # <<>> /\ q[Len(q)] = ConfirmOf(e, value)
  /\ \A i \in 1 .. Len(q) : i # Len(q) /\ q[i].do = "confirm" => q[i] \in Steps(p)
  /\ Steps(q) = Steps(p) \cup Setting(e, value)

LEMMA ThenSet ==
  ASSUME NEW p, IsProgram(p), NEW e, NEW value, NEW q, q = p \o set_once(e, value)
  PROVE  EndsSetting(q, p, e, value)
<1>1. PICK t : t = set_once(e, value)
  OBVIOUS
<1>2. /\ IsProgram(t) /\ Len(t) = 2 /\ t[1] = WriteOf(Value(e, value)) /\ t[2] = ConfirmOf(e, value)
      /\ Steps(t) = Setting(e, value)
  BY <1>1, SetOnceIs
<1>3. /\ IsProgram(q) /\ Len(q) = Len(p) + Len(t)
      /\ \A i \in 1 .. Len(p) : q[i] = p[i]
      /\ \A i \in 1 .. Len(t) : q[Len(p) + i] = t[i]
      /\ Steps(q) = Steps(p) \cup Steps(t)
  <2>1. IsProgram(p) /\ IsProgram(t) /\ q = p \o t
    BY <1>1, <1>2
  <2>2. JoinOf(q, p, t)
    BY <2>1, Joined
  <2> QED BY <2>2 DEF JoinOf
<1>4. PICK n \in Nat : n = Len(p) /\ Len(q) = n + 2
  BY <1>2, <1>3 DEF IsProgram
<1>5. 1 \in 1 .. 2 /\ 2 \in 1 .. 2
  OBVIOUS
<1>6. q[n + 1] = WriteOf(Value(e, value)) /\ q[n + 2] = ConfirmOf(e, value)
  BY <1>2, <1>3, <1>4, <1>5
<1>7. ASSUME NEW i \in 1 .. n + 2, i # n + 2, q[i].do = "confirm" PROVE q[i] \in Steps(p)
  <2>1. i # n + 1
    <3>1. WriteOf(Value(e, value)).do = "write"
      BY StepIs DEF WriteOf
    <3>2. q[n + 1].do # "confirm"
      BY <1>6, <3>1
    <3> QED BY <1>7, <3>2
  <2>2. i \in 1 .. n
    BY <1>7, <2>1
  <2> QED BY <1>3, <1>4, <2>2 DEF Steps
<1>8. q # <<>>
  BY <1>4
<1> QED BY <1>2, <1>3, <1>4, <1>6, <1>7, <1>8 DEF EndsSetting

\* No write of the direction before a check of the matrices, in one program behind another.
LEMMA OrderedBehind ==
  ASSUME NEW s, NEW t, IsProgram(s), IsProgram(t), Ordered(s), Ordered(t),
         (\A a \in Steps(s) : ~DrivesMatrix(a)) \/ (\A b \in Steps(t) : ~ChecksMatrix(b))
  PROVE  Ordered(s \o t)
<1>1. PICK w : w = s \o t
  OBVIOUS
<1>2. /\ Len(w) = Len(s) + Len(t)
      /\ \A i \in 1 .. Len(s) : w[i] = s[i]
      /\ \A i \in 1 .. Len(t) : w[Len(s) + i] = t[i]
  <2>1. JoinOf(w, s, t)
    BY <1>1, Joined
  <2> QED BY <2>1 DEF JoinOf
<1>3. PICK m \in Nat, n \in Nat : m = Len(s) /\ n = Len(t) /\ Len(w) = m + n
  BY <1>2 DEF IsProgram
<1>4. ASSUME NEW i \in 1 .. m + n, NEW j \in 1 .. m + n, i < j, DrivesMatrix(w[i])
      PROVE  ~ChecksMatrix(w[j])
  <2>1. CASE j \in 1 .. m
    <3>1. i \in 1 .. m
      BY <1>4, <2>1
    <3> QED BY <1>2, <1>3, <1>4, <2>1, <3>1 DEF Ordered
  <2>2. CASE i \notin 1 .. m
    <3>1. PICK k \in 1 .. n, l \in 1 .. n : k = i - m /\ l = j - m /\ k < l /\ i = m + k /\ j = m + l
      BY <1>4, <2>2
    <3>2. w[i] = t[k] /\ w[j] = t[l]
      BY <1>2, <1>3, <3>1
    <3> QED BY <1>3, <1>4, <3>1, <3>2 DEF Ordered
  <2>3. CASE i \in 1 .. m /\ j \notin 1 .. m
    <3>1. PICK l \in 1 .. n : l = j - m /\ j = m + l
      BY <2>3
    <3>2. w[i] \in Steps(s) /\ w[j] \in Steps(t)
      BY <1>2, <1>3, <2>3, <3>1 DEF Steps
    <3> QED BY <1>4, <3>2
  <2> QED BY <2>1, <2>2, <2>3
<1> QED BY <1>1, <1>3, <1>4 DEF Ordered

\* RESET of a chip.
LEMMA ResetStepsAre ==
  ASSUME NEW e \in Elements, e \in Resettable, NEW value \in VALUES, NEW q, q = ResetSteps(e, value),
         section_code \in [Elements -> VALUES],
         NEW image, image = [m \in Matrix |-> section_code[m]]
  PROVE  /\ IsProgram(q) /\ q # <<>> /\ q[Len(q)] = ConfirmOf(e, value)
         /\ Steps(q) = {Plain("release")}
                         \cup (IF e = "poth" THEN Checking(Value("wiper", "free"))
                               ELSE Checking(image) \cup Checking(Value("direction", "out")))
                         \cup Setting(e, value)
         /\ \A s \in Steps(q) : StepOK(s)
         /\ \A i \in 1 .. Len(q) : i # Len(q) => q[i].do # "confirm"
         /\ Ordered(q)
<1> DEFINE a == <<Plain("release")>>
           b == IF e = "poth" THEN ad_init ELSE matrix_init(image)
           during == IF e = "poth" THEN Checking(Value("wiper", "free"))
                     ELSE Checking(image) \cup Checking(Value("direction", "out"))
           c == set_once(e, value)
<1>1. q = (a \o b) \o c
  BY DEF ResetSteps
<1>2. IsProgram(a) /\ Steps(a) = {Plain("release")} /\ Len(a) = 1 /\ a[1] = Plain("release")
  BY OneStep
<1>3. IsProgram(b) /\ Steps(b) = during
  <2>1. CASE e = "poth"
    BY <2>1, CheckedIs DEF ad_init
  <2>2. CASE e # "poth"
    BY <2>2, MatrixInitIs
  <2> QED BY <2>1, <2>2
<1>4. \A s \in during : StepOK(s) /\ s.do # "confirm"
  <2>1. DOMAIN image = Matrix /\ \A m \in Matrix : image[m] \in VALUES
    BY Names
  <2>2. \A s \in Checking(image) : StepOK(s)
    BY <2>1, ImageOK
  <2>3. \A to : \A s \in Checking(to) : s.do # "confirm"
    BY StepIs DEF Checking, WriteOf, CheckOf
  <2> QED BY <2>2, <2>3, PinsOK
<1>5. StepOK(Plain("release")) /\ Plain("release").do = "release"
  BY StepIs DEF StepOK, Plain
<1>6. Ordered(b)
  <2>1. CASE e = "poth"
    <3>1. DOMAIN Value("wiper", "free") = {"wiper"} /\ "wiper" \notin Matrix
      BY ValueIs, Names
    <3>2. \A s \in Steps(b) : ~ChecksMatrix(s)
      BY <1>3, <2>1, <3>1, StepIs DEF Checking, ChecksMatrix, WriteOf, CheckOf
    <3> QED BY <3>2 DEF Ordered, Steps
  <2>2. CASE e # "poth"
    <3>1. PICK w : w = matrix_init(image)
      OBVIOUS
    <3>2. /\ Len(w) = 4 /\ w[1] = WriteOf(image) /\ w[2] = CheckOf(image)
          /\ w[3] = WriteOf(Value("direction", "out")) /\ w[4] = CheckOf(Value("direction", "out"))
      BY <3>1, MatrixInitIs
    <3>3. DOMAIN Value("direction", "out") = {"direction"} /\ "direction" \notin Matrix /\ DOMAIN image = Matrix
      BY ValueIs, Names
    <3>4. ~DrivesMatrix(w[1]) /\ ~DrivesMatrix(w[2]) /\ ~ChecksMatrix(w[4])
      BY <3>2, <3>3, StepIs DEF DrivesMatrix, ChecksMatrix, WriteOf, CheckOf
    <3>5. \A i \in 1 .. 4, j \in 1 .. 4 : i < j => i = 1 \/ i = 2 \/ (i = 3 /\ j = 4)
      OBVIOUS
    <3>6. Ordered(w)
      BY <3>2, <3>4, <3>5 DEF Ordered
    <3> QED BY <2>2, <3>1, <3>6
  <2> QED BY <2>1, <2>2
<1>7. Ordered(a) /\ Ordered(c)
  <2>1. \A i \in 1 .. 1, j \in 1 .. 1 : ~(i < j)
    OBVIOUS
  <2>2. Ordered(a)
    BY <1>2, <2>1 DEF Ordered
  <2>3. \A s \in Steps(c) : ~ChecksMatrix(s)
    BY SetOnceIs, StepIs DEF Setting, ChecksMatrix, WriteOf, ConfirmOf
  <2>4. Ordered(c)
    BY <2>3 DEF Ordered, Steps
  <2> QED BY <2>2, <2>4
<1>8. \A s \in Steps(a) : ~DrivesMatrix(s)
  BY <1>2, <1>5 DEF DrivesMatrix
<1>9. \A s \in Steps(c) : ~ChecksMatrix(s)
  BY SetOnceIs, StepIs DEF Setting, ChecksMatrix, WriteOf, ConfirmOf
<1>10. IsProgram(c) /\ Steps(c) = Setting(e, value)
  BY SetOnceIs
<1> HIDE DEF a, b
<1>11. PICK p : p = a \o b /\ IsProgram(p) /\ Steps(p) = Steps(a) \cup Steps(b) /\ Ordered(p)
  <2>1. JoinOf(a \o b, a, b)
    BY <1>2, <1>3, Joined
  <2>2. Ordered(a \o b)
    BY <1>2, <1>3, <1>6, <1>7, <1>8, OrderedBehind
  <2> QED BY <2>1, <2>2 DEF JoinOf
<1>12. /\ IsProgram(q) /\ q # <<>> /\ q[Len(q)] = ConfirmOf(e, value)
       /\ \A i \in 1 .. Len(q) : i # Len(q) /\ q[i].do = "confirm" => q[i] \in Steps(p)
       /\ Steps(q) = Steps(p) \cup Setting(e, value)
  <2>1. q = p \o set_once(e, value)
    BY <1>1, <1>11
  <2> HIDE DEF c
  <2>2. IsProgram(p)
    BY <1>11
  <2>3. EndsSetting(q, p, e, value)
    BY <2>1, <2>2, ThenSet
  <2> QED BY <2>3 DEF EndsSetting
<1> HIDE DEF c
<1>13. Ordered(q)
  BY <1>1, <1>7, <1>9, <1>10, <1>11, OrderedBehind
<1>14. \A s \in Setting(e, value) : StepOK(s)
  BY SettingOK
<1>15. \A s \in Steps(p) : StepOK(s) /\ s.do # "confirm"
  BY <1>2, <1>3, <1>4, <1>5, <1>11
<1>16. Steps(q) = {Plain("release")} \cup during \cup Setting(e, value)
  BY <1>2, <1>3, <1>11, <1>12
<1> HIDE DEF during
<1>17. /\ \A s \in Steps(q) : StepOK(s)
       /\ \A i \in 1 .. Len(q) : i # Len(q) => q[i].do # "confirm"
  BY <1>12, <1>14, <1>15
<1> QED BY <1>12, <1>13, <1>16, <1>17 DEF during

-----------------------------------------------------------------------------
(* A step of an operation is done.                                         *)

\* Registers with some of them changed.
LEMMA OverIs ==
  ASSUME NEW to, NEW registers
  PROVE  /\ Over(to, registers) = [r \in DOMAIN registers |-> Over(to, registers)[r]]
         /\ DOMAIN Over(to, registers) = DOMAIN registers
         /\ \A r \in DOMAIN registers :
              Over(to, registers)[r] = IF r \in DOMAIN to THEN to[r] ELSE registers[r]
BY DEF Over

\* Some registers have changed: what is left in the type.
LEMMA ChipType ==
  ASSUME NEW before, NEW after, before = [r \in Registers |-> before[r]],
         \A e \in Elements : before[e] \in VALUES,
         before["wiper"] \in {"locked", "free"}, before["direction"] \in {"in", "out"},
         after = [r \in Registers |-> after[r]],
         \A e \in Elements : after[e] = before[e] \/ after[e] \in VALUES,
         after["wiper"] = before["wiper"] \/ after["wiper"] \in {"locked", "free"},
         after["direction"] = before["direction"] \/ after["direction"] \in {"in", "out"}
  PROVE  /\ DOMAIN after = Elements \cup Resettable
         /\ \A e \in Elements : after[e] \in VALUES
         /\ after["wiper"] \in {"locked", "free"} /\ after["direction"] \in {"in", "out"}
BY DEF Registers

\* What a step may have written.
Wrote(s, r, value) ==
  \/ s.do = "write" /\ r \in DOMAIN s.to /\ value = s.to[r]
  \/ s.do = "power" /\ r \in {"pot1", "pot2"} /\ value = DEFAULT

\* The step s is taken.
Did(s) ==
  /\ work # <<>> /\ StepOK(s) /\ s = work[1] /\ Steps(work) = {s} \cup Steps(work')
  /\ IsProgram(work') /\ Len(work') = Len(work) - 1 /\ Len(work) \in Nat
  /\ \A i \in 1 .. Len(work') : work'[i] = work[i + 1]
  /\ work' = <<>> <=> Len(work) = 1
  /\ UNCHANGED <<op, failed, stopped, answer, restarted, known>>
  /\ chip' = [r \in Registers |-> chip'[r]]
  /\ \A r \in Registers : chip'[r] = chip[r] \/ Wrote(s, r, chip'[r])
  /\ s.do \in {"check", "confirm"} => \A r \in DOMAIN s.to : chip'[r] = s.to[r]
  /\ section_code' = [e \in Elements |-> section_code'[e]]
  /\ \A e \in Elements :
       section_code'[e] = IF s.do = "confirm" /\ e \in DOMAIN s.to THEN s.to[e] ELSE section_code[e]
  /\ powered' \in BOOLEAN /\ (powered' <=> powered \/ s.do = "power")
  /\ held' = IF s.do = "release" THEN {} ELSE held
  /\ section_on' \in BOOLEAN /\ (section_on' <=> section_on \/ s.do = "on")

\* A write changes nothing but the registers it names.
LEMMA EffectIs ==
  ASSUME NEW to, Typed
  PROVE  /\ Effect(to) = [r \in Registers |-> Effect(to)[r]]
         /\ \A r \in Registers : Effect(to)[r] = chip[r] \/ (r \in DOMAIN to /\ Effect(to)[r] = to[r])
<1>1. DOMAIN chip = Registers /\ chip = [r \in Registers |-> chip[r]]
  BY DEF Typed
<1>2. CASE "poth" \in DOMAIN to /\ chip["wiper"] = "locked"
  BY <1>1, <1>2 DEF Effect
<1>3. CASE ~("poth" \in DOMAIN to /\ chip["wiper"] = "locked")
  <2>1. Effect(to) = Over(to, chip)
    BY <1>3 DEF Effect
  <2> QED BY <1>1, <2>1, OverIs
<1> QED BY <1>2, <1>3

\* Each kind of step does what Did says of it.
LEMMA DidIs ==
  ASSUME Typed, StepDone
  PROVE  Did(Head(work))
<1>1. PICK s : s = Head(work)
  OBVIOUS
<1>2. /\ work # <<>> /\ work' = Tail(work)
      /\ UNCHANGED <<op, failed, stopped, answer, restarted, known>>
  BY DEF StepDone, history
<1>3. /\ s = work[1] /\ Steps(work) = {s} \cup Steps(work')
      /\ IsProgram(work') /\ Len(work') = Len(work) - 1
      /\ \A i \in 1 .. Len(work') : work'[i] = work[i + 1]
      /\ work' = <<>> <=> Len(work) = 1
  BY <1>1, <1>2, FirstStep DEF Typed
<1>4. Len(work) \in Nat /\ StepOK(s)
  BY <1>3 DEF Typed, IsProgram
<1>5. /\ chip = [r \in Registers |-> chip[r]] /\ DOMAIN chip = Registers
      /\ section_code \in [Elements -> VALUES \cup {UNKNOWN}]
      /\ powered \in BOOLEAN /\ section_on \in BOOLEAN
  BY DEF Typed, TypeOK, Registers
<1>6. CASE s.do = "power" /\ PowerStep
  <2>1. PICK kept \in SUBSET {"pot1", "pot2"} :
          chip' = Over([e \in {"pot1", "pot2"} \ kept |-> DEFAULT], chip)
    BY <1>6 DEF PowerStep
  <2>2. PICK to : to = [e \in {"pot1", "pot2"} \ kept |-> DEFAULT]
    OBVIOUS
  <2>3. chip' = Over(to, chip) /\ DOMAIN to = {"pot1", "pot2"} \ kept /\ \A r \in DOMAIN to : to[r] = DEFAULT
    BY <2>1, <2>2
  <2>4. /\ chip' = [r \in Registers |-> chip'[r]]
        /\ \A r \in Registers : chip'[r] = chip[r] \/ Wrote(s, r, chip'[r])
    BY <1>5, <1>6, <2>3, OverIs DEF Wrote
  <2>5. UNCHANGED <<held, section_on, section_code>> /\ powered' = TRUE
    BY <1>6 DEF PowerStep
  <2> QED BY <1>1, <1>2, <1>3, <1>4, <1>5, <1>6, <2>4, <2>5 DEF Did
<1>7. CASE s.do = "release" /\ ReleaseStep
  BY <1>1, <1>2, <1>3, <1>4, <1>5, <1>7 DEF Did, ReleaseStep
<1>8. CASE s.do = "write" /\ WriteStep(s.to)
  <2>1. chip' = Effect(s.to) /\ UNCHANGED <<powered, held, section_on, section_code>>
    BY <1>8 DEF WriteStep
  <2>2. /\ chip' = [r \in Registers |-> chip'[r]]
        /\ \A r \in Registers : chip'[r] = chip[r] \/ Wrote(s, r, chip'[r])
    BY <1>8, <2>1, EffectIs DEF Wrote
  <2> QED BY <1>1, <1>2, <1>3, <1>4, <1>5, <1>8, <2>1, <2>2 DEF Did
<1>9. CASE s.do = "check" /\ CheckStep(s.to)
  <2>1. UNCHANGED <<powered, held, chip, section_on, section_code>> /\ \A r \in DOMAIN s.to : chip[r] = s.to[r]
    BY <1>9 DEF CheckStep, Matches, board
  <2> QED BY <1>1, <1>2, <1>3, <1>4, <1>5, <1>9, <2>1 DEF Did
<1>10. CASE s.do = "confirm" /\ ConfirmStep(s.to)
  <2>1. /\ UNCHANGED <<powered, held, chip, section_on>> /\ \A r \in DOMAIN s.to : chip[r] = s.to[r]
        /\ section_code' = Over(s.to, section_code)
    BY <1>10 DEF ConfirmStep, Matches
  <2>2. DOMAIN section_code = Elements
    BY <1>5
  <2>3. /\ section_code' = [e \in Elements |-> section_code'[e]]
        /\ \A e \in Elements :
             section_code'[e] = IF e \in DOMAIN s.to THEN s.to[e] ELSE section_code[e]
    BY <2>1, <2>2, OverIs
  <2> QED BY <1>1, <1>2, <1>3, <1>4, <1>5, <1>10, <2>1, <2>3 DEF Did
<1>11. CASE s.do = "ack" /\ UNCHANGED board
  BY <1>1, <1>2, <1>3, <1>4, <1>5, <1>11 DEF Did, board
<1>12. CASE s.do = "on" /\ OnStep
  BY <1>1, <1>2, <1>3, <1>4, <1>5, <1>12 DEF Did, OnStep
<1>13. \/ s.do = "power" /\ PowerStep
       \/ s.do = "release" /\ ReleaseStep
       \/ s.do = "write" /\ WriteStep(s.to)
       \/ s.do = "check" /\ CheckStep(s.to)
       \/ s.do = "confirm" /\ ConfirmStep(s.to)
       \/ s.do = "ack" /\ UNCHANGED board
       \/ s.do = "on" /\ OnStep
  BY <1>1 DEF StepDone
<1> QED BY <1>6, <1>7, <1>8, <1>9, <1>10, <1>11, <1>12, <1>13

\* What the steps hold.
LEMMA ConfirmIs ==
  ASSUME NEW e, NEW value, NEW s, s = ConfirmOf(e, value)
  PROVE  s.do = "confirm" /\ DOMAIN s.to = {e} /\ s.to[e] = value
<1>1. DOMAIN Value(e, value) = {e} /\ Value(e, value)[e] = value
  BY ValueIs
<1>2. s.do = "confirm" /\ s.to = Value(e, value)
  BY StepIs DEF ConfirmOf
<1> QED BY <1>1, <1>2

LEMMA CheckIs ==
  ASSUME NEW r, NEW value, NEW s, s = CheckOf(Value(r, value))
  PROVE  s.do = "check" /\ DOMAIN s.to = {r} /\ s.to[r] = value
<1>1. DOMAIN Value(r, value) = {r} /\ Value(r, value)[r] = value
  BY ValueIs
<1>2. s.do = "check" /\ s.to = Value(r, value)
  BY StepIs DEF CheckOf
<1> QED BY <1>1, <1>2

LEMMA PlainIs == \A do : Plain(do).do = do
BY StepIs DEF Plain

\* A step that is done keeps the types.
LEMMA DoneTyped ==
  ASSUME SectionsInv, NEW s, Did(s)
  PROVE  Typed'
<1>1. /\ chip = [r \in Registers |-> chip[r]]
      /\ \A e \in Elements : chip[e] \in VALUES
      /\ chip["wiper"] \in {"locked", "free"} /\ chip["direction"] \in {"in", "out"}
      /\ section_code \in [Elements -> VALUES \cup {UNKNOWN}]
      /\ held \in SUBSET Resettable
  BY DEF SectionsInv, Typed, TypeOK
<1>2. Elements \subseteq Registers /\ {"wiper", "direction"} \subseteq Registers
      /\ "wiper" \notin {"pot1", "pot2"} /\ "direction" \notin {"pot1", "pot2"}
  BY Names
<1>3. chip' = [r \in Registers |-> chip'[r]] /\ \A r \in Registers : chip'[r] = chip[r] \/ Wrote(s, r, chip'[r])
  BY DEF Did
<1>4. /\ StepOK(s)
  BY DEF Did
<1>5. \A e \in Elements : chip'[e] = chip[e] \/ chip'[e] \in VALUES
  BY <1>2, <1>3, <1>4, SectionsAssumption DEF StepOK, Wrote
<1>6. chip'["wiper"] = chip["wiper"] \/ chip'["wiper"] \in {"locked", "free"}
  BY <1>2, <1>3, <1>4 DEF StepOK, Wrote
<1>7. chip'["direction"] = chip["direction"] \/ chip'["direction"] \in {"in", "out"}
  BY <1>2, <1>3, <1>4 DEF StepOK, Wrote
<1>8. /\ DOMAIN chip' = Elements \cup Resettable
      /\ \A e \in Elements : chip'[e] \in VALUES
      /\ chip'["wiper"] \in {"locked", "free"} /\ chip'["direction"] \in {"in", "out"}
  <2>1. PICK before, after : before = chip /\ after = chip'
    OBVIOUS
  <2>2. /\ before = [r \in Registers |-> before[r]]
        /\ \A e \in Elements : before[e] \in VALUES
        /\ before["wiper"] \in {"locked", "free"} /\ before["direction"] \in {"in", "out"}
        /\ after = [r \in Registers |-> after[r]]
    BY <1>1, <1>3, <2>1
  <2>3. /\ \A e \in Elements : after[e] = before[e] \/ after[e] \in VALUES
        /\ after["wiper"] = before["wiper"] \/ after["wiper"] \in {"locked", "free"}
        /\ after["direction"] = before["direction"] \/ after["direction"] \in {"in", "out"}
    BY <1>5, <1>6, <1>7, <2>1
  <2>4. /\ DOMAIN after = Elements \cup Resettable
        /\ \A e \in Elements : after[e] \in VALUES
        /\ after["wiper"] \in {"locked", "free"} /\ after["direction"] \in {"in", "out"}
    BY <2>2, <2>3, ChipType
  <2> QED BY <2>1, <2>4
<1>9. section_code' \in [Elements -> VALUES \cup {UNKNOWN}]
  <2>1. \A e \in Elements : section_code'[e] \in VALUES \cup {UNKNOWN}
    BY <1>1, <1>4 DEF Did, StepOK
  <2> QED BY <2>1 DEF Did
<1>10. held' \in SUBSET Resettable
  BY <1>1 DEF Did
<1>11. TypeOK'
  <2>1. /\ UNCHANGED <<op, failed, stopped, answer, restarted, known>>
        /\ powered' \in BOOLEAN /\ section_on' \in BOOLEAN
    BY DEF Did
  <2>2. /\ known \in [Elements -> VALUES \cup {UNKNOWN}]
        /\ op \in [e : Elements, value : VALUES, attempt : 0 .. I2C_RETRIES,
                   stage : {"idle", "power_on", "set", "reset", "power"}]
        /\ failed \in BOOLEAN /\ stopped \in BOOLEAN /\ restarted \in BOOLEAN
        /\ answer \in {"none", "set", "on", "err"}
    BY DEF SectionsInv, Typed, TypeOK
  <2> QED BY <1>8, <1>9, <1>10, <2>1, <2>2, Zenon DEF TypeOK
<1>12. IsProgram(work') /\ \A t \in Steps(work') : StepOK(t)
  BY DEF Did, SectionsInv, Typed
<1>13. IsProgram(work)' /\ (\A t \in Steps(work) : StepOK(t))'
  BY <1>12 DEF IsProgram, Steps, StepOK
<1> QED BY <1>3, <1>11, <1>13 DEF Typed

\* A step that is done brings what it was there to bring.
LEMMA DoneUnderWay ==
  ASSUME SectionsInv, NEW s, Did(s), ~Idle
  PROVE  UnderWay'
<1>1. /\ powered \/ Plain("power") \in Steps(work)
      /\ held = {} \/ Plain("release") \in Steps(work)
      /\ chip["wiper"] = "free" \/ CheckOf(Value("wiper", "free")) \in Steps(work)
      /\ chip["direction"] = "out" \/ CheckOf(Value("direction", "out")) \in Steps(work)
      /\ section_on \/ Plain("on") \in Steps(work)
  BY DEF SectionsInv, UnderWay
<1>2. Steps(work) = {s} \cup Steps(work') /\ StepOK(s)
  BY DEF Did
<1>3. {"wiper", "direction"} \subseteq Registers
      /\ "wiper" \notin {"pot1", "pot2"} /\ "direction" \notin {"pot1", "pot2"}
  BY Names
<1>4. powered' \/ Plain("power") \in Steps(work')
  BY <1>1, <1>2, PlainIs DEF Did
<1>5. held' = {} \/ Plain("release") \in Steps(work')
  BY <1>1, <1>2, PlainIs DEF Did
<1>6. section_on' \/ Plain("on") \in Steps(work')
  BY <1>1, <1>2, PlainIs DEF Did
<1>7. chip'["wiper"] = "free" \/ CheckOf(Value("wiper", "free")) \in Steps(work')
  <2>1. CASE s = CheckOf(Value("wiper", "free"))
    BY <2>1, CheckIs DEF Did
  <2>2. CASE chip["wiper"] = "free"
    BY <1>2, <1>3, <2>2 DEF Did, Wrote, StepOK
  <2> QED BY <1>1, <1>2, <2>1, <2>2
<1>8. chip'["direction"] = "out" \/ CheckOf(Value("direction", "out")) \in Steps(work')
  <2>1. CASE s = CheckOf(Value("direction", "out"))
    BY <2>1, CheckIs DEF Did
  <2>2. CASE chip["direction"] = "out"
    BY <1>2, <1>3, <2>2 DEF Did, Wrote, StepOK
  <2> QED BY <1>1, <1>2, <2>1, <2>2
<1> QED BY <1>4, <1>5, <1>6, <1>7, <1>8 DEF UnderWay, Steps, Plain, Step, CheckOf, Value

\* The last step of RES:SET is the confirmation of its code.
LEMMA DoneEnds ==
  ASSUME SectionsInv, NEW s, Did(s)
  PROVE  Ends'
<1> SUFFICES ASSUME (op.stage \in {"set", "reset", "power"})'
             PROVE  (/\ work = <<>> => chip[op.e] = op.value /\ section_code[op.e] = op.value
                     /\ work # <<>> => work[Len(work)] = ConfirmOf(op.e, op.value)
                     /\ \A i \in 1 .. Len(work) : i # Len(work) /\ work[i].do = "confirm" =>
                          op.stage = "power" /\ \A e \in DOMAIN work[i].to : work[i].to[e] = DEFAULT)'
  BY DEF Ends
<1>1. op' = op /\ op.stage \in {"set", "reset", "power"} /\ work # <<>> /\ s = work[1]
  BY DEF Did
<1>2. /\ work[Len(work)] = ConfirmOf(op.e, op.value)
      /\ \A i \in 1 .. Len(work) : i # Len(work) /\ work[i].do = "confirm" =>
           op.stage = "power" /\ \A e \in DOMAIN work[i].to : work[i].to[e] = DEFAULT
  BY <1>1 DEF SectionsInv, Ends
<1>3. PICK n \in Nat : n = Len(work') /\ Len(work) = n + 1
  BY DEF Did, IsProgram
<1>4. /\ \A i \in 1 .. n : work'[i] = work[i + 1]
      /\ work' = <<>> <=> n + 1 = 1
  BY <1>3 DEF Did
<1>5. ASSUME work' = <<>> PROVE chip'[op.e] = op.value /\ section_code'[op.e] = op.value
  <2>1. s = ConfirmOf(op.e, op.value)
    BY <1>1, <1>2, <1>3, <1>4, <1>5
  <2>2. s.do = "confirm" /\ DOMAIN s.to = {op.e} /\ s.to[op.e] = op.value
    BY <2>1, ConfirmIs
  <2>3. op.e \in Elements
    BY DEF SectionsInv, Typed, TypeOK
  <2> QED BY <2>2, <2>3 DEF Did
<1>6. ASSUME work' # <<>> PROVE work'[n] = ConfirmOf(op.e, op.value)
  <2>1. n # 0
    BY <1>4, <1>6
  <2>2. n \in 1 .. n
    BY <2>1
  <2> QED BY <1>2, <1>3, <1>4, <2>2
<1>7. ASSUME NEW i \in 1 .. n, i # n, work'[i].do = "confirm"
      PROVE  op.stage = "power" /\ \A e \in DOMAIN work'[i].to : work'[i].to[e] = DEFAULT
  <2>1. i + 1 \in 1 .. n + 1 /\ i + 1 # n + 1
    BY <1>7
  <2> QED BY <1>2, <1>3, <1>4, <1>7, <2>1
<1> QED BY <1>1, <1>3, <1>5, <1>6, <1>7 DEF ConfirmOf, Step, Value

\* A step of a power-up.
LEMMA DoneLost ==
  ASSUME SectionsInv, NEW s, Did(s)
  PROVE  Lost'
<1> SUFFICES ASSUME (op.stage \in {"power_on", "power"})'
             PROVE  (/\ op.stage = "power" => restarted
                     /\ \A e \in Elements : e # op.e \/ op.stage = "power_on" =>
                          \/ section_code[e] = DEFAULT /\ chip[e] = DEFAULT
                          \/ ConfirmOf(e, DEFAULT) \in Steps(work)
                     /\ \A t \in Steps(work) : t.do \in {"write", "confirm"} =>
                          \A e \in DOMAIN t.to \cap Elements :
                            t.to[e] = DEFAULT \/ (op.stage = "power" /\ e = op.e /\ t.to[e] = op.value)
                     /\ \A m \in Matrix :
                          /\ chip[m] = DEFAULT \/ (op.stage = "power" /\ op.e = m /\ chip[m] = op.value)
                          /\ section_code[m] \in {UNKNOWN, DEFAULT}
                               \/ (op.stage = "power" /\ op.e = m /\ work = <<>>))'
  BY DEF Lost
<1>1. op' = op /\ restarted' = restarted /\ op.stage \in {"power_on", "power"} /\ work # <<>> /\ s = work[1]
  BY DEF Did
<1>2. /\ op.stage = "power" => restarted
      /\ \A e \in Elements : e # op.e \/ op.stage = "power_on" =>
           \/ section_code[e] = DEFAULT /\ chip[e] = DEFAULT
           \/ ConfirmOf(e, DEFAULT) \in Steps(work)
      /\ \A t \in Steps(work) : t.do \in {"write", "confirm"} =>
           \A e \in DOMAIN t.to \cap Elements :
             t.to[e] = DEFAULT \/ (op.stage = "power" /\ e = op.e /\ t.to[e] = op.value)
      /\ \A m \in Matrix :
           /\ chip[m] = DEFAULT \/ (op.stage = "power" /\ op.e = m /\ chip[m] = op.value)
           /\ section_code[m] \in {UNKNOWN, DEFAULT} \/ (op.stage = "power" /\ op.e = m /\ work = <<>>)
  BY <1>1 DEF SectionsInv, Lost
<1>3. Steps(work) = {s} \cup Steps(work')
  BY DEF Did
<1>4. Elements \subseteq Registers /\ Matrix \subseteq Elements
  BY Names
<1>5. s.do \in {"write", "confirm"} =>
        \A e \in DOMAIN s.to \cap Elements :
          s.to[e] = DEFAULT \/ (op.stage = "power" /\ e = op.e /\ s.to[e] = op.value)
  BY <1>2, <1>3
<1>6. \A e \in Elements : chip'[e] \in {chip[e], DEFAULT} \/ (op.stage = "power" /\ e = op.e /\ chip'[e] = op.value)
  BY <1>4, <1>5 DEF Did, Wrote
<1>7. \A e \in Elements : section_code'[e] = IF s.do = "confirm" /\ e \in DOMAIN s.to THEN s.to[e] ELSE section_code[e]
  BY DEF Did
<1>8. ASSUME NEW e \in Elements, e # op.e \/ op.stage = "power_on"
      PROVE  (section_code'[e] = DEFAULT /\ chip'[e] = DEFAULT) \/ ConfirmOf(e, DEFAULT) \in Steps(work')
  <2>1. op.stage = "power_on" => op.stage # "power"
    OBVIOUS
  <2>2. chip'[e] \in {chip[e], DEFAULT}
    BY <1>6, <1>8, <2>1
  <2>3. CASE section_code[e] = DEFAULT /\ chip[e] = DEFAULT
    BY <1>5, <1>7, <1>8, <2>1, <2>2, <2>3
  <2>4. CASE s = ConfirmOf(e, DEFAULT)
    <3>1. s.do = "confirm" /\ DOMAIN s.to = {e} /\ s.to[e] = DEFAULT
      BY <2>4, ConfirmIs
    <3> QED BY <1>7, <3>1 DEF Did
  <2> QED BY <1>2, <1>3, <1>8, <2>3, <2>4
<1>9. ASSUME NEW m \in Matrix
      PROVE  chip'[m] = DEFAULT \/ (op.stage = "power" /\ op.e = m /\ chip'[m] = op.value)
  BY <1>2, <1>4, <1>6, <1>9
<1>10. ASSUME NEW m \in Matrix
       PROVE  section_code'[m] \in {UNKNOWN, DEFAULT} \/ (op.stage = "power" /\ op.e = m /\ work' = <<>>)
  <2>1. section_code[m] \in {UNKNOWN, DEFAULT}
    BY <1>1, <1>2
  <2>2. CASE s.do = "confirm" /\ m \in DOMAIN s.to
    <3>1. PICK n \in Nat : n = Len(work) /\ n # 0
      BY <1>1 DEF Did, IsProgram
    <3>2. 1 \in 1 .. n
      BY <3>1
    <3>3. CASE n = 1
      BY <1>4, <1>5, <1>7, <2>2, <3>1, <3>3 DEF Did
    <3>4. CASE n # 1
      <4>1. s.to[m] = DEFAULT
        <5>1. CASE op.stage = "power_on"
          <6>1. op.stage # "power"
            BY <5>1
          <6> QED BY <1>4, <1>5, <2>2, <6>1
        <5>2. CASE op.stage = "power"
          BY <1>1, <2>2, <3>1, <3>2, <3>4, <5>2 DEF SectionsInv, Ends
        <5> QED BY <1>1, <5>1, <5>2
      <4> QED BY <1>4, <1>7, <2>2, <4>1
    <3> QED BY <3>3, <3>4
  <2>3. CASE ~(s.do = "confirm" /\ m \in DOMAIN s.to)
    BY <1>4, <1>7, <2>1, <2>3
  <2> QED BY <2>2, <2>3
<1>11. (op.stage = "power" => restarted)'
  BY <1>1, <1>2
<1>12. (\A e \in Elements : e # op.e \/ op.stage = "power_on" =>
           \/ section_code[e] = DEFAULT /\ chip[e] = DEFAULT
           \/ ConfirmOf(e, DEFAULT) \in Steps(work))'
  BY <1>1, <1>8 DEF ConfirmOf, Step, Value, Steps
<1>13. (\A t \in Steps(work) : t.do \in {"write", "confirm"} =>
           \A e \in DOMAIN t.to \cap Elements :
             t.to[e] = DEFAULT \/ (op.stage = "power" /\ e = op.e /\ t.to[e] = op.value))'
  <2>1. \A t \in Steps(work') : t.do \in {"write", "confirm"} =>
          \A e \in DOMAIN t.to \cap Elements :
            t.to[e] = DEFAULT \/ (op.stage = "power" /\ e = op.e /\ t.to[e] = op.value)
    BY <1>2, <1>3
  <2> QED BY <1>1, <2>1 DEF Steps
<1>14. (\A m \in Matrix :
           /\ chip[m] = DEFAULT \/ (op.stage = "power" /\ op.e = m /\ chip[m] = op.value)
           /\ section_code[m] \in {UNKNOWN, DEFAULT}
                \/ (op.stage = "power" /\ op.e = m /\ work = <<>>))'
  BY <1>1, <1>9, <1>10
<1> QED BY <1>11, <1>12, <1>13, <1>14

\* A step of RES:SET before a restart: what it takes from the image left, it has shown.
LEMMA DoneKept ==
  ASSUME SectionsInv, NEW s, Did(s)
  PROVE  Kept'
<1> SUFFICES ASSUME (op.stage \in {"set", "reset"})'
             PROVE  (/\ ~restarted /\ section_code \in [Elements -> VALUES]
                     /\ \A e \in Elements \ {op.e} :
                          section_code[e] = known[e] /\ (chip[e] = section_code[e] \/ ImageLeft(e))
                     /\ op.e \in Matrix => chip[op.e] \in {section_code[op.e], op.value} \/ ImageLeft(op.e)
                     /\ \A t \in Steps(work) :
                          /\ t.do # "power"
                          /\ t.do \in {"write", "check"} =>
                               \A e \in DOMAIN t.to \cap Elements :
                                 t.to[e] = section_code[e] \/ (e = op.e /\ t.to[e] = op.value)
                          /\ t.do = "confirm" => t = ConfirmOf(op.e, op.value)
                     /\ op.stage = "set" => Steps(work) \subseteq Setting(op.e, op.value)
                     /\ Ordered(work)
                     /\ chip["direction"] = "out" => \A t \in Steps(work) : ~ChecksMatrix(t))'
  BY DEF Kept
<1>1. /\ op' = op /\ restarted' = restarted /\ known' = known /\ op.stage \in {"set", "reset"}
      /\ work # <<>> /\ s = work[1]
  BY DEF Did
<1>2. /\ ~restarted /\ section_code \in [Elements -> VALUES]
      /\ \A e \in Elements \ {op.e} :
           section_code[e] = known[e] /\ (chip[e] = section_code[e] \/ ImageLeft(e))
      /\ op.e \in Matrix => chip[op.e] \in {section_code[op.e], op.value} \/ ImageLeft(op.e)
      /\ \A t \in Steps(work) :
           /\ t.do # "power"
           /\ t.do \in {"write", "check"} =>
                \A e \in DOMAIN t.to \cap Elements :
                  t.to[e] = section_code[e] \/ (e = op.e /\ t.to[e] = op.value)
           /\ t.do = "confirm" => t = ConfirmOf(op.e, op.value)
      /\ op.stage = "set" => Steps(work) \subseteq Setting(op.e, op.value)
      /\ Ordered(work)
      /\ chip["direction"] = "out" => \A t \in Steps(work) : ~ChecksMatrix(t)
  BY <1>1 DEF SectionsInv, Kept
<1>3. Steps(work) = {s} \cup Steps(work')
  BY DEF Did
<1>4. /\ Elements \subseteq Registers /\ Matrix \subseteq Elements
      /\ "direction" \in Registers /\ "direction" \notin {"pot1", "pot2"}
  BY Names
<1>5. op.e \in Elements /\ op.value \in VALUES
  BY DEF SectionsInv, Typed, TypeOK
<1>6. PICK n \in Nat : n = Len(work') /\ Len(work) = n + 1
  BY DEF Did, IsProgram
<1>7. \A i \in 1 .. n : work'[i] = work[i + 1]
  BY <1>6 DEF Did
<1>8. s.do # "power"
  BY <1>2, <1>3
<1>9. s.do = "confirm" => /\ DOMAIN s.to = {op.e} /\ s.to[op.e] = op.value
                          /\ section_code'[op.e] = op.value /\ chip'[op.e] = op.value
  <2>1. s.do = "confirm" => s = ConfirmOf(op.e, op.value)
    BY <1>2, <1>3
  <2>2. s.do = "confirm" => DOMAIN s.to = {op.e} /\ s.to[op.e] = op.value
    BY <2>1, ConfirmIs
  <2> QED BY <1>5, <2>2 DEF Did
<1>10. s.do # "confirm" => \A e \in Elements : section_code'[e] = section_code[e]
  BY DEF Did
<1>11. \A e \in Elements \ {op.e} : section_code'[e] = section_code[e]
  BY <1>9 DEF Did
<1>12. s.do = "confirm" => Steps(work') = {}
  <2>1. ASSUME s.do = "confirm" PROVE n = 0
    <3>1. 1 \in 1 .. n + 1
      OBVIOUS
    <3>2. op.stage # "power"
      BY <1>1
    <3>3. 1 = n + 1
      BY <1>1, <1>6, <2>1, <3>1, <3>2 DEF SectionsInv, Ends
    <3> QED BY <3>3
  <2>2. n = 0 => Steps(work') = {}
    BY <1>6 DEF Steps
  <2> QED BY <2>1, <2>2
<1>13. \A r \in Registers : chip'[r] = chip[r] \/ (s.do = "write" /\ r \in DOMAIN s.to /\ chip'[r] = s.to[r])
  BY <1>8 DEF Did, Wrote
<1>14. ASSUME NEW e \in Elements,
              \E t \in Steps(work) : t.do = "check" /\ e \in DOMAIN t.to /\ t.to[e] = section_code[e]
       PROVE  \/ chip'[e] = section_code[e] /\ s.do = "check"
              \/ \E t \in Steps(work') : t.do = "check" /\ e \in DOMAIN t.to /\ t.to[e] = section_code[e]
  <2>1. PICK t \in Steps(work) : t.do = "check" /\ e \in DOMAIN t.to /\ t.to[e] = section_code[e]
    BY <1>14
  <2>2. CASE t = s
    BY <2>1, <2>2 DEF Did
  <2> QED BY <1>3, <2>1, <2>2
<1>15. \A e \in Elements :
         (ImageLeft(e))' <=> \E t \in Steps(work') : t.do = "check" /\ e \in DOMAIN t.to /\ t.to[e] = section_code'[e]
  BY DEF ImageLeft, Steps
<1>16. ASSUME NEW e \in Elements \ {op.e}
       PROVE  section_code'[e] = known[e] /\ (chip'[e] = section_code'[e] \/ (ImageLeft(e))')
  <2>1. section_code'[e] = section_code[e] /\ section_code[e] = known[e]
    BY <1>2, <1>11
  <2>2. CASE chip[e] = section_code[e]
    <3>1. chip'[e] = section_code[e]
      BY <1>2, <1>3, <1>4, <1>13, <2>2
    <3> QED BY <2>1, <3>1
  <2>3. CASE ImageLeft(e)
    <3>1. \E t \in Steps(work) : t.do = "check" /\ e \in DOMAIN t.to /\ t.to[e] = section_code[e]
      BY <2>3 DEF ImageLeft
    <3> QED BY <1>14, <1>15, <2>1, <3>1
  <2> QED BY <1>2, <2>1, <2>2, <2>3
<1>17. ASSUME op.e \in Matrix
       PROVE  chip'[op.e] \in {section_code'[op.e], op.value} \/ (ImageLeft(op.e))'
  <2>1. CASE s.do = "confirm"
    BY <1>9, <2>1
  <2>2. CASE s.do # "confirm" /\ chip[op.e] \in {section_code[op.e], op.value}
    BY <1>2, <1>3, <1>4, <1>5, <1>10, <1>13, <2>2
  <2>3. CASE s.do # "confirm" /\ ImageLeft(op.e)
    <3>1. \E t \in Steps(work) : t.do = "check" /\ op.e \in DOMAIN t.to /\ t.to[op.e] = section_code[op.e]
      BY <2>3 DEF ImageLeft
    <3>2. section_code'[op.e] = section_code[op.e]
      BY <1>5, <1>10, <2>3
    <3>3. \/ chip'[op.e] = section_code[op.e]
          \/ \E t \in Steps(work') : t.do = "check" /\ op.e \in DOMAIN t.to /\ t.to[op.e] = section_code[op.e]
      BY <1>5, <1>14, <3>1
    <3>4. PICK e \in Elements : e = op.e /\ e = op'.e
      BY <1>1, <1>5
    <3>5. ASSUME (ImageLeft(e))' PROVE (ImageLeft(op.e))'
      BY <3>4, <3>5 DEF ImageLeft
    <3> QED BY <1>1, <1>15, <3>2, <3>3, <3>4, <3>5
  <2> QED BY <1>2, <1>17, <2>1, <2>2, <2>3
<1>18. section_code' \in [Elements -> VALUES]
  <2>1. \A e \in Elements : section_code'[e] \in VALUES
    <3>1. section_code[op.e] \in VALUES /\ section_code'[op.e] \in {section_code[op.e], op.value}
      BY <1>2, <1>5, <1>9, <1>10
    <3>2. ASSUME NEW e \in Elements \ {op.e} PROVE section_code'[e] \in VALUES
      BY <1>2, <1>11, <3>2
    <3> QED BY <1>5, <3>1, <3>2
  <2> QED BY <2>1 DEF Did
<1>19. ASSUME NEW t \in Steps(work')
       PROVE  /\ t.do # "power"
              /\ t.do \in {"write", "check"} =>
                   \A e \in DOMAIN t.to \cap Elements :
                     t.to[e] = section_code'[e] \/ (e = op.e /\ t.to[e] = op.value)
              /\ t.do = "confirm" => t = ConfirmOf(op.e, op.value)
  <2>1. s.do # "confirm"
    BY <1>12, <1>19
  <2> QED BY <1>2, <1>3, <1>10, <1>19, <2>1
<1>20. ASSUME NEW i \in 1 .. n, NEW j \in 1 .. n, i < j, DrivesMatrix(work'[i])
       PROVE  ~ChecksMatrix(work'[j])
  <2>1. i + 1 \in 1 .. n + 1 /\ j + 1 \in 1 .. n + 1 /\ i + 1 < j + 1
    BY <1>20
  <2> QED BY <1>2, <1>6, <1>7, <1>20, <2>1 DEF Ordered
<1>21. ASSUME chip'["direction"] = "out", NEW t \in Steps(work') PROVE ~ChecksMatrix(t)
  <2>1. CASE chip["direction"] = "out"
    BY <1>2, <1>3, <1>21, <2>1
  <2>2. CASE chip["direction"] # "out"
    <3>1. DrivesMatrix(work[1])
      BY <1>1, <1>4, <1>13, <1>21, <2>2 DEF DrivesMatrix
    <3>2. PICK j \in 1 .. n : t = work'[j]
      BY <1>6, <1>21 DEF Steps
    <3>3. 1 \in 1 .. n + 1 /\ j + 1 \in 1 .. n + 1 /\ 1 < j + 1
      OBVIOUS
    <3> QED BY <1>2, <1>6, <1>7, <3>1, <3>2, <3>3 DEF Ordered
  <2> QED BY <2>1, <2>2
<1>22. (Ordered(work))'
  BY <1>6, <1>20 DEF Ordered, DrivesMatrix, ChecksMatrix
<1>23. (\A t \in Steps(work) :
           /\ t.do # "power"
           /\ t.do \in {"write", "check"} =>
                \A e \in DOMAIN t.to \cap Elements :
                  t.to[e] = section_code[e] \/ (e = op.e /\ t.to[e] = op.value)
           /\ t.do = "confirm" => t = ConfirmOf(op.e, op.value))'
  BY <1>1, <1>19 DEF Steps, ConfirmOf, Step, Value
<1>24. (op.stage = "set" => Steps(work) \subseteq Setting(op.e, op.value))'
  BY <1>1, <1>2, <1>3 DEF Steps, Setting, WriteOf, ConfirmOf, Step, Value
<1>25. (chip["direction"] = "out" => \A t \in Steps(work) : ~ChecksMatrix(t))'
  BY <1>21 DEF Steps, ChecksMatrix
<1>26. (/\ \A e \in Elements \ {op.e} :
             section_code[e] = known[e] /\ (chip[e] = section_code[e] \/ ImageLeft(e))
        /\ op.e \in Matrix => chip[op.e] \in {section_code[op.e], op.value} \/ ImageLeft(op.e))'
  BY <1>1, <1>16, <1>17
<1> QED BY <1>1, <1>2, <1>18, <1>22, <1>23, <1>24, <1>25, <1>26

-----------------------------------------------------------------------------
(* A step of an operation fails.                                           *)

\* The step s has failed: a write may have had its effect.
Tried(s) ==
  /\ work # <<>> /\ StepOK(s) /\ s = work[1] /\ s \in Steps(work) /\ Len(work) \in Nat
  /\ UNCHANGED <<powered, held, section_on, section_code, op, work, stopped, answer, restarted, known>>
  /\ failed' = TRUE
  /\ chip' = [r \in Registers |-> chip'[r]]
  /\ \A r \in Registers : chip'[r] = chip[r] \/ (s.do = "write" /\ r \in DOMAIN s.to /\ chip'[r] = s.to[r])

\* A step that fails does what Tried says of it.
LEMMA TriedIs ==
  ASSUME Typed, StepFails
  PROVE  Tried(Head(work))
<1>1. PICK s : s = Head(work)
  OBVIOUS
<1>2. /\ work # <<>> /\ failed' = TRUE
      /\ UNCHANGED <<powered, held, section_on, section_code, op, work, stopped, answer, restarted, known>>
      /\ UNCHANGED chip \/ (s.do = "write" /\ chip' = Effect(s.to))
  BY <1>1 DEF StepFails, history
<1>3. s = work[1] /\ s \in Steps(work)
  BY <1>1, <1>2, FirstStep DEF Typed
<1>4. Len(work) \in Nat /\ StepOK(s)
  BY <1>3 DEF Typed, IsProgram
<1>5. chip = [r \in Registers |-> chip[r]]
  BY DEF Typed
<1>6. /\ chip' = [r \in Registers |-> chip'[r]]
      /\ \A r \in Registers : chip'[r] = chip[r] \/ (s.do = "write" /\ r \in DOMAIN s.to /\ chip'[r] = s.to[r])
  <2>1. CASE UNCHANGED chip
    BY <1>5, <2>1
  <2>2. CASE s.do = "write" /\ chip' = Effect(s.to)
    BY <2>2, EffectIs
  <2> QED BY <1>2, <2>1, <2>2
<1> QED BY <1>1, <1>2, <1>3, <1>4, <1>6 DEF Tried

\* A transfer that fails, with its effect or without.
LEMMA FailsInv ==
  ASSUME SectionsInv, StepFails
  PROVE  SectionsInv'
<1>1. PICK s : Tried(s)
  BY TriedIs DEF SectionsInv
<1>2. /\ UNCHANGED <<powered, held, section_on, section_code, op, work, stopped, answer, restarted, known>>
      /\ failed' = TRUE /\ work # <<>> /\ s = work[1] /\ s \in Steps(work) /\ StepOK(s)
  BY <1>1 DEF Tried
<1>3. \A r \in Registers : chip'[r] = chip[r] \/ (s.do = "write" /\ r \in DOMAIN s.to /\ chip'[r] = s.to[r])
  BY <1>1 DEF Tried
<1>4. /\ Elements \subseteq Registers /\ Matrix \subseteq Elements
      /\ "direction" \in Registers /\ "wiper" \in Registers
  BY Names
<1>5. ~Idle /\ ~Idle'
  BY <1>2 DEF SectionsInv, Rests, Idle
<1>6. Typed'
  <2>1. PICK before, after : before = chip /\ after = chip'
    OBVIOUS
  <2>2. /\ before = [r \in Registers |-> before[r]]
        /\ \A e \in Elements : before[e] \in VALUES
        /\ before["wiper"] \in {"locked", "free"} /\ before["direction"] \in {"in", "out"}
    BY <2>1 DEF SectionsInv, Typed, TypeOK
  <2>3. after = [r \in Registers |-> after[r]]
    BY <1>1, <2>1 DEF Tried
  <2>4. /\ \A e \in Elements : after[e] = before[e] \/ after[e] \in VALUES
        /\ after["wiper"] = before["wiper"] \/ after["wiper"] \in {"locked", "free"}
        /\ after["direction"] = before["direction"] \/ after["direction"] \in {"in", "out"}
    BY <1>2, <1>3, <1>4, <2>1 DEF StepOK
  <2>5. /\ DOMAIN after = Elements \cup Resettable
        /\ \A e \in Elements : after[e] \in VALUES
        /\ after["wiper"] \in {"locked", "free"} /\ after["direction"] \in {"in", "out"}
    BY <2>2, <2>3, <2>4, ChipType
  <2>6. /\ powered \in BOOLEAN /\ held \in SUBSET Resettable /\ section_on \in BOOLEAN
        /\ section_code \in [Elements -> VALUES \cup {UNKNOWN}]
        /\ known \in [Elements -> VALUES \cup {UNKNOWN}]
        /\ op \in [e : Elements, value : VALUES, attempt : 0 .. I2C_RETRIES,
                   stage : {"idle", "power_on", "set", "reset", "power"}]
        /\ stopped \in BOOLEAN /\ restarted \in BOOLEAN
        /\ answer \in {"none", "set", "on", "err"}
    BY DEF SectionsInv, Typed, TypeOK
  <2>7. TypeOK'
    BY <1>2, <2>1, <2>5, <2>6, ZenonT(60) DEF TypeOK
  <2>8. IsProgram(work)' /\ (\A t \in Steps(work) : StepOK(t))'
    BY <1>2 DEF SectionsInv, Typed, IsProgram, Steps, StepOK
  <2> QED BY <2>1, <2>3, <2>7, <2>8 DEF Typed
<1>7. UnderWay'
  <2>1. /\ chip["wiper"] = "free" \/ CheckOf(Value("wiper", "free")) \in Steps(work)
        /\ chip["direction"] = "out" \/ CheckOf(Value("direction", "out")) \in Steps(work)
        /\ powered \/ Plain("power") \in Steps(work)
        /\ held = {} \/ Plain("release") \in Steps(work)
        /\ section_on \/ Plain("on") \in Steps(work)
    BY <1>5 DEF SectionsInv, UnderWay
  <2>2. /\ chip["wiper"] = "free" => chip'["wiper"] = "free"
        /\ chip["direction"] = "out" => chip'["direction"] = "out"
    BY <1>2, <1>3, <1>4 DEF StepOK
  <2> QED BY <1>2, <2>1, <2>2 DEF UnderWay, Steps, Plain, Step, CheckOf, Value
<1>8. Kept'
  <2> SUFFICES ASSUME op.stage \in {"set", "reset"} PROVE Kept'
    BY <1>2 DEF Kept
  <2>1. /\ ~restarted /\ section_code \in [Elements -> VALUES]
        /\ \A e \in Elements \ {op.e} :
             section_code[e] = known[e] /\ (chip[e] = section_code[e] \/ ImageLeft(e))
        /\ op.e \in Matrix => chip[op.e] \in {section_code[op.e], op.value} \/ ImageLeft(op.e)
        /\ \A t \in Steps(work) :
             /\ t.do # "power"
             /\ t.do \in {"write", "check"} =>
                  \A e \in DOMAIN t.to \cap Elements :
                    t.to[e] = section_code[e] \/ (e = op.e /\ t.to[e] = op.value)
             /\ t.do = "confirm" => t = ConfirmOf(op.e, op.value)
        /\ op.stage = "set" => Steps(work) \subseteq Setting(op.e, op.value)
        /\ Ordered(work)
        /\ chip["direction"] = "out" => \A t \in Steps(work) : ~ChecksMatrix(t)
    BY DEF SectionsInv, Kept
  <2>2. op.e \in Elements
    BY DEF SectionsInv, Typed, TypeOK
  <2>3. \A e : (ImageLeft(e))' <=> ImageLeft(e)
    BY <1>2 DEF ImageLeft, Steps
  <2>4. \A e \in Elements \ {op.e} :
          section_code[e] = known[e] /\ (chip'[e] = section_code[e] \/ ImageLeft(e))
    BY <1>2, <1>3, <1>4, <2>1
  <2>5. op.e \in Matrix => chip'[op.e] \in {section_code[op.e], op.value} \/ ImageLeft(op.e)
    BY <1>2, <1>3, <1>4, <2>1, <2>2
  <2>6. ASSUME chip'["direction"] = "out", NEW t \in Steps(work) PROVE ~ChecksMatrix(t)
    <3>1. CASE chip["direction"] = "out"
      BY <2>1, <2>6, <3>1
    <3>2. CASE chip["direction"] # "out"
      <4>1. s.do = "write" /\ DrivesMatrix(s)
        BY <1>3, <1>4, <2>6, <3>2 DEF DrivesMatrix
      <4>2. PICK n \in Nat : n = Len(work)
        BY <1>1 DEF Tried
      <4>3. PICK j \in 1 .. n : t = work[j]
        BY <2>6, <4>2 DEF Steps
      <4>4. 1 \in 1 .. n /\ (j = 1 \/ 1 < j)
        BY <4>3
      <4>5. ~ChecksMatrix(s)
        BY <4>1 DEF ChecksMatrix
      <4> QED BY <1>2, <2>1, <4>1, <4>2, <4>3, <4>4, <4>5 DEF Ordered
    <3> QED BY <3>1, <3>2
  <2>7. (/\ \A e \in Elements \ {op.e} :
              section_code[e] = known[e] /\ (chip[e] = section_code[e] \/ ImageLeft(e)))'
    BY <1>2, <2>3, <2>4
  <2>8. (op.e \in Matrix => chip[op.e] \in {section_code[op.e], op.value} \/ ImageLeft(op.e))'
    <3>1. (ImageLeft(op.e))' <=> ImageLeft(op.e)
      BY <1>2 DEF ImageLeft, Steps
    <3> QED BY <1>2, <2>5, <3>1
  <2>9. (chip["direction"] = "out" => \A t \in Steps(work) : ~ChecksMatrix(t))'
    BY <1>2, <2>6 DEF Steps, ChecksMatrix
  <2>10. (\A t \in Steps(work) :
            /\ t.do # "power"
            /\ t.do \in {"write", "check"} =>
                 \A e \in DOMAIN t.to \cap Elements :
                   t.to[e] = section_code[e] \/ (e = op.e /\ t.to[e] = op.value)
            /\ t.do = "confirm" => t = ConfirmOf(op.e, op.value))'
    <3>1. op' = op /\ section_code' = section_code /\ (Steps(work))' = Steps(work)
      BY <1>2 DEF Steps
    <3>2. \A t \in Steps(work) :
            /\ t.do # "power"
            /\ t.do \in {"write", "check"} =>
                 \A e \in DOMAIN t.to \cap Elements :
                   t.to[e] = section_code[e] \/ (e = op.e /\ t.to[e] = op.value)
            /\ t.do = "confirm" => t = ConfirmOf(op.e, op.value)
      BY <2>1
    <3> QED BY <3>1, <3>2 DEF ConfirmOf, Step, Value
  <2>11. (~restarted /\ section_code \in [Elements -> VALUES])'
    BY <1>2, <2>1
  <2>12. (op.stage = "set" => Steps(work) \subseteq Setting(op.e, op.value))'
    <3>1. op' = op /\ (Steps(work))' = Steps(work)
      BY <1>2 DEF Steps
    <3>2. op.stage = "set" => Steps(work) \subseteq Setting(op.e, op.value)
      BY <2>1
    <3> QED BY <3>1, <3>2 DEF Setting, WriteOf, ConfirmOf, Step, Value
  <2>13. (Ordered(work))'
    BY <1>2, <2>1 DEF Ordered, DrivesMatrix, ChecksMatrix
  <2> QED BY <2>7, <2>8, <2>9, <2>10, <2>11, <2>12, <2>13 DEF Kept
<1>9. Lost'
  <2> SUFFICES ASSUME op.stage \in {"power_on", "power"} PROVE Lost'
    BY <1>2 DEF Lost
  <2>1. /\ op.stage = "power" => restarted
        /\ \A e \in Elements : e # op.e \/ op.stage = "power_on" =>
             \/ section_code[e] = DEFAULT /\ chip[e] = DEFAULT
             \/ ConfirmOf(e, DEFAULT) \in Steps(work)
        /\ \A t \in Steps(work) : t.do \in {"write", "confirm"} =>
             \A e \in DOMAIN t.to \cap Elements :
               t.to[e] = DEFAULT \/ (op.stage = "power" /\ e = op.e /\ t.to[e] = op.value)
        /\ \A m \in Matrix :
             /\ chip[m] = DEFAULT \/ (op.stage = "power" /\ op.e = m /\ chip[m] = op.value)
             /\ section_code[m] \in {UNKNOWN, DEFAULT} \/ (op.stage = "power" /\ op.e = m /\ work = <<>>)
    BY DEF SectionsInv, Lost
  <2>2. \A e \in Elements : chip'[e] \in {chip[e], DEFAULT} \/ (op.stage = "power" /\ e = op.e /\ chip'[e] = op.value)
    BY <1>2, <1>3, <1>4, <2>1
  <2>3. op.stage = "power_on" => op.stage # "power"
    OBVIOUS
  <2>4. \A e \in Elements : e # op.e \/ op.stage = "power_on" =>
          (section_code[e] = DEFAULT /\ chip'[e] = DEFAULT) \/ ConfirmOf(e, DEFAULT) \in Steps(work)
    BY <2>1, <2>2, <2>3
  <2>5. \A m \in Matrix : chip'[m] = DEFAULT \/ (op.stage = "power" /\ op.e = m /\ chip'[m] = op.value)
    BY <1>4, <2>1, <2>2
  <2> QED BY <1>2, <2>1, <2>4, <2>5 DEF Lost, Steps, ConfirmOf, Step, Value
<1>10. Ends'
  BY <1>2 DEF SectionsInv, Ends, ConfirmOf, Step, Value
<1>11. Rests'
  BY <1>5 DEF Rests
<1> QED BY <1>6, <1>7, <1>8, <1>9, <1>10, <1>11 DEF SectionsInv

-----------------------------------------------------------------------------
(* Chips are reset, a command ends, a stage begins.                        *)

\* What a chip holds after its reset.
LEMMA ResetOf ==
  ASSUME NEW registers
  PROVE  /\ DOMAIN AfterReset(registers) = registers
         /\ "wiper" \in registers => AfterReset(registers)["wiper"] = "locked"
         /\ "direction" \in registers => AfterReset(registers)["direction"] = "in"
         /\ \A e \in Elements \cap registers : AfterReset(registers)[e] = DEFAULT
<1>1. \A e \in Elements : e # "wiper" /\ e # "direction"
  BY Names
<1> QED BY <1>1 DEF AfterReset

\* After a reset of chips.
LEMMA ChipAfter ==
  ASSUME NEW registers, registers \subseteq Resettable, Typed, chip' = Over(AfterReset(registers), chip)
  PROVE  /\ chip' = [r \in Registers |-> chip'[r]]
         /\ \A r \in Registers \ registers : chip'[r] = chip[r]
         /\ "wiper" \in registers => chip'["wiper"] = "locked"
         /\ "direction" \in registers => chip'["direction"] = "in"
         /\ \A e \in Elements \cap registers : chip'[e] = DEFAULT
         /\ DOMAIN chip' = Elements \cup Resettable
         /\ \A e \in Elements : chip'[e] \in VALUES
         /\ chip'["wiper"] \in {"locked", "free"} /\ chip'["direction"] \in {"in", "out"}
<1>1. PICK to : to = AfterReset(registers)
  OBVIOUS
<1>2. /\ DOMAIN to = registers
      /\ "wiper" \in registers => to["wiper"] = "locked"
      /\ "direction" \in registers => to["direction"] = "in"
      /\ \A e \in Elements \cap registers : to[e] = DEFAULT
  BY <1>1, ResetOf
<1>3. PICK before, after : before = chip /\ after = chip'
  OBVIOUS
<1>4. /\ before = [r \in Registers |-> before[r]] /\ DOMAIN before = Registers
      /\ \A e \in Elements : before[e] \in VALUES
      /\ before["wiper"] \in {"locked", "free"} /\ before["direction"] \in {"in", "out"}
  BY <1>3 DEF Typed, TypeOK
<1>5. after = Over(to, before)
  BY <1>1, <1>3
<1>6. after = [r \in DOMAIN before |-> after[r]]
  BY <1>5, OverIs
<1>7. \A r \in DOMAIN before : after[r] = IF r \in DOMAIN to THEN to[r] ELSE before[r]
  BY <1>5, OverIs
<1>8. Elements \subseteq Registers /\ {"wiper", "direction"} \subseteq Registers
  BY Names
<1>9. after = [r \in Registers |-> after[r]]
  BY <1>4, <1>6
<1>10. /\ \A r \in Registers \ registers : after[r] = before[r]
       /\ "wiper" \in registers => after["wiper"] = "locked"
       /\ "direction" \in registers => after["direction"] = "in"
       /\ \A e \in Elements \cap registers : after[e] = DEFAULT
  BY <1>2, <1>4, <1>7, <1>8
<1>11. /\ \A e \in Elements : after[e] = before[e] \/ after[e] \in VALUES
       /\ after["wiper"] = before["wiper"] \/ after["wiper"] \in {"locked", "free"}
       /\ after["direction"] = before["direction"] \/ after["direction"] \in {"in", "out"}
  BY <1>8, <1>10, SectionsAssumption
<1>12. /\ DOMAIN after = Elements \cup Resettable
       /\ \A e \in Elements : after[e] \in VALUES
       /\ after["wiper"] \in {"locked", "free"} /\ after["direction"] \in {"in", "out"}
  BY <1>4, <1>9, <1>11, ChipType
<1> QED BY <1>3, <1>9, <1>10, <1>12

\* section_off.
LEMMA OffIs ==
  ASSUME Typed, SectionOff
  PROVE  /\ powered' = FALSE /\ held' \in SUBSET Resettable /\ section_on' = FALSE
         /\ section_code' \in [Elements -> VALUES \cup {UNKNOWN}]
         /\ \A e \in Elements : section_code'[e] = UNKNOWN
         /\ \A m \in Matrix : chip'[m] = DEFAULT
         /\ chip' = [r \in Registers |-> chip'[r]]
         /\ DOMAIN chip' = Elements \cup Resettable
         /\ \A e \in Elements : chip'[e] \in VALUES
         /\ chip'["wiper"] \in {"locked", "free"} /\ chip'["direction"] \in {"in", "out"}
<1>1. /\ powered' = FALSE /\ held' = Resettable /\ section_on' = FALSE
      /\ section_code' = [e \in Elements |-> UNKNOWN] /\ chip' = Over(AfterReset(Resettable), chip)
  BY DEF SectionOff
<1>2. Matrix \subseteq Elements \cap Resettable
  BY Names
<1>3. PICK registers : registers = Resettable
  OBVIOUS
<1>4. registers \subseteq Resettable /\ chip' = Over(AfterReset(registers), chip)
  BY <1>1, <1>3
<1>5. \A m \in Matrix : chip'[m] = DEFAULT
  <2>1. \A e \in Elements \cap registers : chip'[e] = DEFAULT
    BY <1>4, ChipAfter
  <2> QED BY <1>2, <1>3, <2>1
<1>6. /\ chip' = [r \in Registers |-> chip'[r]]
      /\ DOMAIN chip' = Elements \cup Resettable
      /\ \A e \in Elements : chip'[e] \in VALUES
      /\ chip'["wiper"] \in {"locked", "free"} /\ chip'["direction"] \in {"in", "out"}
  <2>1. chip' = [r \in Registers |-> chip'[r]]
    BY <1>4, ChipAfter
  <2>2. DOMAIN chip' = Elements \cup Resettable
    BY <1>4, ChipAfter
  <2>3. \A e \in Elements : chip'[e] \in VALUES
    BY <1>4, ChipAfter
  <2>4. chip'["wiper"] \in {"locked", "free"} /\ chip'["direction"] \in {"in", "out"}
    BY <1>4, ChipAfter
  <2> QED BY <2>1, <2>2, <2>3, <2>4
<1> QED BY <1>1, <1>5, <1>6

\* A command with nothing left to do.
LEMMA Nothing == IsProgram(<<>>) /\ Steps(<<>>) = {}
<1>1. PICK w : w = <<>>
  OBVIOUS
<1>2. Len(w) = 0 /\ w = [i \in 1 .. 0 |-> w[i]]
  BY <1>1
<1>3. \A i : i \notin 1 .. 0
  OBVIOUS
<1>4. Steps(w) = {}
  BY <1>2, <1>3 DEF Steps
<1>5. IsProgram(w)
  BY <1>2 DEF IsProgram
<1> QED BY <1>1, <1>4, <1>5

\* Between two commands.
LEMMA IdleAfter ==
  ASSUME TypeOK', chip' = [r \in Registers |-> chip'[r]],
         op'.stage = "idle", work' = <<>>, ~failed', powered' = section_on',
         section_on' =>
           /\ held' = {} /\ chip'["wiper"] = "free" /\ chip'["direction"] = "out"
           /\ \A e \in Elements : chip'[e] = section_code'[e],
         NeighboursKept'
  PROVE  SectionsInv'
<1>1. IsProgram(work') /\ Steps(work') = {}
  BY Nothing
<1>2. IsProgram(work)' /\ (\A t \in Steps(work) : StepOK(t))'
  BY <1>1 DEF IsProgram, Steps, StepOK
<1>3. Typed'
  BY <1>2 DEF Typed
<1>4. UnderWay'
  <2>1. section_on' \in BOOLEAN /\ powered' \in BOOLEAN
    BY DEF TypeOK
  <2> QED BY <2>1 DEF UnderWay, Idle
<1>5. Kept' /\ Lost' /\ Ends'
  BY DEF Kept, Lost, Ends
<1>6. Rests'
  BY DEF Rests
<1> QED BY <1>3, <1>4, <1>5, <1>6 DEF SectionsInv

\* A program of two steps is not the empty one.
LEMMA Longer == \A w : Len(w) = 2 => w # <<>>
OBVIOUS

\* RES:SET begins, or is retried.
LEMMA SetBegins ==
  ASSUME TypeOK', chip' = [r \in Registers |-> chip'[r]],
         NEW e \in Elements, NEW value \in VALUES,
         op'.e = e, op'.value = value, op'.stage = "set", work' = set_once(e, value),
         ~restarted', section_code' \in [Elements -> VALUES],
         \A x \in Elements \ {e} : section_code'[x] = known'[x] /\ chip'[x] = section_code'[x],
         e \in Matrix => chip'[e] \in {section_code'[e], value},
         powered', held' = {}, chip'["wiper"] = "free", chip'["direction"] = "out", section_on'
  PROVE  SectionsInv'
<1>1. /\ IsProgram(work') /\ Len(work') = 2
      /\ work'[1] = WriteOf(Value(e, value)) /\ work'[2] = ConfirmOf(e, value)
      /\ Steps(work') = Setting(e, value)
  BY SetOnceIs
<1>2. PICK n \in Nat : n = Len(work') /\ n = 2
  BY <1>1
<1>3. DOMAIN Value(e, value) = {e} /\ Value(e, value)[e] = value
  BY DEF Value
<1>4. WriteOf(Value(e, value)).do = "write" /\ WriteOf(Value(e, value)).to = Value(e, value)
  BY StepIs DEF WriteOf
<1>5. ConfirmOf(e, value).do = "confirm"
  BY ConfirmIs
<1>6. Typed'
  <2>1. \A s \in Steps(work') : StepOK(s)
    BY <1>1, SettingOK
  <2>2. IsProgram(work)' /\ (\A t \in Steps(work) : StepOK(t))'
    BY <1>1, <2>1 DEF IsProgram, Steps, StepOK
  <2> QED BY <2>2 DEF Typed
<1>7. UnderWay'
  BY DEF UnderWay
<1>8. ASSUME NEW s \in Steps(work')
      PROVE  /\ s.do # "power" /\ s.do # "check"
             /\ s.do = "write" => \A x \in DOMAIN s.to \cap Elements : x = e /\ s.to[x] = value
             /\ s.do = "confirm" => s = ConfirmOf(e, value)
  <2>1. CASE s = WriteOf(Value(e, value))
    BY <1>3, <1>4, <2>1
  <2>2. CASE s = ConfirmOf(e, value)
    BY <1>5, <2>2
  <2> QED BY <1>1, <1>8, <2>1, <2>2 DEF Setting
<1>9. Kept'
  <2>1. \A s \in Steps(work') : ~ChecksMatrix(s)
    BY <1>8 DEF ChecksMatrix
  <2>2. (Ordered(work))'
    BY <2>1 DEF Ordered, Steps, DrivesMatrix, ChecksMatrix
  <2>3. (chip["direction"] = "out" => \A t \in Steps(work) : ~ChecksMatrix(t))'
    BY <2>1 DEF Steps, ChecksMatrix
  <2>4. (\A t \in Steps(work) :
            /\ t.do # "power"
            /\ t.do \in {"write", "check"} =>
                 \A x \in DOMAIN t.to \cap Elements :
                   t.to[x] = section_code[x] \/ (x = op.e /\ t.to[x] = op.value)
            /\ t.do = "confirm" => t = ConfirmOf(op.e, op.value))'
    <3>1. op'.e = e /\ op'.value = value
      OBVIOUS
    <3>2. \A s \in Steps(work') :
            /\ s.do # "power" /\ s.do # "check"
            /\ s.do = "write" => \A x \in DOMAIN s.to \cap Elements : x = e /\ s.to[x] = value
            /\ s.do = "confirm" => s = ConfirmOf(e, value)
      BY <1>8
    <3> QED BY <3>1, <3>2 DEF Steps, ConfirmOf, Step, Value
  <2>5. (op.stage = "set" => Steps(work) \subseteq Setting(op.e, op.value))'
    BY <1>1 DEF Steps, Setting, WriteOf, ConfirmOf, Step, Value
  <2>6. (~restarted /\ section_code \in [Elements -> VALUES])'
    OBVIOUS
  <2>7. (/\ \A x \in Elements \ {op.e} :
              section_code[x] = known[x] /\ (chip[x] = section_code[x] \/ ImageLeft(x))
         /\ op.e \in Matrix => chip[op.e] \in {section_code[op.e], op.value} \/ ImageLeft(op.e))'
    OBVIOUS
  <2> QED BY <2>2, <2>3, <2>4, <2>5, <2>6, <2>7 DEF Kept
<1>10. Lost' /\ Rests'
  BY DEF Lost, Rests, Idle
<1>11. Ends'
  <2>1. work' # <<>>
    BY <1>1, Longer
  <2>2. (work[Len(work)] = ConfirmOf(op.e, op.value))'
    BY <1>1 DEF ConfirmOf, Step, Value
  <2>3. \A i \in 1 .. 2 : i # 2 => i = 1
    OBVIOUS
  <2>4. \A i \in 1 .. n : i # n => work'[i].do # "confirm"
    BY <1>1, <1>2, <1>4, <2>3
  <2> QED BY <1>2, <2>1, <2>2, <2>4 DEF Ends
<1> QED BY <1>6, <1>7, <1>9, <1>10, <1>11 DEF SectionsInv

\* What the power-up writes.
LEMMA PowerStepsAre ==
  ASSUME NEW s \in PowerSteps, s.do \in {"write", "confirm"}
  PROVE  \A e \in DOMAIN s.to \cap Elements : s.to[e] = DEFAULT
<1>1. CASE s \in {Plain("power"), Plain("release"), Plain("ack"), Plain("on")}
  BY <1>1, PlainIs
<1>2. CASE s \in Checking(Image)
  <2>1. s.to = Image
    BY <1>2, StepIs DEF Checking, WriteOf, CheckOf
  <2> QED BY <2>1 DEF Image
<1>3. ASSUME NEW r \in {"wiper", "direction"}, NEW v, s \in Checking(Value(r, v))
      PROVE  \A e \in DOMAIN s.to \cap Elements : s.to[e] = DEFAULT
  <2>1. s.to = Value(r, v)
    BY <1>3, StepIs DEF Checking, WriteOf, CheckOf
  <2>2. DOMAIN Value(r, v) = {r} /\ r \notin Elements
    BY ValueIs, Names
  <2> QED BY <2>1, <2>2
<1>4. ASSUME NEW e \in Elements, s \in Setting(e, DEFAULT)
      PROVE  \A x \in DOMAIN s.to \cap Elements : s.to[x] = DEFAULT
  <2>1. s.to = Value(e, DEFAULT)
    BY <1>4, StepIs DEF Setting, WriteOf, ConfirmOf
  <2>2. DOMAIN Value(e, DEFAULT) = {e} /\ Value(e, DEFAULT)[e] = DEFAULT
    BY ValueIs
  <2> QED BY <2>1, <2>2
<1> QED BY <1>1, <1>2, <1>3, <1>4 DEF PowerSteps

\* The power-up of the ladder, with set_once behind it.
LEMMA PowerThenSet ==
  ASSUME NEW e, NEW value, NEW p, p = power_on, NEW q, q = p \o set_once(e, value)
  PROVE  EndsSetting(q, p, e, value)
BY PowerOnIs, ThenSet

\* A power-up begins, for RES:PWR or for the ladder.
LEMMA PowerBegins ==
  ASSUME Typed, SectionOff, TypeOK',
         NEW e \in Elements, NEW value \in VALUES, op'.e = e, op'.value = value,
         \/ op'.stage = "power_on" /\ work' = power_on
         \/ op'.stage = "power" /\ work' = power_on \o set_once(e, value) /\ restarted'
  PROVE  SectionsInv'
<1>1. IsProgram(power_on) /\ power_on # <<>> /\ Steps(power_on) = PowerSteps
  BY PowerOnIs
<1>2. /\ IsProgram(work') /\ PowerSteps \subseteq Steps(work')
      /\ op'.stage = "power_on" => Steps(work') = PowerSteps
      /\ op'.stage = "power" => Steps(work') = PowerSteps \cup Setting(e, value)
      /\ op'.stage = "power" => /\ work' # <<>> /\ work'[Len(work')] = ConfirmOf(e, value)
                                /\ \A i \in 1 .. Len(work') :
                                     i # Len(work') /\ work'[i].do = "confirm" => work'[i] \in PowerSteps
  <2>1. CASE op'.stage = "power_on" /\ work' = power_on
    BY <1>1, <2>1
  <2>2. CASE op'.stage = "power" /\ work' = power_on \o set_once(e, value)
    <3>1. PICK q : q = work'
      OBVIOUS
    <3>2. PICK p : p = power_on /\ q = p \o set_once(e, value)
      BY <2>2, <3>1
    <3>3. EndsSetting(q, p, e, value) /\ Steps(p) = PowerSteps
      BY <1>1, <3>2, PowerThenSet
    <3> QED BY <2>2, <3>1, <3>3 DEF EndsSetting
  <2> QED BY <2>1, <2>2
<1>3. /\ powered' = FALSE /\ section_on' = FALSE
      /\ \A x \in Elements : section_code'[x] = UNKNOWN
      /\ \A m \in Matrix : chip'[m] = DEFAULT
      /\ chip' = [r \in Registers |-> chip'[r]]
  BY OffIs
<1>4. Typed'
  <2>1. \A s \in Steps(work') : StepOK(s)
    BY <1>2, PowerStepsOK, SettingOK
  <2>2. IsProgram(work)' /\ (\A t \in Steps(work) : StepOK(t))'
    BY <1>2, <2>1 DEF IsProgram, Steps, StepOK
  <2> QED BY <1>3, <2>2 DEF Typed
<1>5. UnderWay'
  <2>1. {Plain("power"), Plain("release"), Plain("on"), CheckOf(Value("wiper", "free")),
         CheckOf(Value("direction", "out"))} \subseteq Steps(work')
    BY <1>2 DEF PowerSteps, Checking
  <2> QED BY <2>1 DEF UnderWay, Steps, Plain, Step, CheckOf, Value
<1>6. ASSUME NEW s \in Steps(work'), s.do \in {"write", "confirm"}
      PROVE  \A x \in DOMAIN s.to \cap Elements :
               s.to[x] = DEFAULT \/ (op'.stage = "power" /\ x = e /\ s.to[x] = value)
  <2>1. CASE s \in PowerSteps
    BY <1>6, <2>1, PowerStepsAre
  <2>2. CASE op'.stage = "power" /\ s \in Setting(e, value)
    <3>1. s.to = Value(e, value)
      BY <2>2, StepIs DEF Setting, WriteOf, ConfirmOf
    <3>2. DOMAIN Value(e, value) = {e} /\ Value(e, value)[e] = value
      BY ValueIs
    <3> QED BY <2>2, <3>1, <3>2
  <2> QED BY <1>2, <1>6, <2>1, <2>2
<1>7. \A x \in Elements : ConfirmOf(x, DEFAULT) \in Steps(work')
  BY <1>2 DEF PowerSteps, Setting
<1>8. Lost'
  <2>1. (op.stage = "power" => restarted)'
    OBVIOUS
  <2>2. (\A x \in Elements : ConfirmOf(x, DEFAULT) \in Steps(work))'
    BY <1>7 DEF ConfirmOf, Step, Value, Steps
  <2>3. (\A s \in Steps(work) : s.do \in {"write", "confirm"} =>
           \A x \in DOMAIN s.to \cap Elements :
             s.to[x] = DEFAULT \/ (op.stage = "power" /\ x = op.e /\ s.to[x] = op.value))'
    BY <1>6 DEF Steps
  <2>4. \A m \in Matrix : chip'[m] = DEFAULT /\ section_code'[m] = UNKNOWN
    BY <1>3, Names
  <2> QED BY <2>1, <2>2, <2>3, <2>4 DEF Lost
<1>9. Ends'
  <2>1. ASSUME op'.stage = "power", NEW i \in 1 .. Len(work'), i # Len(work'), work'[i].do = "confirm"
        PROVE  \A x \in DOMAIN work'[i].to : work'[i].to[x] = DEFAULT
    <3>1. work'[i] \in PowerSteps
      BY <1>2, <2>1
    <3>2. StepOK(work'[i])
      BY <3>1, PowerStepsOK
    <3>3. DOMAIN work'[i].to \subseteq Elements
      BY <2>1, <3>2 DEF StepOK
    <3> QED BY <2>1, <3>1, <3>3, PowerStepsAre
  <2>2. (op.stage = "power" => work # <<>> /\ work[Len(work)] = ConfirmOf(op.e, op.value))'
    BY <1>2 DEF ConfirmOf, Step, Value
  <2> QED BY <2>1, <2>2 DEF Ends
<1>10. Kept' /\ Rests'
  BY DEF Kept, Rests, Idle
<1> QED BY <1>4, <1>5, <1>8, <1>9, <1>10 DEF SectionsInv

-----------------------------------------------------------------------------
(* The commands and the ladder.                                            *)

\* The type of op.
OpType == [e : Elements, value : VALUES, attempt : 0 .. I2C_RETRIES,
           stage : {"idle", "power_on", "set", "reset", "power"}]

\* A command enters its next stage.
LEMMA OpEnters ==
  ASSUME NEW before \in OpType, NEW stage \in {"idle", "power_on", "set", "reset", "power"},
         NEW after, after = [before EXCEPT !.stage = stage]
  PROVE  /\ after \in OpType /\ after.stage = stage
         /\ after.e = before.e /\ after.value = before.value
BY DEF OpType

\* A transition into a state that is off.
LEMMA OffTyped ==
  ASSUME Typed, SectionOff, op' \in OpType,
         failed' \in BOOLEAN, stopped' \in BOOLEAN, restarted' \in BOOLEAN,
         answer' \in {"none", "set", "on", "err"}, known' \in [Elements -> VALUES \cup {UNKNOWN}]
  PROVE  TypeOK'
<1>1. /\ powered' \in BOOLEAN /\ held' \in SUBSET Resettable /\ section_on' \in BOOLEAN
      /\ section_code' \in [Elements -> VALUES \cup {UNKNOWN}]
      /\ DOMAIN chip' = Elements \cup Resettable
      /\ \A e \in Elements : chip'[e] \in VALUES
      /\ chip'["wiper"] \in {"locked", "free"} /\ chip'["direction"] \in {"in", "out"}
  BY OffIs
<1>2. op' \in [e : Elements, value : VALUES, attempt : 0 .. I2C_RETRIES,
               stage : {"idle", "power_on", "set", "reset", "power"}]
  BY DEF OpType
<1> QED BY <1>1, <1>2, Zenon DEF TypeOK

\* The types, as facts.
LEMMA TypesAre ==
  ASSUME Typed
  PROVE  /\ powered \in BOOLEAN /\ held \in SUBSET Resettable /\ section_on \in BOOLEAN
         /\ DOMAIN chip = Elements \cup Resettable /\ chip = [r \in Registers |-> chip[r]]
         /\ \A e \in Elements : chip[e] \in VALUES
         /\ chip["wiper"] \in {"locked", "free"} /\ chip["direction"] \in {"in", "out"}
         /\ section_code \in [Elements -> VALUES \cup {UNKNOWN}]
         /\ known \in [Elements -> VALUES \cup {UNKNOWN}]
         /\ op \in OpType /\ op.e \in Elements /\ op.value \in VALUES
         /\ op.stage \in {"idle", "power_on", "set", "reset", "power"}
         /\ failed \in BOOLEAN /\ stopped \in BOOLEAN /\ restarted \in BOOLEAN
         /\ answer \in {"none", "set", "on", "err"}
BY DEF Typed, TypeOK, OpType

\* A command ends, or is cut, with the section off.
LEMMA OffInv ==
  ASSUME Typed, SectionOff, op' \in OpType, op'.stage = "idle", work' = <<>>, failed' = FALSE,
         stopped' \in BOOLEAN, restarted' \in BOOLEAN, answer' \in {"none", "err"},
         known' \in [Elements -> VALUES \cup {UNKNOWN}]
  PROVE  SectionsInv'
<1>1. TypeOK'
  BY OffTyped
<1>2. powered' = FALSE /\ section_on' = FALSE /\ chip' = [r \in Registers |-> chip'[r]]
  BY OffIs
<1>3. NeighboursKept'
  BY DEF NeighboursKept
<1> QED BY <1>1, <1>2, <1>3, IdleAfter

\* A reset of the board, the end of the ladder, RES:PWR OFF.
LEMMA ResetInv ==
  ASSUME SectionsInv, Reset
  PROVE  SectionsInv'
<1>1. SectionOff /\ op' = [op EXCEPT !.stage = "idle"] /\ work' = <<>> /\ failed' = FALSE
      /\ answer' = "none" /\ UNCHANGED <<stopped, restarted, known>>
  BY DEF Reset, End
<1>2. /\ Typed /\ op \in OpType /\ stopped \in BOOLEAN /\ restarted \in BOOLEAN
      /\ known \in [Elements -> VALUES \cup {UNKNOWN}]
  BY TypesAre DEF SectionsInv
<1>3. op' \in OpType /\ op'.stage = "idle"
  BY <1>1, <1>2, OpEnters
<1> QED BY <1>1, <1>2, <1>3, OffInv

LEMMA GiveUpInv ==
  ASSUME SectionsInv, GiveUp
  PROVE  SectionsInv'
<1>1. SectionOff /\ op' = [op EXCEPT !.stage = "idle"] /\ work' = <<>> /\ failed' = FALSE
      /\ answer' = "err" /\ UNCHANGED <<stopped, restarted, known>>
  BY DEF GiveUp, End
<1>2. /\ Typed /\ op \in OpType /\ stopped \in BOOLEAN /\ restarted \in BOOLEAN
      /\ known \in [Elements -> VALUES \cup {UNKNOWN}]
  BY TypesAre DEF SectionsInv
<1>3. op' \in OpType /\ op'.stage = "idle"
  BY <1>1, <1>2, OpEnters
<1> QED BY <1>1, <1>2, <1>3, OffInv

LEMMA PowerOffInv ==
  ASSUME SectionsInv, PowerOff
  PROVE  SectionsInv'
<1>1. /\ SectionOff /\ op.stage = "idle" /\ answer' = "none"
      /\ UNCHANGED <<op, work, failed, stopped, restarted, known>>
  BY DEF PowerOff, Idle
<1>2. /\ Typed /\ op \in OpType /\ stopped \in BOOLEAN /\ restarted \in BOOLEAN /\ failed \in BOOLEAN
      /\ known \in [Elements -> VALUES \cup {UNKNOWN}]
  BY TypesAre DEF SectionsInv
<1>3. work = <<>> /\ ~failed
  BY <1>1 DEF SectionsInv, Rests, Idle
<1> QED BY <1>1, <1>2, <1>3, OffInv

\* Nothing but `stopped`, or nothing at all, has changed.
LEMMA SameInv ==
  ASSUME SectionsInv, UNCHANGED <<board, op, work, failed, history>>, stopped' \in BOOLEAN
  PROVE  SectionsInv'
<1>1. UNCHANGED <<powered, held, chip, section_on, section_code, op, work, failed, answer, restarted, known>>
  BY DEF board, history
<1>2. Typed'
  <2>1. TypeOK'
    BY <1>1 DEF SectionsInv, Typed, TypeOK
  <2>2. (IsProgram(work) /\ \A s \in Steps(work) : StepOK(s))'
    BY <1>1 DEF SectionsInv, Typed, IsProgram, Steps, StepOK
  <2>3. (chip = [r \in Registers |-> chip[r]])'
    BY <1>1 DEF SectionsInv, Typed
  <2> QED BY <2>1, <2>2, <2>3 DEF Typed
<1>3. UnderWay'
  BY <1>1 DEF SectionsInv, UnderWay, Idle, Steps, Plain, Step, CheckOf, Value
<1>4. Kept'
  <2>1. (Ordered(work))' <=> Ordered(work)
    BY <1>1 DEF Ordered, DrivesMatrix, ChecksMatrix
  <2>2. \A e : (ImageLeft(e))' <=> ImageLeft(e)
    BY <1>1 DEF ImageLeft, Steps
  <2>3. (ImageLeft(op.e))' <=> ImageLeft(op.e)
    BY <1>1 DEF ImageLeft, Steps
  <2>4. (Steps(work))' = Steps(work)
    BY <1>1 DEF Steps
  <2>5. (ConfirmOf(op.e, op.value))' = ConfirmOf(op.e, op.value)
    BY <1>1 DEF ConfirmOf, Step, Value
  <2>6. (Setting(op.e, op.value))' = Setting(op.e, op.value)
    BY <1>1 DEF Setting, WriteOf, ConfirmOf, Step, Value
  <2>7. Kept
    BY DEF SectionsInv
  <2> QED BY <1>1, <2>1, <2>2, <2>3, <2>4, <2>5, <2>6, <2>7 DEF Kept, ChecksMatrix
<1>5. Lost'
  BY <1>1 DEF SectionsInv, Lost, ConfirmOf, Step, Value, Steps
<1>6. Ends'
  BY <1>1 DEF SectionsInv, Ends, ConfirmOf, Step, Value
<1>7. Rests'
  BY <1>1 DEF SectionsInv, Rests, Idle, NeighboursKept
<1> QED BY <1>2, <1>3, <1>4, <1>5, <1>6, <1>7 DEF SectionsInv

\* RES:SET begins.
LEMMA ResSetInv ==
  ASSUME SectionsInv, NEW e \in Elements, NEW value \in VALUES, ResSet(e, value)
  PROVE  SectionsInv'
<1>1. /\ op.stage = "idle" /\ section_on /\ work' = set_once(e, value)
      /\ op' = [e |-> e, value |-> value, stage |-> "set", attempt |-> 0]
      /\ failed' = FALSE /\ stopped' = FALSE /\ known' = section_code /\ answer' = "none" /\ restarted' = FALSE
      /\ UNCHANGED <<powered, held, chip, section_on, section_code>>
  BY DEF ResSet, Idle, Begin, board
<1>2. /\ powered \in BOOLEAN /\ held \in SUBSET Resettable /\ section_on \in BOOLEAN
      /\ DOMAIN chip = Elements \cup Resettable /\ chip = [r \in Registers |-> chip[r]]
      /\ \A x \in Elements : chip[x] \in VALUES
      /\ chip["wiper"] \in {"locked", "free"} /\ chip["direction"] \in {"in", "out"}
      /\ section_code \in [Elements -> VALUES \cup {UNKNOWN}]
  BY TypesAre DEF SectionsInv
<1>3. /\ powered = section_on /\ \A x \in Elements : chip[x] = section_code[x]
      /\ work = <<>>
  BY <1>1 DEF SectionsInv, Rests, Idle
<1>4. held = {} /\ chip["wiper"] = "free" /\ chip["direction"] = "out"
  <2>1. Steps(work) = {}
    BY <1>3, Nothing
  <2> QED BY <1>1, <2>1 DEF SectionsInv, UnderWay
<1>5. section_code \in [Elements -> VALUES]
  BY <1>2, <1>3
<1>6. TypeOK'
  <2>1. op' \in [e : Elements, value : VALUES, attempt : 0 .. I2C_RETRIES,
                 stage : {"idle", "power_on", "set", "reset", "power"}]
    BY <1>1, SectionsAssumption
  <2> QED BY <1>1, <1>2, <2>1 DEF TypeOK
<1>7. op'.e = e /\ op'.value = value /\ op'.stage = "set"
  BY <1>1
<1> QED BY <1>1, <1>2, <1>3, <1>4, <1>5, <1>6, <1>7, SetBegins

\* RETRY.
LEMMA RetryInv ==
  ASSUME SectionsInv, Retry
  PROVE  SectionsInv'
<1>1. /\ op.stage = "set" /\ op.attempt < I2C_RETRIES /\ op' = [op EXCEPT !.attempt = @ + 1]
      /\ work' = set_once(op.e, op.value) /\ failed' = FALSE
      /\ UNCHANGED <<powered, held, chip, section_on, section_code, stopped, answer, restarted, known>>
  BY DEF Retry, board, history
<1>2. /\ powered \in BOOLEAN /\ held \in SUBSET Resettable /\ section_on \in BOOLEAN
      /\ DOMAIN chip = Elements \cup Resettable /\ chip = [r \in Registers |-> chip[r]]
      /\ \A x \in Elements : chip[x] \in VALUES
      /\ chip["wiper"] \in {"locked", "free"} /\ chip["direction"] \in {"in", "out"}
      /\ section_code \in [Elements -> VALUES \cup {UNKNOWN}]
      /\ known \in [Elements -> VALUES \cup {UNKNOWN}]
      /\ op \in OpType /\ op.e \in Elements /\ op.value \in VALUES
      /\ stopped \in BOOLEAN /\ restarted \in BOOLEAN /\ answer \in {"none", "set", "on", "err"}
  BY TypesAre DEF SectionsInv
<1>3. /\ ~restarted /\ section_code \in [Elements -> VALUES]
      /\ \A x \in Elements \ {op.e} :
           section_code[x] = known[x] /\ (chip[x] = section_code[x] \/ ImageLeft(x))
      /\ op.e \in Matrix => chip[op.e] \in {section_code[op.e], op.value} \/ ImageLeft(op.e)
      /\ Steps(work) \subseteq Setting(op.e, op.value)
  BY <1>1 DEF SectionsInv, Kept
<1>4. \A s \in Steps(work) : s.do \in {"write", "confirm"}
  BY <1>3, StepIs DEF Setting, WriteOf, ConfirmOf
<1>5. \A x : ~ImageLeft(x)
  BY <1>4 DEF ImageLeft
<1>6. powered /\ held = {} /\ chip["wiper"] = "free" /\ chip["direction"] = "out" /\ section_on
  <2>1. \A do : do \notin {"write", "confirm"} => Plain(do) \notin Steps(work)
    BY <1>4, PlainIs
  <2>2. \A to : CheckOf(to) \notin Steps(work)
    BY <1>4, StepIs DEF CheckOf
  <2>3. ~Idle
    BY <1>1 DEF Idle
  <2> QED BY <2>1, <2>2, <2>3 DEF SectionsInv, UnderWay
<1>7. op'.e = op.e /\ op'.value = op.value /\ op'.stage = "set"
      /\ op' \in [e : Elements, value : VALUES, attempt : 0 .. I2C_RETRIES,
                  stage : {"idle", "power_on", "set", "reset", "power"}]
  <2>1. op.attempt + 1 \in 0 .. I2C_RETRIES
    BY <1>1, <1>2, SectionsAssumption DEF OpType
  <2> QED BY <1>1, <1>2, <2>1 DEF OpType
<1>8. TypeOK'
  BY <1>1, <1>2, <1>7 DEF TypeOK
<1> QED BY <1>1, <1>2, <1>3, <1>5, <1>6, <1>7, <1>8, SetBegins

\* A command that succeeds has shown everything it announces.
LEMMA SucceedsInv ==
  ASSUME SectionsInv, Succeeds
  PROVE  SectionsInv'
<1>1. /\ op.stage # "idle" /\ work = <<>> /\ work' = <<>> /\ op' = [op EXCEPT !.stage = "idle"]
      /\ failed' = FALSE /\ answer' = (IF op.stage = "power_on" THEN "on" ELSE "set")
      /\ UNCHANGED <<powered, held, chip, section_on, section_code, stopped, restarted, known>>
  BY DEF Succeeds, End, board, Idle
<1>2. /\ powered \in BOOLEAN /\ held \in SUBSET Resettable /\ section_on \in BOOLEAN
      /\ DOMAIN chip = Elements \cup Resettable /\ chip = [r \in Registers |-> chip[r]]
      /\ \A x \in Elements : chip[x] \in VALUES
      /\ chip["wiper"] \in {"locked", "free"} /\ chip["direction"] \in {"in", "out"}
      /\ section_code \in [Elements -> VALUES \cup {UNKNOWN}]
      /\ known \in [Elements -> VALUES \cup {UNKNOWN}]
      /\ op \in OpType /\ op.e \in Elements /\ op.value \in VALUES
      /\ stopped \in BOOLEAN /\ restarted \in BOOLEAN /\ op.stage \in {"idle", "power_on", "set", "reset", "power"}
  BY TypesAre DEF SectionsInv
<1>3. Steps(work) = {}
  BY <1>1, Nothing
<1>4. powered /\ held = {} /\ chip["wiper"] = "free" /\ chip["direction"] = "out" /\ section_on
  BY <1>1, <1>3 DEF SectionsInv, UnderWay, Idle
<1>5. op' \in OpType /\ op'.stage = "idle" /\ op'.e = op.e /\ op'.value = op.value
  BY <1>1, <1>2, OpEnters
<1>6. TypeOK'
  <2>1. op' \in [e : Elements, value : VALUES, attempt : 0 .. I2C_RETRIES,
                 stage : {"idle", "power_on", "set", "reset", "power"}]
    BY <1>5 DEF OpType
  <2>2. answer' \in {"none", "set", "on", "err"}
    BY <1>1
  <2> QED BY <1>1, <1>2, <2>1, <2>2 DEF TypeOK
<1>7. \A x : ~ImageLeft(x)
  BY <1>3 DEF ImageLeft
<1>8. op.stage \in {"set", "reset", "power"} => chip[op.e] = op.value /\ section_code[op.e] = op.value
  BY <1>1 DEF SectionsInv, Ends
<1>9. op.stage \in {"set", "reset"} =>
        ~restarted /\ \A x \in Elements \ {op.e} : section_code[x] = known[x] /\ chip[x] = section_code[x]
  BY <1>7 DEF SectionsInv, Kept
<1>10. op.stage \in {"power_on", "power"} =>
         /\ op.stage = "power" => restarted
         /\ \A x \in Elements : x # op.e \/ op.stage = "power_on" => section_code[x] = DEFAULT /\ chip[x] = DEFAULT
  BY <1>3 DEF SectionsInv, Lost
<1>11. \A x \in Elements : chip[x] = section_code[x]
  <2>1. CASE op.stage = "power_on"
    BY <1>10, <2>1
  <2>2. CASE op.stage = "power"
    BY <1>8, <1>10, <2>2
  <2>3. CASE op.stage \in {"set", "reset"}
    BY <1>8, <1>9, <2>3
  <2> QED BY <1>1, <1>2, <2>1, <2>2, <2>3
<1>12. NeighboursKept'
  <2>1. CASE op.stage = "power_on"
    BY <1>1, <2>1 DEF NeighboursKept
  <2>2. CASE op.stage = "power"
    <3>1. section_code[op.e] = op.value /\ restarted /\ \A x \in Elements \ {op.e} : section_code[x] = DEFAULT
      BY <1>8, <1>10, <2>2
    <3> QED BY <1>1, <1>5, <3>1 DEF NeighboursKept
  <2>3. CASE op.stage \in {"set", "reset"}
    <3>1. section_code[op.e] = op.value /\ ~restarted /\ \A x \in Elements \ {op.e} : section_code[x] = known[x]
      BY <1>8, <1>9, <2>3
    <3> QED BY <1>1, <1>5, <3>1 DEF NeighboursKept
  <2> QED BY <1>1, <1>2, <2>1, <2>2, <2>3
<1>13. /\ ~failed' /\ powered' = section_on'
       /\ chip' = [r \in Registers |-> chip'[r]] /\ \A x \in Elements : chip'[x] = section_code'[x]
       /\ held' = {} /\ chip'["wiper"] = "free" /\ chip'["direction"] = "out"
  BY <1>1, <1>2, <1>4, <1>11
<1> QED BY <1>1, <1>5, <1>6, <1>12, <1>13, IdleAfter

\* RES:PWR ON, and POWER of the ladder.
LEMMA PowerOnInv ==
  ASSUME SectionsInv, PowerOn
  PROVE  SectionsInv'
<1>1. /\ SectionOff /\ op' = [e |-> op.e, value |-> op.value, stage |-> "power_on", attempt |-> 0]
      /\ work' = power_on /\ failed' = FALSE /\ stopped' = FALSE
      /\ known' = section_code /\ answer' = "none" /\ restarted' = FALSE
  BY DEF PowerOn, Begin
<1>2. /\ Typed /\ op.e \in Elements /\ op.value \in VALUES
      /\ section_code \in [Elements -> VALUES \cup {UNKNOWN}]
  BY TypesAre DEF SectionsInv
<1>3. /\ op' \in OpType /\ op'.stage = "power_on" /\ op'.e = op.e /\ op'.value = op.value
  BY <1>1, <1>2, SectionsAssumption DEF OpType
<1>4. TypeOK'
  BY <1>1, <1>2, <1>3, OffTyped
<1> QED BY <1>1, <1>2, <1>3, <1>4, PowerBegins

LEMMA RestartSectionInv ==
  ASSUME SectionsInv, RestartSection
  PROVE  SectionsInv'
<1>1. /\ SectionOff /\ op' = [op EXCEPT !.stage = "power"]
      /\ work' = power_on \o set_once(op.e, op.value) /\ failed' = FALSE /\ restarted' = TRUE
      /\ UNCHANGED <<stopped, answer, known>>
  BY DEF RestartSection, Enter
<1>2. /\ Typed /\ op \in OpType /\ op.e \in Elements /\ op.value \in VALUES
      /\ known \in [Elements -> VALUES \cup {UNKNOWN}] /\ stopped \in BOOLEAN
      /\ answer \in {"none", "set", "on", "err"}
  BY TypesAre DEF SectionsInv
<1>3. op' \in OpType /\ op'.stage = "power" /\ op'.e = op.e /\ op'.value = op.value
  BY <1>1, <1>2, OpEnters
<1>4. TypeOK'
  BY <1>1, <1>2, <1>3, OffTyped
<1> QED BY <1>1, <1>2, <1>3, <1>4, PowerBegins

\* The section when the board starts.
LEMMA InitInv ==
  ASSUME Init
  PROVE  SectionsInv
<1>1. /\ powered = FALSE /\ held = Resettable /\ section_on = FALSE
      /\ section_code = [e \in Elements |-> UNKNOWN]
      /\ op = [e |-> "pot1", value |-> DEFAULT, stage |-> "idle", attempt |-> 0]
      /\ work = <<>> /\ failed = FALSE /\ stopped = FALSE
      /\ answer = "none" /\ restarted = FALSE /\ known = section_code
      /\ chip = Over(AfterReset(Resettable), [r \in Elements \cup Resettable |-> DEFAULT])
  BY DEF Init
<1>2. "pot1" \in Elements /\ Elements \subseteq Registers /\ {"wiper", "direction"} \subseteq Resettable
      /\ "wiper" \notin Elements /\ "direction" \notin Elements
  BY Names
<1>3. PICK to, base : to = AfterReset(Resettable) /\ base = [r \in Elements \cup Resettable |-> DEFAULT]
  OBVIOUS
<1>4. /\ DOMAIN to = Resettable /\ to["wiper"] = "locked" /\ to["direction"] = "in"
      /\ \A e \in Elements \cap Resettable : to[e] = DEFAULT
  <2>1. PICK registers : registers = Resettable
    OBVIOUS
  <2>2. to = AfterReset(registers) /\ "wiper" \in registers /\ "direction" \in registers
    BY <1>2, <1>3, <2>1
  <2>3. DOMAIN to = registers
    BY <2>2, ResetOf
  <2>4. to["wiper"] = "locked"
    BY <2>2, ResetOf
  <2>5. to["direction"] = "in"
    BY <2>2, ResetOf
  <2>6. \A e \in Elements \cap registers : to[e] = DEFAULT
    BY <2>2, ResetOf
  <2> QED BY <2>1, <2>3, <2>4, <2>5, <2>6
<1>5. chip = Over(to, base) /\ DOMAIN base = Registers /\ \A r \in Registers : base[r] = DEFAULT
  BY <1>1, <1>3 DEF Registers
<1>6. chip = [r \in DOMAIN base |-> chip[r]]
  BY <1>5, OverIs
<1>7. \A r \in DOMAIN base : chip[r] = IF r \in DOMAIN to THEN to[r] ELSE base[r]
  BY <1>5, OverIs
<1>8. chip = [r \in Registers |-> chip[r]]
  BY <1>5, <1>6
<1>9. \A e \in Elements : chip[e] = DEFAULT
  BY <1>2, <1>4, <1>5, <1>7
<1>10. chip["wiper"] = "locked" /\ chip["direction"] = "in"
  BY <1>2, <1>4, <1>5, <1>7 DEF Registers
<1>11. TypeOK
  <2>1. op \in [e : Elements, value : VALUES, attempt : 0 .. I2C_RETRIES,
                stage : {"idle", "power_on", "set", "reset", "power"}]
    BY <1>1, <1>2, SectionsAssumption
  <2>2. DOMAIN chip = Elements \cup Resettable
    BY <1>8 DEF Registers
  <2> QED BY <1>1, <1>9, <1>10, <2>1, <2>2, SectionsAssumption DEF TypeOK
<1>12. Typed
  <2>1. IsProgram(work) /\ Steps(work) = {}
    BY <1>1, Nothing
  <2> QED BY <1>8, <1>11, <2>1 DEF Typed
<1>13. UnderWay
  BY <1>1 DEF UnderWay, Idle
<1>14. Kept /\ Lost /\ Ends
  BY <1>1 DEF Kept, Lost, Ends
<1>15. Rests
  BY <1>1 DEF Rests, Idle, NeighboursKept
<1> QED BY <1>12, <1>13, <1>14, <1>15 DEF SectionsInv

\* RESET: the chip loses its registers, and its program brings them back.
LEMMA ResetChipInv ==
  ASSUME SectionsInv, ResetChip
  PROVE  SectionsInv'
<1>1. /\ op.stage = "set" /\ op.e \in Resettable /\ held' = ChipOf(op.e)
      /\ chip' = Over(AfterReset(ChipOf(op.e)), chip)
      /\ op' = [op EXCEPT !.stage = "reset"] /\ work' = ResetSteps(op.e, op.value) /\ failed' = FALSE
      /\ UNCHANGED <<powered, section_on, section_code, stopped, answer, restarted, known>>
  BY DEF ResetChip, RetriesDone, Enter, history
<1>2. /\ Typed /\ powered \in BOOLEAN /\ held \in SUBSET Resettable /\ section_on \in BOOLEAN
      /\ section_code \in [Elements -> VALUES \cup {UNKNOWN}]
      /\ known \in [Elements -> VALUES \cup {UNKNOWN}]
      /\ op \in OpType /\ op.e \in Elements /\ op.value \in VALUES
      /\ stopped \in BOOLEAN /\ restarted \in BOOLEAN /\ answer \in {"none", "set", "on", "err"}
  BY TypesAre DEF SectionsInv
<1>3. /\ ~restarted /\ section_code \in [Elements -> VALUES]
      /\ \A x \in Elements \ {op.e} :
           section_code[x] = known[x] /\ (chip[x] = section_code[x] \/ ImageLeft(x))
      /\ Steps(work) \subseteq Setting(op.e, op.value)
  BY <1>1 DEF SectionsInv, Kept
<1>4. \A s \in Steps(work) : s.do \in {"write", "confirm"}
  BY <1>3, StepIs DEF Setting, WriteOf, ConfirmOf
<1>5. \A x : ~ImageLeft(x)
  BY <1>4 DEF ImageLeft
<1>6. powered /\ chip["wiper"] = "free" /\ chip["direction"] = "out" /\ section_on
  <2>1. \A do : do \notin {"write", "confirm"} => Plain(do) \notin Steps(work)
    BY <1>4, PlainIs
  <2>2. \A to : CheckOf(to) \notin Steps(work)
    BY <1>4, StepIs DEF CheckOf
  <2>3. ~Idle
    BY <1>1 DEF Idle
  <2> QED BY <2>1, <2>2, <2>3 DEF SectionsInv, UnderWay
<1>7. op' \in OpType /\ op'.stage = "reset" /\ op'.e = op.e /\ op'.value = op.value
  BY <1>1, <1>2, OpEnters
<1>8. PICK e, value, registers, image, q :
        /\ e \in Elements /\ value \in VALUES /\ e = op.e /\ value = op.value /\ registers = ChipOf(e)
        /\ image = [m \in Matrix |-> section_code[m]] /\ q = ResetSteps(e, value)
  BY <1>2
<1>9. /\ registers = IF e = "poth" THEN {"poth", "wiper"} ELSE {"mtx1", "mtx2", "direction"}
      /\ registers \subseteq Resettable
      /\ e \in registers /\ e \in Resettable
      /\ e \in {"poth", "mtx1", "mtx2"} /\ (e \in Matrix <=> e # "poth") /\ Matrix \subseteq Elements
      /\ {"wiper", "direction"} \subseteq Registers /\ Elements \subseteq Registers
      /\ "wiper" \notin Elements /\ "direction" \notin Elements
  <2>1. e \in {"poth", "mtx1", "mtx2"}
    BY <1>1, <1>8, Names
  <2>2. e \in Poth <=> e = "poth"
    BY <2>1, Names
  <2>3. registers = IF e = "poth" THEN {"poth", "wiper"} ELSE {"mtx1", "mtx2", "direction"}
    BY <1>8, <2>2, Names DEF ChipOf
  <2> QED BY <2>1, <2>3, Names
<1>10. /\ chip' = [r \in Registers |-> chip'[r]]
       /\ \A r \in Registers \ registers : chip'[r] = chip[r]
       /\ "direction" \in registers => chip'["direction"] = "in"
       /\ DOMAIN chip' = Elements \cup Resettable
       /\ \A x \in Elements : chip'[x] \in VALUES
       /\ chip'["wiper"] \in {"locked", "free"} /\ chip'["direction"] \in {"in", "out"}
  <2>1. registers \subseteq Resettable /\ chip' = Over(AfterReset(registers), chip) /\ Typed
    BY <1>1, <1>2, <1>8, <1>9
  <2>2. chip' = [r \in Registers |-> chip'[r]]
    BY <2>1, ChipAfter
  <2>3. \A r \in Registers \ registers : chip'[r] = chip[r]
    BY <2>1, ChipAfter
  <2>4. "direction" \in registers => chip'["direction"] = "in"
    BY <2>1, ChipAfter
  <2>5. DOMAIN chip' = Elements \cup Resettable
    BY <2>1, ChipAfter
  <2>6. \A x \in Elements : chip'[x] \in VALUES
    BY <2>1, ChipAfter
  <2>7. chip'["wiper"] \in {"locked", "free"} /\ chip'["direction"] \in {"in", "out"}
    BY <2>1, ChipAfter
  <2> QED BY <2>2, <2>3, <2>4, <2>5, <2>6, <2>7
<1>11. TypeOK'
  <2>1. op' \in [e : Elements, value : VALUES, attempt : 0 .. I2C_RETRIES,
                 stage : {"idle", "power_on", "set", "reset", "power"}]
    BY <1>7 DEF OpType
  <2>2. held' \in SUBSET Resettable
    BY <1>1, <1>8, <1>9
  <2>3. powered' \in BOOLEAN /\ section_on' \in BOOLEAN /\ failed' \in BOOLEAN
        /\ stopped' \in BOOLEAN /\ restarted' \in BOOLEAN /\ answer' \in {"none", "set", "on", "err"}
        /\ section_code' \in [Elements -> VALUES \cup {UNKNOWN}]
        /\ known' \in [Elements -> VALUES \cup {UNKNOWN}]
    BY <1>1, <1>2
  <2> QED BY <1>10, <2>1, <2>2, <2>3, Zenon DEF TypeOK
<1>12. /\ IsProgram(q) /\ q # <<>> /\ q[Len(q)] = ConfirmOf(e, value)
       /\ Steps(q) = {Plain("release")}
                       \cup (IF e = "poth" THEN Checking(Value("wiper", "free"))
                             ELSE Checking(image) \cup Checking(Value("direction", "out")))
                       \cup Setting(e, value)
       /\ \A s \in Steps(q) : StepOK(s)
       /\ \A i \in 1 .. Len(q) : i # Len(q) => q[i].do # "confirm"
       /\ Ordered(q)
  <2>1. /\ e \in Elements /\ value \in VALUES /\ e \in Resettable /\ q = ResetSteps(e, value) /\ section_code \in [Elements -> VALUES]
        /\ image = [m \in Matrix |-> section_code[m]]
    BY <1>3, <1>8, <1>9
  <2>2. IsProgram(q)
    BY <2>1, ResetStepsAre
  <2>3. q # <<>>
    BY <2>1, ResetStepsAre
  <2>4. q[Len(q)] = ConfirmOf(e, value)
    BY <2>1, ResetStepsAre
  <2>5. Steps(q) = {Plain("release")}
                     \cup (IF e = "poth" THEN Checking(Value("wiper", "free"))
                           ELSE Checking(image) \cup Checking(Value("direction", "out")))
                     \cup Setting(e, value)
    BY <2>1, ResetStepsAre, ZenonT(60)
  <2>6. \A s \in Steps(q) : StepOK(s)
    BY <2>1, ResetStepsAre
  <2>7. \A i \in 1 .. Len(q) : i # Len(q) => q[i].do # "confirm"
    BY <2>1, ResetStepsAre
  <2>8. Ordered(q)
    BY <2>1, ResetStepsAre
  <2> QED BY <2>2, <2>3, <2>4, <2>5, <2>6, <2>7, <2>8
<1>13. work' = q
  BY <1>1, <1>8
<1>14. Typed'
  <2>1. IsProgram(work)' /\ (\A t \in Steps(work) : StepOK(t))'
    BY <1>12, <1>13 DEF IsProgram, Steps, StepOK
  <2> QED BY <1>10, <1>11, <2>1 DEF Typed
<1>15. UnderWay'
  <2>1. Plain("release") \in Steps(q)
    BY <1>12
  <2>2. chip'["wiper"] = "free" \/ CheckOf(Value("wiper", "free")) \in Steps(q)
    BY <1>6, <1>9, <1>10, <1>12 DEF Checking
  <2>3. chip'["direction"] = "out" \/ CheckOf(Value("direction", "out")) \in Steps(q)
    BY <1>6, <1>9, <1>10, <1>12 DEF Checking
  <2> QED BY <1>1, <1>6, <1>13, <2>1, <2>2, <2>3 DEF UnderWay, Steps, Plain, Step, CheckOf, Value
<1>16. ASSUME NEW s \in Steps(q)
       PROVE  /\ s.do # "power"
              /\ s.do \in {"write", "check"} =>
                   \A x \in DOMAIN s.to \cap Elements : s.to[x] = section_code[x] \/ (x = e /\ s.to[x] = value)
              /\ s.do = "confirm" => s = ConfirmOf(e, value)
  <2>1. CASE s = Plain("release")
    BY <2>1, PlainIs
  <2>2. ASSUME NEW r \in {"wiper", "direction"}, NEW v, s \in Checking(Value(r, v))
        PROVE  DOMAIN s.to \cap Elements = {} /\ s.do \in {"write", "check"}
    <3>1. s.to = Value(r, v) /\ s.do \in {"write", "check"}
      BY <2>2, StepIs DEF Checking, WriteOf, CheckOf
    <3>2. DOMAIN Value(r, v) = {r} /\ r \notin Elements
      BY <1>9 DEF Value
    <3> QED BY <3>1, <3>2
  <2>3. CASE s \in Checking(image)
    <3>1. s.to = image /\ s.do \in {"write", "check"}
      BY <2>3, StepIs DEF Checking, WriteOf, CheckOf
    <3> QED BY <1>8, <3>1
  <2>4. CASE s = WriteOf(Value(e, value))
    <3>1. s.to = Value(e, value) /\ s.do = "write"
      BY <2>4, StepIs DEF WriteOf
    <3>2. DOMAIN Value(e, value) = {e} /\ Value(e, value)[e] = value
      BY DEF Value
    <3> QED BY <3>1, <3>2
  <2>5. CASE s = ConfirmOf(e, value)
    <3>1. s.do = "confirm"
      BY <2>5, ConfirmIs
    <3> QED BY <2>5, <3>1
  <2> QED BY <1>12, <1>16, <2>1, <2>2, <2>3, <2>4, <2>5 DEF Setting
<1>17. \A x \in Matrix : e # "poth" => (ImageLeft(x))'
  <2>1. ASSUME e # "poth", NEW x \in Matrix PROVE (ImageLeft(x))'
    <3>1. CheckOf(image) \in Steps(q)
      BY <1>12, <2>1 DEF Checking
    <3>2. CheckOf(image).do = "check" /\ CheckOf(image).to = image
      BY StepIs DEF CheckOf
    <3>3. x \in DOMAIN image /\ image[x] = section_code[x]
      BY <1>8, <2>1
    <3>4. \E s \in Steps(q) : s.do = "check" /\ x \in DOMAIN s.to /\ s.to[x] = section_code'[x]
      BY <1>1, <3>1, <3>2, <3>3
    <3> QED BY <1>13, <3>4 DEF ImageLeft, Steps
  <2> QED BY <2>1
<1>18. Kept'
  <2>1. ASSUME NEW x \in Elements \ {e}
        PROVE  section_code[x] = known[x] /\ (chip'[x] = section_code[x] \/ (ImageLeft(x))')
    <3>1. section_code[x] = known[x] /\ chip[x] = section_code[x]
      BY <1>3, <1>5, <1>8, <2>1
    <3>2. CASE x \in registers
      <4>1. e # "poth" /\ x \in Matrix
        BY <1>9, <2>1, <3>2, Names
      <4> QED BY <1>17, <3>1, <4>1
    <3>3. CASE x \notin registers
      BY <1>9, <1>10, <2>1, <3>1, <3>3
    <3> QED BY <3>2, <3>3
  <2>2. (~restarted /\ section_code \in [Elements -> VALUES])'
    BY <1>1, <1>3
  <2>3. (\A x \in Elements \ {op.e} :
           section_code[x] = known[x] /\ (chip[x] = section_code[x] \/ ImageLeft(x)))'
    BY <1>1, <1>7, <1>8, <2>1
  <2>4. (op.e \in Matrix => chip[op.e] \in {section_code[op.e], op.value} \/ ImageLeft(op.e))'
    <3>1. ASSUME e \in Matrix PROVE (ImageLeft(e))'
      BY <1>9, <1>17, <3>1
    <3>2. (ImageLeft(op.e))' <=> (ImageLeft(e))'
      BY <1>7, <1>8 DEF ImageLeft
    <3> QED BY <1>7, <1>8, <3>1, <3>2
  <2>5. (\A t \in Steps(work) :
            /\ t.do # "power"
            /\ t.do \in {"write", "check"} =>
                 \A x \in DOMAIN t.to \cap Elements :
                   t.to[x] = section_code[x] \/ (x = op.e /\ t.to[x] = op.value)
            /\ t.do = "confirm" => t = ConfirmOf(op.e, op.value))'
    <3>1. op'.e = e /\ op'.value = value /\ section_code' = section_code
      BY <1>1, <1>7, <1>8
    <3>2. \A s \in Steps(work') :
            /\ s.do # "power"
            /\ s.do \in {"write", "check"} =>
                 \A x \in DOMAIN s.to \cap Elements : s.to[x] = section_code[x] \/ (x = e /\ s.to[x] = value)
            /\ s.do = "confirm" => s = ConfirmOf(e, value)
      BY <1>13, <1>16
    <3>3. (Steps(work))' = Steps(work')
      BY DEF Steps
    <3>4. (ConfirmOf(op.e, op.value))' = ConfirmOf(e, value)
      BY <3>1 DEF ConfirmOf, Step, Value
    <3> QED BY <3>1, <3>2, <3>3, <3>4
  <2>6. (op.stage = "set" => Steps(work) \subseteq Setting(op.e, op.value))'
    BY <1>7
  <2>7. (Ordered(work))'
    BY <1>12, <1>13 DEF Ordered, DrivesMatrix, ChecksMatrix
  <2>8. ASSUME chip'["direction"] = "out", NEW t \in Steps(q) PROVE ~ChecksMatrix(t)
    <3>1. e = "poth"
      BY <1>9, <1>10, <2>8
    <3>2. t \in Checking(Value("wiper", "free")) \/ t.do # "check"
      BY <1>12, <2>8, <3>1, PlainIs, StepIs DEF Setting, WriteOf, ConfirmOf
    <3>3. t \in Checking(Value("wiper", "free")) => DOMAIN t.to = {"wiper"}
      <4>1. t \in Checking(Value("wiper", "free")) => t.to = Value("wiper", "free")
        BY StepIs DEF Checking, WriteOf, CheckOf
      <4> QED BY <4>1 DEF Value
    <3> QED BY <1>9, <3>2, <3>3 DEF ChecksMatrix
  <2>9. (chip["direction"] = "out" => \A t \in Steps(work) : ~ChecksMatrix(t))'
    BY <1>13, <2>8 DEF Steps, ChecksMatrix
  <2> QED BY <2>2, <2>3, <2>4, <2>5, <2>6, <2>7, <2>9 DEF Kept
<1>19. Lost' /\ Rests'
  BY <1>7 DEF Lost, Rests, Idle
<1>20. Ends'
  <2>1. (work # <<>> /\ work[Len(work)] = ConfirmOf(op.e, op.value))'
    BY <1>7, <1>8, <1>12, <1>13 DEF ConfirmOf, Step, Value
  <2>2. \A i \in 1 .. Len(work') : i # Len(work') => work'[i].do # "confirm"
    BY <1>12, <1>13
  <2> QED BY <2>1, <2>2 DEF Ends
<1> QED BY <1>14, <1>15, <1>18, <1>19, <1>20 DEF SectionsInv

\* A step that is done.
LEMMA DoneInv ==
  ASSUME SectionsInv, StepDone
  PROVE  SectionsInv'
<1>1. PICK s : Did(s)
  BY DidIs DEF SectionsInv
<1>2. ~Idle /\ ~Idle'
  BY <1>1 DEF SectionsInv, Rests, Did, Idle
<1>3. Typed'
  BY <1>1, DoneTyped
<1>4. UnderWay'
  BY <1>1, <1>2, DoneUnderWay
<1>5. Kept'
  BY <1>1, DoneKept
<1>6. Lost'
  BY <1>1, DoneLost
<1>7. Ends'
  BY <1>1, DoneEnds
<1>8. Rests'
  BY <1>2 DEF Rests
<1> QED BY <1>3, <1>4, <1>5, <1>6, <1>7, <1>8 DEF SectionsInv

\* Every step of the section keeps the invariant.
LEMMA NextInv == SectionsInv /\ [Next]_vars => SectionsInv'
<1> SUFFICES ASSUME SectionsInv, [Next]_vars PROVE SectionsInv'
  OBVIOUS
<1>1. ASSUME NEW e \in Elements, NEW value \in VALUES, ResSet(e, value) PROVE SectionsInv'
  BY <1>1, ResSetInv
<1>2. CASE PowerOn
  BY <1>2, PowerOnInv
<1>3. CASE PowerOff
  BY <1>3, PowerOffInv
<1>4. CASE StepDone
  BY <1>4, DoneInv
<1>5. CASE StepFails
  BY <1>5, FailsInv
<1>6. CASE Succeeds
  BY <1>6, SucceedsInv
<1>7. CASE Retry
  BY <1>7, RetryInv
<1>8. CASE ResetChip
  BY <1>8, ResetChipInv
<1>9. CASE RestartSection
  BY <1>9, RestartSectionInv
<1>10. CASE GiveUp
  BY <1>10, GiveUpInv
<1>11. CASE Stop
  <2>1. UNCHANGED <<board, op, work, failed, history>> /\ stopped' \in BOOLEAN
    BY <1>11 DEF Stop
  <2> QED BY <2>1, SameInv
<1>12. CASE Reset
  BY <1>12, ResetInv
<1>13. CASE UNCHANGED vars
  <2>1. UNCHANGED <<board, op, work, failed, history>> /\ stopped' = stopped
    BY <1>13 DEF vars
  <2>2. stopped \in BOOLEAN
    BY TypesAre DEF SectionsInv
  <2> QED BY <2>1, <2>2, SameInv
<1> QED BY <1>1, <1>2, <1>3, <1>4, <1>5, <1>6, <1>7, <1>8, <1>9, <1>10, <1>11, <1>12, <1>13 DEF Next, Goes

\* The inductive invariant holds in every state of a section.
THEOREM SectionsTheorem == Spec => []SectionsInv
<1>1. Init => SectionsInv
  BY InitInv
<1>2. SectionsInv /\ [Next]_vars => SectionsInv'
  BY NextInv
<1> QED BY <1>1, <1>2, PTL DEF Spec

\* Between commands an announced section is in service and every register holds the announced
\* code, and a section that is off has no power, however its last command failed.
THEOREM TruthTheorem == Spec => []SectionTruth
<1>1. SectionsInv => SectionTruth
  <2> SUFFICES ASSUME SectionsInv PROVE SectionTruth
    OBVIOUS
  <2>1. TypeOK
    BY DEF SectionsInv, Typed
  <2>2. ASSUME Idle
        PROVE  /\ powered = section_on
               /\ section_on => /\ held = {} /\ chip["wiper"] = "free" /\ chip["direction"] = "out"
                                /\ \A e \in Elements : chip[e] = section_code[e]
               /\ NeighboursKept
    <3>1. /\ work = <<>> /\ powered = section_on /\ NeighboursKept
          /\ section_on => \A e \in Elements : chip[e] = section_code[e]
      BY <2>2 DEF SectionsInv, Rests
    <3>2. Steps(work) = {}
      <4>1. work = <<>>
        BY <3>1
      <4> QED BY <4>1, Nothing
    <3>3. ASSUME section_on PROVE held = {} /\ chip["wiper"] = "free" /\ chip["direction"] = "out"
      BY <3>2, <3>3 DEF SectionsInv, UnderWay
    <3> QED BY <3>1, <3>3
  <2> QED BY <2>1, <2>2 DEF SectionTruth
<1> QED BY <1>1, SectionsTheorem, PTL

\* Whenever the matrices drive, each shows what is announced or just being set: the direction
\* is never released over a stale latch.
THEOREM MatrixTheorem == Spec => []MatrixShows
<1>1. SectionsInv => MatrixShows
  <2> SUFFICES ASSUME SectionsInv, powered, chip["direction"] = "out", NEW m \in Matrix
               PROVE  \/ chip[m] = section_code[m]
                      \/ op.stage \in {"set", "reset", "power"} /\ op.e = m /\ chip[m] = op.value
                      \/ section_code[m] = UNKNOWN /\ chip[m] = DEFAULT
    BY DEF MatrixShows
  <2>1. op.stage \in {"idle", "power_on", "set", "reset", "power"} /\ op.e \in Elements
        /\ powered \in BOOLEAN /\ section_on \in BOOLEAN
    BY TypesAre DEF SectionsInv
  <2>2. m \in Elements
    BY Names
  <2>3. CASE op.stage = "idle"
    <3>1. section_on /\ \A e \in Elements : chip[e] = section_code[e]
      BY <2>1, <2>3 DEF SectionsInv, Rests, Idle
    <3> QED BY <2>2, <3>1
  <2>4. CASE op.stage \in {"set", "reset"}
    <3>1. \A s \in Steps(work) : ~ChecksMatrix(s)
      BY <2>4 DEF SectionsInv, Kept
    <3>2. ~ImageLeft(m)
      BY <3>1 DEF ImageLeft, ChecksMatrix
    <3>3. CASE m = op.e
      BY <2>4, <3>2, <3>3 DEF SectionsInv, Kept
    <3>4. CASE m # op.e
      BY <2>2, <2>4, <3>2, <3>4 DEF SectionsInv, Kept
    <3> QED BY <3>3, <3>4
  <2>5. CASE op.stage = "power_on"
    BY <2>5 DEF SectionsInv, Lost
  <2>6. CASE op.stage = "power"
    <3>1. /\ chip[m] = DEFAULT \/ (op.e = m /\ chip[m] = op.value)
          /\ section_code[m] \in {UNKNOWN, DEFAULT} \/ (op.e = m /\ work = <<>>)
      BY <2>6 DEF SectionsInv, Lost
    <3>2. work = <<>> => chip[op.e] = op.value
      BY <2>6 DEF SectionsInv, Ends
    <3> QED BY <2>6, <3>1, <3>2
  <2> QED BY <2>1, <2>3, <2>4, <2>5, <2>6
<1> QED BY <1>1, SectionsTheorem, PTL
=============================================================================
