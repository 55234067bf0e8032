--------------------------- MODULE OutputsProofs ----------------------------
(* Theorems about Outputs, for every value of its constants. *)
EXTENDS Outputs, FiniteSetTheorems, TLAPS

-----------------------------------------------------------------------------
(* The operators the actions are built from.                               *)

\* A calibration, or none, has a lowest code; with one there is a higher code too.
LEMMA CodeTypes ==
  /\ RawCode \in Codes
  /\ \A cal \in CALS \cup {NONE} : minimum_code(cal) \in Codes
  /\ \A cal \in CALS, at \in {"min", "above"} : [cal |-> cal, at |-> at] \in Codes
BY DEF Codes, RawCode, minimum_code

\* Fewer closed contacts cannot create a conflict.
LEMMA ConflictMonotone ==
  ASSUME NEW A, NEW B, A \subseteq B, relays_conflict(A)
  PROVE  relays_conflict(B)
<1>1. PICK g \in GROUPS : Cardinality(A \cap g) > 1
  BY DEF relays_conflict
<1>2. IsFiniteSet(B \cap g) /\ A \cap g \subseteq B \cap g
  <2>1. IsFiniteSet(g)
    BY OutputsAssumption
  <2> QED
    BY <2>1, FS_Subset
<1>3. /\ Cardinality(A \cap g) <= Cardinality(B \cap g)
      /\ Cardinality(A \cap g) \in Nat /\ Cardinality(B \cap g) \in Nat
  BY <1>2, FS_Subset, FS_CardinalityType
<1>4. Cardinality(B \cap g) > 1
  BY <1>1, <1>3
<1> QED
  BY <1>4 DEF relays_conflict

-----------------------------------------------------------------------------
(* The invariant.                                                          *)

\* After power-up all is off.
LEMMA InitInv == Init => OutputsInv
<1> SUFFICES ASSUME Init PROVE OutputsInv
  OBVIOUS
<1>1. TypeOK
  BY CodeTypes DEF Init, TypeOK, Unpowered, PsuType, SafeType, Waits
<1>2. DacInv /\ WaitInv /\ EraseMeansOff
  BY DEF Init, DacInv, WaitInv, EraseMeansOff, Unpowered, Off
<1>3. NoConflict
  <2>1. \A g : {} \cap g = {}
    OBVIOUS
  <2> QED
    BY FS_EmptySet DEF Init, NoConflict, relays_conflict
<1> QED
  BY <1>1, <1>2, <1>3 DEF OutputsInv

\* Switching off and the flags around a command keep the types of the records.
LEMMA RecordTypes ==
  /\ \A p \in PsuType : RspOff(p) \in PsuType
  /\ \A s \in SafeType : Setting(s) \in SafeType /\ Succeeded(s) \in SafeType
BY DEF PsuType, SafeType, RspOff, Setting, Succeeded

\* A DAC write keeps the types; one that succeeds leaves its code in the DAC.
LEMMA DacWriteFacts ==
  ASSUME NEW ok \in BOOLEAN, NEW p \in PsuType, NEW code \in Codes,
         dac_out \in Codes, DacWrite(ok, code)
  PROVE  /\ Written(ok, p, code) \in PsuType /\ dac_out' \in Codes
         /\ ok => dac_out' = code
<1>1. dac_out' \in Codes /\ (ok => dac_out' = code)
  BY DEF DacWrite
<1>2. Written(ok, p, code) \in PsuType
  BY DEF Written, PsuType
<1> QED
  BY <1>1, <1>2

\* PSU:VOLT: a code of the calibration in force, or the supply goes off.
LEMMA VoltInv ==
  ASSUME OutputsInv, NEW at \in {"min", "above"}, Volt(at)
  PROVE  OutputsInv'
<1> DEFINE code == [cal |-> psu.cal, at |-> at]
<1>1. PICK ok \in BOOLEAN :
        /\ DacWrite(ok, code)
        /\ psu' = IF ok THEN Written(ok, psu, code) ELSE RspOff(Written(ok, psu, code))
        /\ safe' = IF ok THEN Succeeded(safe) ELSE DacFailed(safe)
  BY DEF Volt
<1>2. code \in Codes /\ psu \in PsuType /\ dac_out \in Codes
  BY CodeTypes DEF OutputsInv, TypeOK, Volt, PsuType
<1>3. Written(ok, psu, code) \in PsuType /\ dac_out' \in Codes /\ (ok => dac_out' = code)
  BY <1>1, <1>2, DacWriteFacts
<1>4. TypeOK'
  <2>1. psu' \in PsuType /\ dac_out' \in Codes
    BY <1>1, <1>3 DEF RspOff, PsuType
  <2>2. safe' \in SafeType
    BY <1>1 DEF OutputsInv, TypeOK, Succeeded, Setting, DacFailed, SafeType
  <2> QED
    BY <2>1, <2>2 DEF OutputsInv, TypeOK, Volt, inputs, switches
<1>5. DacInv'
  BY <1>1, <1>3 DEF OutputsInv, Volt, Written, RspOff, DacInv, Calibrated, PsuType,
     TypeOK
<1>6. WaitInv'
  BY DEF OutputsInv, Volt, Idle, Succeeded, Setting, DacFailed, WaitInv, TypeOK,
     SafeType
<1>7. EraseMeansOff' /\ NoConflict'
  BY DEF OutputsInv, Volt, Succeeded, DacFailed, Setting, EraseMeansOff, NoConflict,
     switches, TypeOK, SafeType
<1> QED
  BY <1>4, <1>5, <1>6, <1>7 DEF OutputsInv

\* PSU:CAL:MODE switches off and writes the lowest code; the raw code is forgotten.
LEMMA CalModeInv ==
  ASSUME OutputsInv, NEW on \in BOOLEAN, CalMode(on)
  PROVE  OutputsInv'
<1> DEFINE off == [RspOff(psu) EXCEPT !.service = on, !.raw_ready = FALSE]
<1>1. PICK ok \in BOOLEAN :
        /\ DacWrite(ok, minimum_code(psu.cal))
        /\ psu' = Written(ok, off, minimum_code(psu.cal))
        /\ safe' = IF ok THEN Succeeded(safe) ELSE DacFailed(safe)
  BY DEF CalMode
<1>2. minimum_code(psu.cal) \in Codes /\ off \in PsuType /\ dac_out \in Codes
  BY CodeTypes DEF OutputsInv, TypeOK, PsuType, RspOff
<1>3. Written(ok, off, minimum_code(psu.cal)) \in PsuType /\ dac_out' \in Codes
      /\ (ok => dac_out' = minimum_code(psu.cal))
  BY <1>1, <1>2, DacWriteFacts
<1>4. TypeOK'
  <2>1. psu' \in PsuType /\ dac_out' \in Codes
    BY <1>1, <1>3
  <2>2. safe' \in SafeType
    BY <1>1 DEF OutputsInv, TypeOK, Succeeded, Setting, DacFailed, SafeType
  <2> QED
    BY <2>1, <2>2 DEF OutputsInv, TypeOK, CalMode, inputs, switches
<1>5. DacInv'
  BY <1>1, <1>2, <1>3 DEF OutputsInv, CalMode, Written, RspOff, DacInv, Calibrated,
     minimum_code, RawCode, TypeOK, PsuType
<1>6. WaitInv'
  BY DEF OutputsInv, CalMode, Idle, Succeeded, Setting, DacFailed, WaitInv, TypeOK,
     SafeType
<1>7. EraseMeansOff' /\ NoConflict'
  BY DEF OutputsInv, CalMode, Succeeded, Setting, DacFailed, EraseMeansOff, NoConflict,
     switches, TypeOK, SafeType
<1> QED
  BY <1>4, <1>5, <1>6, <1>7 DEF OutputsInv

\* PSU:CAL:CODE: only after a write that succeeded may the raw code be used.
LEMMA CalCodeInv ==
  ASSUME OutputsInv, CalCode
  PROVE  OutputsInv'
<1>1. PICK ok \in BOOLEAN :
        /\ DacWrite(ok, RawCode)
        /\ psu' = IF ok THEN [Written(ok, psu, RawCode) EXCEPT !.raw_ready = ok]
                ELSE RspOff([Written(ok, psu, RawCode) EXCEPT !.raw_ready = ok])
        /\ safe' = IF ok THEN Succeeded(safe) ELSE DacFailed(safe)
  BY DEF CalCode
<1>2. RawCode \in Codes /\ psu \in PsuType /\ dac_out \in Codes
  BY CodeTypes DEF OutputsInv, TypeOK
<1>3. Written(ok, psu, RawCode) \in PsuType /\ dac_out' \in Codes
      /\ (ok => dac_out' = RawCode)
  BY <1>1, <1>2, DacWriteFacts
<1>4. TypeOK'
  <2>1. psu' \in PsuType /\ dac_out' \in Codes
    BY <1>1, <1>3 DEF RspOff, PsuType
  <2>2. safe' \in SafeType
    BY <1>1 DEF OutputsInv, TypeOK, Succeeded, Setting, DacFailed, SafeType
  <2> QED
    BY <2>1, <2>2 DEF OutputsInv, TypeOK, CalCode, inputs, switches
<1>5. DacInv'
  BY <1>1, <1>3 DEF OutputsInv, CalCode, Written, RspOff, DacInv, Calibrated, PsuType,
     TypeOK
<1>6. WaitInv'
  BY DEF OutputsInv, CalCode, Idle, Succeeded, Setting, DacFailed, WaitInv, TypeOK,
     SafeType
<1>7. EraseMeansOff' /\ NoConflict'
  BY DEF OutputsInv, CalCode, Succeeded, Setting, DacFailed, EraseMeansOff, NoConflict,
     switches, TypeOK, SafeType
<1> QED
  BY <1>4, <1>5, <1>6, <1>7 DEF OutputsInv

\* PSU:CAL:SET and LOAD: the supply is off, so a code that is not known yet is
\* no voltage; the calibration changes only with its code in the DAC.
LEMMA ApplyCalInv ==
  ASSUME OutputsInv, NEW next \in CALS, ApplyCal(next)
  PROVE  OutputsInv'
<1>1. PICK ok \in BOOLEAN :
        /\ DacWrite(ok, minimum_code(next))
        /\ psu' = IF ok THEN [Written(ok, psu, minimum_code(next)) EXCEPT !.cal = next]
                ELSE RspOff(Written(ok, psu, minimum_code(next)))
        /\ safe' = IF ok THEN safe ELSE DacFailed(safe)
  BY DEF ApplyCal
<1>2. minimum_code(next) \in Codes /\ psu \in PsuType /\ dac_out \in Codes
  BY CodeTypes DEF OutputsInv, TypeOK
<1>3. Written(ok, psu, minimum_code(next)) \in PsuType /\ dac_out' \in Codes
      /\ (ok => dac_out' = minimum_code(next))
  BY <1>1, <1>2, DacWriteFacts
<1>4. TypeOK'
  <2>1. psu' \in PsuType /\ dac_out' \in Codes
    BY <1>1, <1>3 DEF RspOff, PsuType
  <2>2. safe' \in SafeType
    BY <1>1 DEF OutputsInv, TypeOK, DacFailed, SafeType
  <2> QED
    BY <2>1, <2>2 DEF OutputsInv, TypeOK, ApplyCal, inputs, switches
<1>5. DacInv'
  BY <1>1, <1>3 DEF OutputsInv, ApplyCal, Written, RspOff, CalIdle, Idle, DacInv,
     WaitInv, minimum_code, PsuType, TypeOK
<1>6. WaitInv'
  BY DEF OutputsInv, ApplyCal, Idle, Written, CalIdle, DacFailed, WaitInv, AtMinimum,
     switches, TypeOK, PsuType
<1>7. EraseMeansOff' /\ NoConflict'
  BY DEF OutputsInv, ApplyCal, Written, DacFailed, EraseMeansOff, Off, NoConflict,
     switches, TypeOK, PsuType
<1> QED
  BY <1>4, <1>5, <1>6, <1>7 DEF OutputsInv

\* SAFE begins: all supplies off, the lowest code in the DAC if the write succeeds.
LEMMA SafeBeginInv ==
  ASSUME OutputsInv, SafeBegin
  PROVE  OutputsInv'
<1>1. PICK ok \in BOOLEAN :
        /\ DacWrite(ok, minimum_code(psu.cal))
        /\ psu' = Written(ok, Quiet(psu), minimum_code(psu.cal))
        /\ safe' = IF ok THEN [safe EXCEPT !.complete = TRUE] ELSE DacFailed(safe)
  BY DEF SafeBegin
<1>2. minimum_code(psu.cal) \in Codes /\ Quiet(psu) \in PsuType /\ dac_out \in Codes
  BY CodeTypes DEF OutputsInv, TypeOK, PsuType, Quiet, RspOff
<1>3. Written(ok, Quiet(psu), minimum_code(psu.cal)) \in PsuType /\ dac_out' \in Codes
      /\ (ok => dac_out' = minimum_code(psu.cal))
  BY <1>1, <1>2, DacWriteFacts
<1>4. TypeOK'
  <2>1. psu' \in PsuType /\ dac_out' \in Codes
    BY <1>1, <1>3
  <2>2. safe' \in SafeType
    BY <1>1 DEF OutputsInv, TypeOK, DacFailed, SafeType
  <2> QED
    BY <2>1, <2>2 DEF OutputsInv, TypeOK, SafeBegin, Wait, Waits, inputs
<1>5. DacInv'
  BY <1>1, <1>2, <1>3, ZenonT(30) DEF OutputsInv, SafeBegin, Written, RspOff, Quiet, DacInv,
     Calibrated, minimum_code, RawCode, TypeOK, PsuType
<1>6. WaitInv'
  BY OutputsAssumption DEF OutputsInv, SafeBegin, Wait, Written, Quiet, RspOff,
     DacFailed, WaitInv, AtMinimum, Waits, TypeOK, PsuType, SafeType
<1>7. EraseMeansOff' /\ NoConflict'
  BY DEF OutputsInv, SafeBegin, Written, Quiet, RspOff, DacFailed, EraseMeansOff, Off,
     NoConflict, TypeOK, PsuType, SafeType
<1> QED
  BY <1>4, <1>5, <1>6, <1>7 DEF OutputsInv

\* The start-up: nothing is on since the reset.
LEMMA BootPsuInv ==
  ASSUME OutputsInv, BootPsu
  PROVE  OutputsInv'
<1> DEFINE loaded == [psu EXCEPT !.cal = saved]
<1>1. PICK ok \in BOOLEAN :
        /\ DacWrite(ok, minimum_code(saved))
        /\ psu' = Written(ok, loaded, minimum_code(saved))
        /\ safe' = [safe EXCEPT !.complete = ok]
  BY DEF BootPsu
<1>2. minimum_code(saved) \in Codes /\ loaded \in PsuType /\ dac_out \in Codes
  BY CodeTypes DEF OutputsInv, TypeOK, PsuType
<1>3. Written(ok, loaded, minimum_code(saved)) \in PsuType /\ dac_out' \in Codes
      /\ (ok => dac_out' = minimum_code(saved))
  BY <1>1, <1>2, DacWriteFacts
<1>4. TypeOK'
  <2>1. psu' \in PsuType /\ dac_out' \in Codes
    BY <1>1, <1>3
  <2>2. safe' \in SafeType
    BY <1>1 DEF OutputsInv, TypeOK, SafeType
  <2> QED
    BY <2>1, <2>2 DEF OutputsInv, TypeOK, BootPsu, Wait, Waits, inputs, switches
<1>5. DacInv'
  BY <1>1, <1>3 DEF OutputsInv, BootPsu, Written, DacInv, WaitInv, Off, minimum_code,
     PsuType, TypeOK, SafeType
<1>6. WaitInv'
  BY DEF OutputsInv, BootPsu, Wait, Written, WaitInv, Off, AtMinimum, switches, TypeOK,
     PsuType, SafeType
<1>7. EraseMeansOff' /\ NoConflict'
  BY DEF OutputsInv, BootPsu, Written, EraseMeansOff, Off, NoConflict, switches, TypeOK,
     PsuType, SafeType
<1> QED
  BY <1>4, <1>5, <1>6, <1>7 DEF OutputsInv

\* PSU:OUTP RSP,ON: on only with a code that is known and was written again.
LEMMA RspStartInv ==
  ASSUME OutputsInv, RspStart
  PROVE  OutputsInv'
<1>1. PICK ok \in BOOLEAN :
        /\ DacWrite(ok, psu.dac)
        /\ psu' = IF ok THEN [Written(ok, psu, psu.dac)
                                EXCEPT !.rsp = TRUE, !.starting = TRUE]
                ELSE RspOff(Written(ok, psu, psu.dac))
        /\ safe' = IF ok THEN Setting(safe) ELSE DacFailed(safe)
  BY DEF RspStart
<1>2. psu.dac \in Codes /\ psu \in PsuType /\ dac_out \in Codes
  BY DEF OutputsInv, TypeOK, PsuType
<1>3. Written(ok, psu, psu.dac) \in PsuType /\ dac_out' \in Codes
      /\ (ok => dac_out' = psu.dac)
  BY <1>1, <1>2, DacWriteFacts
<1>4. TypeOK'
  <2>1. psu' \in PsuType /\ dac_out' \in Codes
    BY <1>1, <1>3 DEF RspOff, PsuType
  <2>2. safe' \in SafeType
    BY <1>1 DEF OutputsInv, TypeOK, Setting, DacFailed, SafeType
  <2> QED
    BY <2>1, <2>2 DEF OutputsInv, TypeOK, RspStart, Wait, Waits, inputs, switches
<1>5. DacInv'
  BY <1>1, <1>3 DEF OutputsInv, RspStart, Written, RspOff, MayStart, DacInv, Calibrated,
     TypeOK, PsuType
<1>6. WaitInv'
  BY <1>1, OutputsAssumption DEF OutputsInv, RspStart, Idle, Wait, Written, Setting,
     DacFailed, WaitInv, TypeOK, AtMinimum, switches, PsuType, SafeType
<1>7. EraseMeansOff' /\ NoConflict'
  BY <1>1 DEF OutputsInv, RspStart, Setting, DacFailed, EraseMeansOff, NoConflict,
     switches, TypeOK, SafeType
<1> QED
  BY <1>4, <1>5, <1>6, <1>7 DEF OutputsInv

\* The actions on the supply that do not write the DAC.
LEMMA SwitchSupplyInv ==
  ASSUME OutputsInv, \/ \E on \in BOOLEAN : Hlg(on)
                     \/ RspOffCommand \/ RspRefused \/ RspAlreadyOn
                     \/ RspStartEnds \/ RspStartAborted \/ Poll \/ CalSave
  PROVE  OutputsInv'
<1>1. ASSUME NEW on \in BOOLEAN, Hlg(on) PROVE OutputsInv'
  <2>1. TypeOK'
    BY <1>1 DEF OutputsInv, Hlg, Succeeded, Setting, TypeOK, PsuType, SafeType, inputs,
       switches
  <2>2. DacInv'
    BY <1>1 DEF OutputsInv, Hlg, DacInv, Calibrated, TypeOK, PsuType
  <2>3. WaitInv'
    BY <1>1, OutputsAssumption DEF OutputsInv, Hlg, Idle, Succeeded, Setting, WaitInv,
       TypeOK, PsuType, SafeType, Off, AtMinimum, Waits, inputs, switches
  <2>4. EraseMeansOff'
    BY <1>1, OutputsAssumption DEF OutputsInv, Hlg, Idle, Succeeded, Setting,
       EraseMeansOff, WaitInv, TypeOK, PsuType, SafeType, Off, Waits, inputs, switches
  <2>5. NoConflict'
    BY <1>1 DEF OutputsInv, Hlg, NoConflict, switches
  <2> QED
    BY <2>1, <2>2, <2>3, <2>4, <2>5 DEF OutputsInv
<1>2. ASSUME RspOffCommand PROVE OutputsInv'
  <2>1. TypeOK'
    BY <1>2 DEF OutputsInv, RspOffCommand, RspOff, Succeeded, Setting, TypeOK, PsuType,
       SafeType, Waits, inputs, switches
  <2>2. DacInv'
    BY <1>2 DEF OutputsInv, RspOffCommand, RspOff, DacInv, TypeOK, PsuType
  <2>3. WaitInv'
    BY <1>2 DEF OutputsInv, RspOffCommand, Idle, RspOff, Succeeded, Setting, WaitInv,
       TypeOK, PsuType, SafeType
  <2>4. EraseMeansOff'
    BY <1>2 DEF OutputsInv, RspOffCommand, Idle, RspOff, Succeeded, Setting,
       EraseMeansOff, WaitInv, inputs, switches, TypeOK, PsuType, SafeType
  <2>5. NoConflict'
    BY <1>2 DEF OutputsInv, RspOffCommand, NoConflict, switches
  <2> QED
    BY <2>1, <2>2, <2>3, <2>4, <2>5 DEF OutputsInv
<1>3. ASSUME RspRefused PROVE OutputsInv'
  <2>1. TypeOK'
    BY <1>3 DEF OutputsInv, RspRefused, RspOff, Setting, TypeOK, PsuType, SafeType,
       inputs, switches
  <2>2. DacInv'
    BY <1>3 DEF OutputsInv, RspRefused, RspOff, DacInv, TypeOK, PsuType
  <2>3. WaitInv'
    BY <1>3, OutputsAssumption DEF OutputsInv, RspRefused, Idle, RspOff, Setting,
       WaitInv, AtMinimum, switches, TypeOK, PsuType, SafeType
  <2>4. EraseMeansOff'
    BY <1>3 DEF OutputsInv, RspRefused, Setting, EraseMeansOff, TypeOK, SafeType
  <2>5. NoConflict'
    BY <1>3 DEF OutputsInv, RspRefused, NoConflict, switches
  <2> QED
    BY <2>1, <2>2, <2>3, <2>4, <2>5 DEF OutputsInv
<1>4. ASSUME RspAlreadyOn PROVE OutputsInv'
  <2>1. TypeOK'
    BY <1>4 DEF OutputsInv, RspAlreadyOn, Succeeded, Setting, TypeOK, SafeType, inputs,
       switches
  <2>2. DacInv'
    BY <1>4 DEF OutputsInv, RspAlreadyOn, DacInv, Calibrated
  <2>3. WaitInv'
    BY <1>4 DEF OutputsInv, RspAlreadyOn, Idle, Succeeded, Setting, WaitInv, TypeOK,
       SafeType
  <2>4. EraseMeansOff'
    BY <1>4 DEF OutputsInv, RspAlreadyOn, Succeeded, Setting, EraseMeansOff, TypeOK,
       SafeType
  <2>5. NoConflict'
    BY <1>4 DEF OutputsInv, RspAlreadyOn, NoConflict, switches
  <2> QED
    BY <2>1, <2>2, <2>3, <2>4, <2>5 DEF OutputsInv
<1>5. ASSUME RspStartEnds PROVE OutputsInv'
  <2>1. TypeOK'
    BY <1>5 DEF OutputsInv, RspStartEnds, Done, RspOff, RspStarted, Succeeded, Setting,
       TypeOK, PsuType, SafeType, inputs, switches
  <2>2. DacInv'
    BY <1>5 DEF OutputsInv, RspStartEnds, RspOff, RspStarted, DacInv, Calibrated,
       TypeOK, PsuType
  <2>3. WaitInv'
    BY <1>5, OutputsAssumption DEF OutputsInv, RspStartEnds, Done, RspOff, Succeeded,
       Setting, WaitInv, TypeOK, PsuType, SafeType, AtMinimum, Waits, switches
  <2>4. EraseMeansOff'
    BY <1>5 DEF OutputsInv, RspStartEnds, Succeeded, Setting, EraseMeansOff, TypeOK,
       SafeType, Off, switches
  <2>5. NoConflict'
    BY <1>5 DEF OutputsInv, RspStartEnds, NoConflict, switches
  <2> QED
    BY <2>1, <2>2, <2>3, <2>4, <2>5 DEF OutputsInv
<1>6. ASSUME RspStartAborted PROVE OutputsInv'
  <2>1. TypeOK'
    BY <1>6 DEF OutputsInv, RspStartAborted, Done, RspOff, TypeOK, PsuType, inputs,
       switches
  <2>2. DacInv'
    BY <1>6 DEF OutputsInv, RspStartAborted, RspOff, DacInv, TypeOK, PsuType
  <2>3. WaitInv'
    BY <1>6, OutputsAssumption DEF OutputsInv, RspStartAborted, Done, RspOff, WaitInv,
       TypeOK, AtMinimum, Waits, switches, PsuType
  <2>4. EraseMeansOff'
    BY <1>6 DEF OutputsInv, RspStartAborted, RspOff, EraseMeansOff, Off, switches,
       TypeOK, PsuType
  <2>5. NoConflict'
    BY <1>6 DEF OutputsInv, RspStartAborted, NoConflict, switches
  <2> QED
    BY <2>1, <2>2, <2>3, <2>4, <2>5 DEF OutputsInv
<1>7. ASSUME Poll PROVE OutputsInv'
  <2>1. TypeOK'
    BY <1>7, RecordTypes DEF OutputsInv, Poll, TypeOK, inputs, switches
  <2>2. DacInv'
    BY <1>7 DEF OutputsInv, Poll, RspOff, DacInv, TypeOK, PsuType
  <2>3. WaitInv'
    BY <1>7 DEF OutputsInv, Poll, RspOff, WaitInv, Off, AtMinimum, switches, TypeOK,
       PsuType
  <2>4. EraseMeansOff'
    BY <1>7 DEF OutputsInv, Poll, EraseMeansOff, Off
  <2>5. NoConflict'
    BY <1>7 DEF OutputsInv, Poll, NoConflict, switches
  <2> QED
    BY <2>1, <2>2, <2>3, <2>4, <2>5 DEF OutputsInv
<1>8. ASSUME CalSave PROVE OutputsInv'
  <2>1. TypeOK'
    BY <1>8 DEF OutputsInv, CalSave, Idle, CalIdle, TypeOK, PsuType, SafeType, inputs,
       switches
  <2>2. DacInv'
    BY <1>8 DEF OutputsInv, CalSave, Idle, CalIdle, DacInv, WaitInv, TypeOK, SafeType
  <2>3. WaitInv'
    BY <1>8 DEF OutputsInv, CalSave, Idle, CalIdle, WaitInv, AtMinimum, switches,
       TypeOK, SafeType
  <2>4. EraseMeansOff'
    BY <1>8, OutputsAssumption DEF OutputsInv, CalSave, Idle, CalIdle, EraseMeansOff,
       WaitInv, TypeOK, Off, switches, SafeType
  <2>5. NoConflict'
    BY <1>8 DEF OutputsInv, CalSave, NoConflict, switches
  <2> QED
    BY <2>1, <2>2, <2>3, <2>4, <2>5 DEF OutputsInv
<1> QED
  BY <1>1, <1>2, <1>3, <1>4, <1>5, <1>6, <1>7, <1>8

\* The commands of the relays, the lines and the sections.
LEMMA SwitchingInv ==
  ASSUME OutputsInv, Switching \/ \E r \in RELAYS : ContactOpens(r)
  PROVE  OutputsInv'
<1>1. ASSUME NEW target \in SUBSET RELAYS, Route(target) PROVE OutputsInv'
  <2>1. TypeOK'
    BY <1>1, RecordTypes DEF OutputsInv, Route, Wait, TypeOK, Waits, inputs
  <2>2. DacInv'
    BY <1>1 DEF OutputsInv, Route, DacInv, Calibrated
  <2>3. WaitInv'
    BY <1>1 DEF OutputsInv, Route, Idle, Wait, Succeeded, Setting, WaitInv, TypeOK,
       SafeType
  <2>4. EraseMeansOff'
    BY <1>1 DEF OutputsInv, Route, Succeeded, Setting, EraseMeansOff, TypeOK, SafeType
  <2>5. NoConflict'
    <3>1. CASE MustWait(target)
      <4>1. relays' \cup releasing' = relays \cup releasing
        BY <1>1, <3>1 DEF Route
      <4> QED
        BY <4>1 DEF OutputsInv, NoConflict
    <3>2. CASE ~MustWait(target)
      <4>1. relays' \cup releasing' = relays \cup releasing
        BY <1>1, <3>2 DEF Route, MustWait
      <4> QED
        BY <4>1 DEF OutputsInv, NoConflict
    <3> QED
      BY <3>1, <3>2
  <2> QED
    BY <2>1, <2>2, <2>3, <2>4, <2>5 DEF OutputsInv
<1>2. ASSUME RouteMake PROVE OutputsInv'
  <2>1. TypeOK'
    BY <1>2 DEF OutputsInv, RouteMake, Done, TypeOK, inputs
  <2>2. DacInv'
    BY <1>2 DEF OutputsInv, RouteMake, DacInv, Calibrated
  <2>3. WaitInv'
    BY <1>2 DEF OutputsInv, RouteMake, Done, WaitInv
  <2>4. EraseMeansOff'
    BY <1>2 DEF OutputsInv, RouteMake, EraseMeansOff, WaitInv
  <2>5. NoConflict'
    <3>1. releasing = {} /\ ~relays_conflict(goal)
      BY <1>2 DEF OutputsInv, RouteMake, WaitInv
    <3>2. relays' \cup releasing' = goal
      BY <1>2, <3>1 DEF RouteMake
    <3> QED
      BY <3>1, <3>2 DEF NoConflict
  <2> QED
    BY <2>1, <2>2, <2>3, <2>4, <2>5 DEF OutputsInv
<1>3. ASSUME RouteAborted PROVE OutputsInv'
  <2>1. TypeOK'
    BY <1>3 DEF OutputsInv, RouteAborted, Done, TypeOK, inputs, switches
  <2>2. DacInv'
    BY <1>3 DEF OutputsInv, RouteAborted, DacInv, Calibrated
  <2>3. WaitInv'
    BY <1>3 DEF OutputsInv, RouteAborted, Done, WaitInv
  <2>4. EraseMeansOff'
    BY <1>3 DEF OutputsInv, RouteAborted, EraseMeansOff, WaitInv
  <2>5. NoConflict'
    BY <1>3 DEF OutputsInv, RouteAborted, NoConflict, switches
  <2> QED
    BY <2>1, <2>2, <2>3, <2>4, <2>5 DEF OutputsInv
<1>4. ASSUME NEW r \in RELAYS, ContactOpens(r) PROVE OutputsInv'
  <2>1. TypeOK'
    BY <1>4 DEF OutputsInv, ContactOpens, TypeOK, inputs
  <2>2. DacInv'
    BY <1>4 DEF OutputsInv, ContactOpens, DacInv, Calibrated
  <2>3. WaitInv'
    BY <1>4 DEF OutputsInv, ContactOpens, WaitInv, Off, AtMinimum
  <2>4. EraseMeansOff'
    BY <1>4 DEF OutputsInv, ContactOpens, EraseMeansOff, Off
  <2>5. NoConflict'
    <3>1. relays' \cup releasing' \subseteq relays \cup releasing
      BY <1>4 DEF ContactOpens
    <3> QED
      BY <3>1, ConflictMonotone DEF OutputsInv, NoConflict
  <2> QED
    BY <2>1, <2>2, <2>3, <2>4, <2>5 DEF OutputsInv
<1>5. ASSUME NEW lines \in SUBSET LINES, DutSet(lines) PROVE OutputsInv'
  <2>1. TypeOK'
    BY <1>5, RecordTypes DEF OutputsInv, DutSet, TypeOK, inputs
  <2>2. DacInv'
    BY <1>5 DEF OutputsInv, DutSet, DacInv, Calibrated
  <2>3. WaitInv'
    BY <1>5 DEF OutputsInv, DutSet, Idle, Succeeded, Setting, WaitInv, TypeOK, SafeType
  <2>4. EraseMeansOff'
    BY <1>5 DEF OutputsInv, DutSet, Succeeded, Setting, EraseMeansOff, TypeOK, SafeType
  <2>5. NoConflict'
    BY <1>5 DEF OutputsInv, DutSet, NoConflict
  <2> QED
    BY <2>1, <2>2, <2>3, <2>4, <2>5 DEF OutputsInv
<1>6. ASSUME NEW bus \in BUSES, SectionOff(bus) PROVE OutputsInv'
  <2>1. TypeOK'
    BY <1>6, RecordTypes DEF OutputsInv, SectionOff, TypeOK, inputs
  <2>2. DacInv'
    BY <1>6 DEF OutputsInv, SectionOff, DacInv, Calibrated
  <2>3. WaitInv'
    BY <1>6 DEF OutputsInv, SectionOff, Idle, Succeeded, Setting, WaitInv, TypeOK,
       SafeType
  <2>4. EraseMeansOff'
    BY <1>6 DEF OutputsInv, SectionOff, Succeeded, Setting, EraseMeansOff, TypeOK,
       SafeType
  <2>5. NoConflict'
    BY <1>6 DEF OutputsInv, SectionOff, NoConflict
  <2> QED
    BY <2>1, <2>2, <2>3, <2>4, <2>5 DEF OutputsInv
<1>7. ASSUME NEW bus \in BUSES, SectionStart(bus) PROVE OutputsInv'
  <2>1. TypeOK'
    BY <1>7, ZenonT(30) DEF OutputsInv, SectionStart, Idle, Wait, Setting, TypeOK, PsuType,
       SafeType, Waits, inputs, switches
  <2>2. DacInv'
    BY <1>7 DEF OutputsInv, SectionStart, DacInv, Calibrated
  <2>3. WaitInv'
    BY <1>7, OutputsAssumption DEF OutputsInv, SectionStart, Idle, Wait, Setting,
       WaitInv, TypeOK, AtMinimum, Waits, SafeType
  <2>4. EraseMeansOff'
    BY <1>7 DEF OutputsInv, SectionStart, Setting, EraseMeansOff, TypeOK, SafeType
  <2>5. NoConflict'
    BY <1>7 DEF OutputsInv, SectionStart, NoConflict
  <2> QED
    BY <2>1, <2>2, <2>3, <2>4, <2>5 DEF OutputsInv
<1>8. ASSUME SectionEnds PROVE OutputsInv'
  <2>1. TypeOK'
    BY <1>8, ZenonT(30) DEF OutputsInv, SectionEnds, SectionFailed, Done, Succeeded, Setting,
       TypeOK, PsuType, SafeType, Waits, inputs, switches
  <2>2. DacInv'
    BY <1>8 DEF OutputsInv, SectionEnds, DacInv, Calibrated
  <2>3. WaitInv'
    BY <1>8, OutputsAssumption DEF OutputsInv, SectionEnds, SectionFailed, Done,
       Succeeded, Setting, WaitInv, TypeOK, SafeType, AtMinimum, Waits
  <2>4. EraseMeansOff'
    BY <1>8 DEF OutputsInv, SectionEnds, SectionFailed, Succeeded, Setting,
       EraseMeansOff, TypeOK, SafeType, Off
  <2>5. NoConflict'
    BY <1>8 DEF OutputsInv, SectionEnds, NoConflict
  <2> QED
    BY <2>1, <2>2, <2>3, <2>4, <2>5 DEF OutputsInv
<1>9. ASSUME RefusedSet PROVE OutputsInv'
  <2>1. TypeOK'
    BY <1>9, RecordTypes DEF OutputsInv, RefusedSet, TypeOK, inputs, switches
  <2>2. DacInv'
    BY <1>9 DEF OutputsInv, RefusedSet, DacInv, Calibrated
  <2>3. WaitInv'
    BY <1>9 DEF OutputsInv, RefusedSet, Idle, Setting, WaitInv, AtMinimum, switches,
       TypeOK, SafeType
  <2>4. EraseMeansOff'
    BY <1>9 DEF OutputsInv, RefusedSet, Setting, EraseMeansOff, TypeOK, SafeType
  <2>5. NoConflict'
    BY <1>9 DEF OutputsInv, RefusedSet, NoConflict, switches
  <2> QED
    BY <2>1, <2>2, <2>3, <2>4, <2>5 DEF OutputsInv
<1> QED
  BY <1>1, <1>2, <1>3, <1>4, <1>5, <1>6, <1>7, <1>8, <1>9 DEF Switching

\* SAFE and the start-up from their waits on, reset, the clock and the pins.
LEMMA ControlInv ==
  ASSUME OutputsInv, SafeEnds \/ Reset \/ BootEnds \/ Tick \/ Inputs
  PROVE  OutputsInv'
<1>1. ASSUME SafeEnds PROVE OutputsInv'
  <2>1. TypeOK'
    BY <1>1 DEF OutputsInv, SafeEnds, RspOff, Done, TypeOK, PsuType, SafeType, inputs
  <2>2. DacInv'
    BY <1>1 DEF OutputsInv, SafeEnds, RspOff, DacInv, WaitInv, TypeOK, PsuType
  <2>3. WaitInv'
    BY <1>1 DEF OutputsInv, SafeEnds, Done, WaitInv, AtMinimum
  <2>4. EraseMeansOff'
    BY <1>1 DEF OutputsInv, SafeEnds, EraseMeansOff, WaitInv, Off
  <2>5. NoConflict'
    <3>1. relays' \cup releasing' = relays \cup releasing
      BY <1>1 DEF SafeEnds
    <3> QED
      BY <3>1 DEF OutputsInv, NoConflict
  <2> QED
    BY <2>1, <2>2, <2>3, <2>4, <2>5 DEF OutputsInv
<1>2. ASSUME Reset PROVE OutputsInv'
  <2>1. TypeOK'
    BY <1>2 DEF OutputsInv, Reset, Unpowered, Codes, TypeOK, PsuType, SafeType, Waits,
       inputs
  <2>2. DacInv'
    BY <1>2 DEF Reset, Unpowered, DacInv
  <2>3. WaitInv'
    BY <1>2 DEF Reset, Unpowered, WaitInv, Off
  <2>4. EraseMeansOff'
    BY <1>2 DEF Reset, EraseMeansOff
  <2>5. NoConflict'
    <3>1. relays' \cup releasing' = relays \cup releasing
      BY <1>2 DEF Reset
    <3> QED
      BY <3>1 DEF OutputsInv, NoConflict
  <2> QED
    BY <2>1, <2>2, <2>3, <2>4, <2>5 DEF OutputsInv
<1>3. ASSUME BootEnds PROVE OutputsInv'
  <2>1. TypeOK'
    BY <1>3 DEF OutputsInv, BootEnds, Done, TypeOK, SafeType, inputs, switches
  <2>2. DacInv'
    BY <1>3 DEF OutputsInv, BootEnds, DacInv, WaitInv, Off
  <2>3. WaitInv'
    BY <1>3 DEF OutputsInv, BootEnds, Done, WaitInv, Off, AtMinimum, switches
  <2>4. EraseMeansOff'
    BY <1>3 DEF OutputsInv, BootEnds, EraseMeansOff, WaitInv, Off, switches
  <2>5. NoConflict'
    BY <1>3 DEF OutputsInv, BootEnds, NoConflict, switches
  <2> QED
    BY <2>1, <2>2, <2>3, <2>4, <2>5 DEF OutputsInv
<1>4. ASSUME Tick PROVE OutputsInv'
  <2>1. TypeOK'
    BY <1>4 DEF OutputsInv, Tick, TypeOK, inputs
  <2>2. DacInv'
    BY <1>4 DEF OutputsInv, Tick, DacInv, Calibrated
  <2>3. WaitInv'
    BY <1>4 DEF OutputsInv, Tick, WaitInv, Off, AtMinimum
  <2>4. EraseMeansOff'
    BY <1>4 DEF OutputsInv, Tick, EraseMeansOff, Off
  <2>5. NoConflict'
    <3>1. relays' \cup releasing' \subseteq relays \cup releasing
      BY <1>4 DEF Tick
    <3> QED
      BY <3>1, ConflictMonotone DEF OutputsInv, NoConflict
  <2> QED
    BY <2>1, <2>2, <2>3, <2>4, <2>5 DEF OutputsInv
<1>5. ASSUME Inputs PROVE OutputsInv'
  <2>1. TypeOK'
    BY <1>5 DEF OutputsInv, Inputs, TypeOK, switches
  <2>2. DacInv'
    BY <1>5 DEF OutputsInv, Inputs, DacInv, Calibrated
  <2>3. WaitInv'
    BY <1>5 DEF OutputsInv, Inputs, WaitInv, Off, AtMinimum, switches
  <2>4. EraseMeansOff'
    BY <1>5 DEF OutputsInv, Inputs, EraseMeansOff, Off, switches
  <2>5. NoConflict'
    BY <1>5 DEF OutputsInv, Inputs, NoConflict, switches
  <2> QED
    BY <2>1, <2>2, <2>3, <2>4, <2>5 DEF OutputsInv
<1> QED
  BY <1>1, <1>2, <1>3, <1>4, <1>5

\* Every step of the firmware and of its surroundings preserves the invariant.
LEMMA NextInv == OutputsInv /\ [Next]_vars => OutputsInv'
<1> SUFFICES ASSUME OutputsInv, [Next]_vars PROVE OutputsInv'
  OBVIOUS
<1>1. CASE Supply
  BY <1>1, VoltInv, CalModeInv, CalCodeInv, ApplyCalInv, RspStartInv, SwitchSupplyInv
     DEF Supply
<1>2. CASE Poll \/ Switching \/ \E r \in RELAYS : ContactOpens(r)
  BY <1>2, SwitchSupplyInv, SwitchingInv
<1>3. CASE SafeBegin \/ SafeEnds \/ Reset \/ BootPsu \/ BootEnds \/ Tick \/ Inputs
  BY <1>3, SafeBeginInv, BootPsuInv, ControlInv
<1>4. CASE UNCHANGED vars
  BY <1>4 DEF vars, inputs, switches, OutputsInv, TypeOK, DacInv, Calibrated, WaitInv,
     AtMinimum, Off, EraseMeansOff, NoConflict
<1> QED
  BY <1>1, <1>2, <1>3, <1>4 DEF Next

-----------------------------------------------------------------------------
(* The theorems.                                                           *)

\* The parts of OutputsInv hold together in every reachable state.
THEOREM OutputsInvariant == Spec => []OutputsInv
<1> QED
  BY InitInv, NextInv, PTL DEF Spec

\* Every variable stays within its type.
THEOREM OutputsTypes == Spec => []TypeOK
<1>1. OutputsInv => TypeOK
  BY DEF OutputsInv
<1> QED
  BY <1>1, OutputsInvariant, PTL

\* The safe state the update and the calibration commands rely on is one:
\* all is off and the DAC holds its minimum.
THEOREM SafeMeansOffTheorem == Spec => []SafeMeansOff
<1>1. OutputsInv => SafeMeansOff
  BY OutputsAssumption DEF OutputsInv, TypeOK, WaitInv, DacInv, SafeMeansOff, Idle, Off,
     AtMinimum
<1> QED
  BY <1>1, OutputsInvariant, PTL

\* With the erase of the flash allowed nothing is on.
THEOREM EraseMeansOffTheorem == Spec => []EraseMeansOff
<1>1. OutputsInv => EraseMeansOff
  BY DEF OutputsInv
<1> QED
  BY <1>1, OutputsInvariant, PTL

\* While the supply is on, the DAC holds a code of the calibration, or the raw
\* code of the service mode, that is in force.
THEOREM VoltageIsMeantTheorem == Spec => []VoltageIsMeant
<1>1. OutputsInv => VoltageIsMeant
  BY DEF OutputsInv, DacInv, VoltageIsMeant, Calibrated
<1> QED
  BY <1>1, OutputsInvariant, PTL

\* Two relays of a group never conduct together, opening contacts included.
THEOREM NoConflictTheorem == Spec => []NoConflict
<1>1. OutputsInv => NoConflict
  BY DEF OutputsInv
<1> QED
  BY <1>1, OutputsInvariant, PTL
=============================================================================
