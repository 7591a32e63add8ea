-------------------------- MODULE GluonUnitProofs --------------------------
(***************************************************************************)
(* Proofs about GluonUnit, for every unit, every data and any settings of  *)
(* the times.                                                              *)
(***************************************************************************)
EXTENDS GluonUnit, TLAPS

USE DEF AllModes, AllUnits, AllKeys, Events

-----------------------------------------------------------------------------
(* The operators.                                                          *)

\* The remainder of any whole number.
LEMMA Remainder ==
  ASSUME NEW a \in Int, NEW n \in Nat, n > 0
  PROVE  a % n \in 0..n - 1
BY SMTT(30)

\* A byte and a word are not empty.
LEMMA Sizes ==
  /\ Byte \in Nat /\ Byte > 0 /\ Word \in Nat /\ Word > 0 /\ Word = Byte * Byte
  /\ MaxBpm \in Nat /\ MaxBpm < Word /\ FactoryBpm \in Words
<1>1. Byte \in Nat /\ Byte > 0
  BY SizeAssumption
<1>2. Word = Byte * Byte /\ Word \in Nat
  BY <1>1, SizeAssumption
<1>3. MaxBpm \in 0..Word - 1 /\ FactoryBpm \in 0..MaxBpm
  BY SizeAssumption
<1>4. MaxBpm \in Nat /\ MaxBpm < Word /\ FactoryBpm \in 0..Word - 1
  BY <1>2, <1>3
<1> QED
  BY <1>1, <1>2, <1>4 DEF Words

\* The two bytes of a word.
LEMMA WordInBytes ==
  ASSUME NEW w \in Words
  PROVE  /\ w \div Byte \in 0..Byte - 1 /\ w % Byte \in 0..Byte - 1
         /\ w = (w \div Byte) * Byte + (w % Byte)
<1> DEFINE q == w \div Byte
           r == w % Byte
<1>1. w \in Nat /\ w < Byte * Byte /\ Byte \in Nat /\ Byte > 0
  BY Sizes DEF Words
<1>2. r \in 0..Byte - 1 /\ q \in Int /\ w = Byte * q + r
  BY <1>1, SMTT(30)
<1> HIDE DEF q, r
<1>3. Byte * q = q * Byte /\ Byte * q \in Int
  BY <1>1, <1>2
<1>4. ~(q <= -1)
  <2> SUFFICES ASSUME q <= -1 PROVE FALSE
    OBVIOUS
  <2>1. Byte * q <= Byte * (-1)
    BY <1>1, <1>2
  <2> QED
    BY <1>1, <1>2, <1>3, <2>1
<1>5. ~(q >= Byte)
  <2> SUFFICES ASSUME q >= Byte PROVE FALSE
    OBVIOUS
  <2>1. Byte * q >= Byte * Byte
    BY <1>1, <1>2
  <2> QED
    BY <1>1, <1>2, <1>3, <2>1
<1>6. q \in 0..Byte - 1
  BY <1>1, <1>2, <1>4, <1>5
<1> QED
  BY <1>2, <1>3, <1>6 DEF q, r

\* A word that is put together from two bytes is taken apart into the same two.
LEMMA BytesInWord ==
  ASSUME NEW a \in 0..Byte - 1, NEW b \in 0..Byte - 1
  PROVE  /\ a * Byte + b \in Words
         /\ (a * Byte + b) % Byte = b
<1> DEFINE w == a * Byte + b
<1>1. Byte \in Nat /\ Byte > 0 /\ a \in Nat /\ b \in Nat /\ a <= Byte - 1 /\ b <= Byte - 1
  BY Sizes
<1>2. a * Byte <= (Byte - 1) * Byte /\ (Byte - 1) * Byte = Byte * Byte - Byte
      /\ a * Byte \in Nat /\ Byte * Byte \in Nat
  BY <1>1
<1>3. w \in Nat /\ w < Byte * Byte
  BY <1>1, <1>2
<1>4. w \in Words
  BY <1>3, Sizes DEF Words
<1> DEFINE q == w \div Byte
           r == w % Byte
<1>5. q \in 0..Byte - 1 /\ r \in 0..Byte - 1 /\ w = q * Byte + r
  BY <1>4, WordInBytes
<1> HIDE DEF q, r
<1>6. a * Byte + b = q * Byte + r
  BY <1>5
<1>7. ~(a < q)
  <2> SUFFICES ASSUME a < q PROVE FALSE
    OBVIOUS
  <2>1. (a + 1) * Byte <= q * Byte /\ (a + 1) * Byte = a * Byte + Byte /\ q * Byte \in Int
    BY <1>1, <1>5
  <2> QED
    BY <1>1, <1>2, <1>5, <1>6, <2>1
<1>8. ~(q < a)
  <2> SUFFICES ASSUME q < a PROVE FALSE
    OBVIOUS
  <2>1. (q + 1) * Byte <= a * Byte /\ (q + 1) * Byte = q * Byte + Byte /\ q * Byte \in Int
    BY <1>1, <1>5
  <2> QED
    BY <1>1, <1>2, <1>5, <1>6, <2>1
<1>9. a = q
  BY <1>1, <1>5, <1>7, <1>8
<1>10. b = r
  BY <1>1, <1>2, <1>5, <1>6, <1>9
<1> QED
  BY <1>4, <1>10 DEF r

\* The two writes of a word make words, and together the new one.
LEMMA WordWrites ==
  ASSUME NEW new \in Words, NEW old \in Words
  PROVE  /\ LowByte(new, old) \in Words /\ HighByte(new, old) \in Words
         /\ HighByte(new, LowByte(new, old)) = new
<1>1. /\ new \div Byte \in 0..Byte - 1 /\ new % Byte \in 0..Byte - 1
      /\ old \div Byte \in 0..Byte - 1 /\ old % Byte \in 0..Byte - 1
      /\ new = (new \div Byte) * Byte + (new % Byte)
  BY WordInBytes
<1>2. LowByte(new, old) \in Words /\ LowByte(new, old) % Byte = new % Byte
  BY <1>1, BytesInWord, Zenon DEF LowByte
<1>3. HighByte(new, old) \in Words
  BY <1>1, BytesInWord, Zenon DEF HighByte
<1>4. HighByte(new, LowByte(new, old)) = (new \div Byte) * Byte + (new % Byte)
  BY <1>2, Zenon DEF HighByte
<1> QED
  BY <1>1, <1>2, <1>3, <1>4

\* rawState is a truth value.
LEMMA RawType ==
  ASSUME NEW v \in Int, NEW c \in Conditions
  PROVE  Raw(v, c) \in BOOLEAN
<1>a. c.value \in Words /\ c.tolerance \in Words
  BY DEF Conditions
<1>1. c.value \in Int /\ c.tolerance \in Int /\ Word \in Nat /\ Word > 0
  BY <1>a, Sizes DEF Words
<1>2. (v - c.value) % Word \in Int
  BY <1>1, Remainder
<1>3. ((v - c.value) % Word <= c.tolerance) \in BOOLEAN
  BY <1>1, <1>2
<1> QED
  BY <1>3 DEF Raw, InRange

\* update() of a sensor keeps the shape of its state, and tells an event only when
\* the state rises.
LEMMA DebouncedType ==
  ASSUME NEW s \in Sensor, NEW raw \in BOOLEAN
  PROVE  Debounced(s, raw) \in Sensor
<1> DEFINE was  == IF s.first THEN [s EXCEPT !.raw = raw, !.state = raw] ELSE s
           same == raw = was.raw
           now  == IF same /\ was.age > Debounce THEN raw ELSE was.state
           age  == IF same THEN was.age ELSE 0
           rise == ~was.state /\ now
<1>1. was \in Sensor
  BY DEF Sensor
<1> HIDE DEF was
<1>2. same \in BOOLEAN
  OBVIOUS
<1>3. now \in BOOLEAN
  BY <1>1 DEF Sensor
<1>4. age \in Nat
  BY <1>1 DEF Sensor
<1>5. rise \in BOOLEAN
  OBVIOUS
<1>6. [first |-> FALSE, raw |-> raw, state |-> now, age |-> age, event |-> rise] \in Sensor
  BY <1>3, <1>4, <1>5 DEF Sensor
<1>7. Debounced(s, raw) =
        [first |-> FALSE, raw |-> raw, state |-> now, age |-> age, event |-> rise]
  BY DEF Debounced, was
<1> QED
  BY <1>6, <1>7

\* An age stays a number.
LEMMA AgedType ==
  ASSUME NEW age \in Nat, NEW limit \in Nat
  PROVE  Aged(age, limit) \in Nat /\ Aged(age, limit) <= age + 1
BY DEF Aged

\* The beats per minute are a word, whatever number comes with a packet.
LEMMA PacedType ==
  ASSUME NEW m \in Metro, NEW data \in Int
  PROVE  Paced(m, data) \in Metro /\ Paced(m, data).on = m.on /\ Paced(m, data).beat = 0
<1>1. data % Word \in 0..Word - 1
  BY Remainder, Sizes
<1>2. (IF data % Word > MaxBpm THEN MaxBpm ELSE data % Word) \in Words
  BY <1>1, Sizes DEF Words
<1> HIDE DEF Metro
<1> QED
  BY <1>2 DEF Paced, Metro

\* Counting up, counting down and a new top leave the counter at its top at most.
LEMMA CountedType ==
  ASSUME NEW c \in Counter, c.value <= c.top, inbox[2].data \in Int
  PROVE  Counted(c) \in Counter /\ Counted(c).value <= Counted(c).top
<1>1. c.value \in 0..Byte - 1 /\ c.top \in 0..Byte - 1 /\ Byte \in Nat
  BY SizeAssumption DEF Counter
<1>2. c.value # c.top => (c.value + 1) % Byte = c.value + 1
  <2> SUFFICES ASSUME c.value # c.top PROVE (c.value + 1) % Byte = c.value + 1
    OBVIOUS
  <2>1. c.value + 1 \in 0..Byte - 1
    BY <1>1
  <2> QED
    BY <1>1, <2>1, SMTT(30)
<1>3. Incremented(c) \in Counter /\ Incremented(c).value <= Incremented(c).top
  BY <1>1, <1>2 DEF Incremented, Counter
<1>4. Decremented(c) \in Counter /\ Decremented(c).value <= Decremented(c).top
  BY <1>1 DEF Decremented, Counter
<1>5. inbox[2].data % Byte \in 0..Byte - 1
  BY <1>1, Remainder, SizeAssumption
<1>6. TopFrom(c, inbox[2].data) \in Counter
      /\ TopFrom(c, inbox[2].data).value <= TopFrom(c, inbox[2].data).top
  <2> DEFINE d == inbox[2].data % Byte
  <2>1. d \in 0..Byte - 1 /\ d <= d
    BY <1>1, <1>5
  <2> HIDE DEF d
  <2> DEFINE e == [c EXCEPT !.value = d, !.top = d]
  <2>2. e \in Counter /\ e.value = d /\ e.top = d
    BY <1>1, <2>1 DEF Counter
  <2>3. TopFrom(c, inbox[2].data) = e
    BY DEF TopFrom, d
  <2> HIDE DEF e
  <2> QED
    BY <2>1, <2>2, <2>3
<1> QED
  BY <1>3, <1>4, <1>6 DEF Counted

-----------------------------------------------------------------------------
(* Types, and the counter below its top.                                   *)

Shape == TypeOK /\ CountStaysBelowTop

\* What the second inlet holds is a number, new or not.
LEMMA InboxType ==
  ASSUME Shape PROVE inbox[2].data \in Int
<1>1. inbox[2] \in Item
  BY DEF Inlets, Shape, TypeOK
<1>2. inbox[2].data \in Numbers \cup {0}
  BY <1>1, Zenon DEF Item
<1>3. Numbers \subseteq Int
  BY UnitAssumption, Zenon
<1>4. 0 \in Int
  OBVIOUS
<1> QED
  BY <1>2, <1>3, <1>4, Zenon

\* compute() keeps the shape of what it changes.
LEMMA ComputeShape ==
  ASSUME Shape, NEW m \in Metro, NEW d \in Events, NEW told \in BOOLEAN, Compute(m, d, told)
  PROVE  /\ metro' \in Metro
         /\ counter' \in Counter /\ CountStaysBelowTop'
         /\ fresh' \in BOOLEAN
         /\ light' \in Light
         /\ todo' \in {"nothing", "on", "onThenPace", "pace"}
         /\ memory' = memory /\ kept' = kept
         /\ wait' \in 0..ToggleDelay
         /\ inbox' \in [Inlets -> Item]
<1> DEFINE toggled == unit = "METRO" /\ 1 \in New
           paced   == unit = "METRO" /\ 2 \in New
           on      == IF toggled THEN Switched(m, ~m.on) ELSE m
<1>1. inbox \in [Inlets -> Item]
  BY DEF Shape, TypeOK
<1>2. inbox[2].data \in Int
  BY InboxType
<1>3. on \in Metro
  BY DEF Switched, Metro
<1>5. metro' \in Metro
  BY <1>3 DEF Compute
<1>6. counter' \in Counter /\ CountStaysBelowTop'
  <2>1. counter \in Counter /\ counter.value <= counter.top
    BY DEF Shape, TypeOK, CountStaysBelowTop
  <2>2. Counted(counter) \in Counter /\ Counted(counter).value <= Counted(counter).top
    BY <1>2, <2>1, CountedType
  <2>3. counter' = IF unit = "COUNT" THEN Counted(counter) ELSE counter
    BY DEF Compute
  <2>4. counter' \in Counter /\ counter'.value <= counter'.top
    BY <2>1, <2>2, <2>3
  <2> QED
    BY <2>4 DEF CountStaysBelowTop
<1>7. fresh' \in BOOLEAN
  <2>1. fresh \in BOOLEAN
    BY DEF Shape, TypeOK
  <2>2. (unit = "COUNT" /\ CountTold(counter)) \in BOOLEAN
    OBVIOUS
  <2> QED
    BY <2>1, <2>2, Zenon DEF Compute
<1>8. light' \in Light
  <2>1. PICK e \in Events : light' = [light EXCEPT !.data = e]
    BY DEF Compute
  <2> QED
    BY <2>1 DEF Shape, TypeOK, Light
<1>9. todo' \in {"nothing", "on", "onThenPace", "pace"} /\ memory' = memory /\ kept' = kept
  BY Zenon DEF Compute
<1>10. wait' \in 0..ToggleDelay
  BY TimeAssumption DEF Compute
<1>11. inbox' \in [Inlets -> Item]
  <2>1. \A i \in Inlets : [inbox[i] EXCEPT !.new = FALSE] \in Item
    BY <1>1 DEF Item
  <2> QED
    BY <2>1 DEF Compute, Used
<1> QED
  BY <1>5, <1>6, <1>7, <1>8, <1>9, <1>10, <1>11

\* What evolve() and the mode of a light make of it keeps its shape.
LEMMA PulsedType ==
  ASSUME NEW a \in Light
  PROVE  Pulsed(a) \in Light
BY DEF Pulsed, Light

\* What can be read, and what it means, is known in every state.
LEMMA ReadingType ==
  ASSUME Shape
  PROVE  /\ Readings \subseteq Int
         /\ Raw(reading, conditions) \in BOOLEAN
<1>1. Distances \subseteq Int
  <2>1. Distances \subseteq 0..Word - 1
    BY UnitAssumption, Zenon
  <2> QED
    BY <2>1, SizeAssumption
<1>2. Readings \subseteq Int
  BY <1>1 DEF Readings
<1>3. reading \in Int /\ conditions \in Conditions
  BY <1>2 DEF Shape, TypeOK
<1> QED
  BY <1>2, <1>3, RawType

\* What the range finder can learn are words.
LEMMA LearntType ==
  ASSUME NEW c \in Learnt
  PROVE  c \in Conditions
<1>1. Distances \subseteq Words /\ Tolerances \subseteq Words
  BY UnitAssumption, Zenon DEF Words
<1> QED
  BY <1>1 DEF Learnt, Conditions

\* The settings in RAM are of the shape of those in the EEPROM.
LEMMA InUseType ==
  ASSUME metro \in Metro, modes \subseteq AllModes, conditions \in Conditions
  PROVE  InUse \in Memory
BY DEF InUse, Memory, Metro

\* What comes after each write.
LEMMA FollowingIs ==
  /\ Following["modes"] = "nothing" /\ Following["on"] = "nothing"
  /\ Following["onThenPace"] = "pace" /\ Following["pace"] = "bpmLow"
  /\ Following["bpmLow"] = "bpmHigh" /\ Following["bpmHigh"] = "nothing"
  /\ Following["valueLow"] = "valueHigh" /\ Following["valueHigh"] = "toleranceLow"
  /\ Following["toleranceLow"] = "toleranceHigh" /\ Following["toleranceHigh"] = "look"
  /\ Following["look"] = "nothing"
BY DEF Following

\* A write, and what it leaves of the settings in the EEPROM.
LEMMA WriteSteps ==
  ASSUME WriteByte
  PROVE  \/ /\ todo = "modes" /\ todo' = "nothing" /\ kept' = InUse
            /\ memory' = [memory EXCEPT !.modes = modes]
         \/ /\ todo = "on" /\ todo' = "nothing" /\ kept' = InUse
            /\ memory' = [memory EXCEPT !.on = metro.on]
         \/ /\ todo = "onThenPace" /\ todo' = "pace" /\ kept' = InUse
            /\ memory' = [memory EXCEPT !.on = metro.on]
         \/ /\ todo = "bpmLow" /\ todo' = "bpmHigh" /\ kept' = kept
            /\ memory' = [memory EXCEPT !.bpm = LowByte(metro.bpm, memory.bpm)]
         \/ /\ todo = "bpmHigh" /\ todo' = "nothing" /\ kept' = InUse
            /\ memory' = [memory EXCEPT !.bpm = HighByte(metro.bpm, memory.bpm)]
         \/ /\ todo = "valueLow" /\ todo' = "valueHigh" /\ kept' = kept
            /\ memory' = [memory EXCEPT !.conditions.value =
                           LowByte(conditions.value, memory.conditions.value)]
         \/ /\ todo = "valueHigh" /\ todo' = "toleranceLow" /\ kept' = kept
            /\ memory' = [memory EXCEPT !.conditions.value =
                           HighByte(conditions.value, memory.conditions.value)]
         \/ /\ todo = "toleranceLow" /\ todo' = "toleranceHigh" /\ kept' = kept
            /\ memory' = [memory EXCEPT !.conditions.tolerance =
                           LowByte(conditions.tolerance, memory.conditions.tolerance)]
         \/ /\ todo = "toleranceHigh" /\ todo' = "look" /\ kept' = InUse
            /\ memory' = [memory EXCEPT !.conditions.tolerance =
                           HighByte(conditions.tolerance, memory.conditions.tolerance)]
<1>1. todo' = Following[todo] /\ kept' = IF todo' \in Idle THEN InUse ELSE kept
  BY DEF WriteByte
<1> HIDE DEF InUse, LowByte, HighByte
<1>2. CASE todo = "modes"
  BY <1>1, <1>2, FollowingIs DEF WriteByte, Idle
<1>3. CASE todo = "on"
  BY <1>1, <1>3, FollowingIs DEF WriteByte, Idle
<1>4. CASE todo = "onThenPace"
  BY <1>1, <1>4, FollowingIs DEF WriteByte, Idle
<1>5. CASE todo = "bpmLow"
  BY <1>1, <1>5, FollowingIs DEF WriteByte, Idle
<1>6. CASE todo = "bpmHigh"
  BY <1>1, <1>6, FollowingIs DEF WriteByte, Idle
<1>7. CASE todo = "valueLow"
  BY <1>1, <1>7, FollowingIs DEF WriteByte, Idle
<1>8. CASE todo = "valueHigh"
  BY <1>1, <1>8, FollowingIs DEF WriteByte, Idle
<1>9. CASE todo = "toleranceLow"
  BY <1>1, <1>9, FollowingIs DEF WriteByte, Idle
<1>10. CASE todo = "toleranceHigh"
  BY <1>1, <1>10, FollowingIs DEF WriteByte, Idle
<1> QED
  BY <1>2, <1>3, <1>4, <1>5, <1>6, <1>7, <1>8, <1>9, <1>10 DEF WriteByte, Writes

\* A write keeps the shape of the EEPROM.
LEMMA WriteShape ==
  ASSUME Shape, WriteByte
  PROVE  memory' \in Memory /\ kept' \in Memory /\ todo' \in Idle \cup Writes
<1>1. /\ memory \in Memory /\ kept \in Memory /\ metro \in Metro /\ conditions \in Conditions
      /\ modes \subseteq AllModes
  BY DEF Shape, TypeOK
<1>2. InUse \in Memory
  BY <1>1, InUseType
<1>3. /\ metro.on \in BOOLEAN /\ metro.bpm \in Words /\ memory.bpm \in Words
      /\ memory.conditions \in Conditions
      /\ conditions.value \in Words /\ conditions.tolerance \in Words
      /\ memory.conditions.value \in Words /\ memory.conditions.tolerance \in Words
  BY <1>1 DEF Metro, Memory, Conditions
<1>4. /\ LowByte(metro.bpm, memory.bpm) \in Words
      /\ HighByte(metro.bpm, memory.bpm) \in Words
      /\ LowByte(conditions.value, memory.conditions.value) \in Words
      /\ HighByte(conditions.value, memory.conditions.value) \in Words
      /\ LowByte(conditions.tolerance, memory.conditions.tolerance) \in Words
      /\ HighByte(conditions.tolerance, memory.conditions.tolerance) \in Words
  BY <1>3, WordWrites
<1> HIDE DEF InUse, LowByte, HighByte, Words
<1>5. ASSUME NEW b \in Words
      PROVE  /\ [memory EXCEPT !.bpm = b] \in Memory
             /\ [memory EXCEPT !.conditions.value = b] \in Memory
             /\ [memory EXCEPT !.conditions.tolerance = b] \in Memory
  <2>1. /\ [memory.conditions EXCEPT !.value = b] \in Conditions
        /\ [memory.conditions EXCEPT !.tolerance = b] \in Conditions
    BY <1>3 DEF Conditions
  <2> QED
    BY <1>1, <2>1 DEF Memory
<1>6. /\ [memory EXCEPT !.modes = modes] \in Memory
      /\ [memory EXCEPT !.on = metro.on] \in Memory
  BY <1>1, <1>3 DEF Memory
<1>7. kept' \in Memory /\ todo' \in Idle \cup Writes
  BY <1>1, <1>2, WriteSteps DEF Idle, Writes
<1>8. memory' \in Memory
  BY <1>4, <1>5, <1>6, WriteSteps
<1> QED
  BY <1>7, <1>8

\* The factory settings are of the shape the code gives them.
LEMMA ShapeInit == Init => Shape
<1> SUFFICES ASSUME Init PROVE Shape
  OBVIOUS
<1>1. sensor \in Sensor
  BY TimeAssumption DEF Init, NewSensor, Sensor
<1>2. metro \in Metro
  BY Sizes DEF Init, Metro
<1>3. counter \in Counter /\ counter.value <= counter.top
  BY SizeAssumption DEF Init, Counter
<1>4. inbox \in [Inlets -> Item]
  BY DEF Init, Item
<1>5. light \in Light
  BY DEF Init, Light
<1>6. modes \subseteq AllModes
  BY DEF Init, FactoryModes
<1>7. conditions \in Conditions
  BY LearntType DEF Init
<1>8. memory \in Memory /\ kept \in Memory
  BY <1>2, <1>6, <1>7, InUseType DEF Init
<1>9. wait \in 0..ToggleDelay /\ gap \in 0..MaxGap /\ steady \in Nat /\ latch \in Nat
      /\ opened \in -1..Debounce + 1
  BY TimeAssumption DEF Init
<1>10. unit \in Units /\ reading \in Readings /\ stage = "start" /\ todo = "nothing"
       /\ fresh = FALSE /\ failed = FALSE /\ released = (unit = "METRO" => reading = 0)
  BY DEF Init
<1>11. released \in BOOLEAN /\ fresh \in BOOLEAN /\ failed \in BOOLEAN
       /\ todo \in Idle \cup Writes
  BY <1>10 DEF Idle
<1> QED
  BY <1>1, <1>2, <1>3, <1>4, <1>5, <1>6, <1>7, <1>8, <1>9, <1>10, <1>11
  DEF Shape, TypeOK, CountStaysBelowTop

\* The history of the switch keeps its shape.
LEMMA OpeningType ==
  ASSUME Shape, NEW r, NEW age \in -1..Debounce + 1, Opening(r, age)
  PROVE  opened' \in -1..Debounce + 1 /\ released' \in BOOLEAN
<1>1. released \in BOOLEAN /\ sensor.first \in BOOLEAN
  BY DEF Shape, TypeOK, Sensor
<1>2. released' \in BOOLEAN
  BY <1>1 DEF Opening
<1>3. opened' \in {-1, 0, age}
  BY DEF Opening
<1> QED
  BY <1>2, <1>3, TimeAssumption

\* Every step of the node, of people and of time keeps the shape.
LEMMA ShapeStep == Shape /\ [Next]_vars => Shape'
<1> SUFFICES ASSUME Shape, [Next]_vars PROVE Shape'
  OBVIOUS
<1> USE DEF Shape, TypeOK, CountStaysBelowTop
<1>1. CASE ChangeModes
  <2>1. modes' \subseteq AllModes /\ wait' \in 0..ToggleDelay
    <3>1. CASE modes' = {} /\ wait' = 0
      BY <3>1, TimeAssumption
    <3>2. CASE \E mode \in AllModes : modes' = (modes \ {mode}) \cup ({mode} \ modes)
                                   /\ wait' = ToggleDelay
      <4>1. modes' \subseteq AllModes
        BY <3>2
      <4> QED
        BY <3>2, <4>1, TimeAssumption
    <3> QED
      BY <1>1, <3>1, <3>2 DEF ChangeModes
  <2>2. todo' \in Idle \cup Writes
    BY <1>1 DEF ChangeModes, Writes
  <2> QED
    BY <1>1, <2>1, <2>2 DEF ChangeModes, Press, human, press, output, Readings
<1>2. CASE ForceBang
  <2>1. metro \in Metro /\ light.data \in Events /\ FALSE \in BOOLEAN
    BY DEF Light
  <2>2. Compute(metro, light.data, FALSE)
    BY <1>2 DEF ForceBang
  <2> HIDE DEF Shape
  <2>3. /\ metro' \in Metro
        /\ counter' \in Counter /\ CountStaysBelowTop'
        /\ fresh' \in BOOLEAN
        /\ light' \in Light
        /\ todo' \in {"nothing", "on", "onThenPace", "pace"}
        /\ memory' = memory /\ kept' = kept
        /\ wait' \in 0..ToggleDelay
        /\ inbox' \in [Inlets -> Item]
    BY <2>1, <2>2, ComputeShape
  <2> USE DEF Shape
  <2> QED
    BY <1>2, <2>3 DEF ForceBang, Press, human, press, Readings, Idle, Writes
<1>3. CASE Learn
  <2>1. CASE unit = "RANGE"
    <3>1. conditions' \in Conditions /\ reading' \in Distances /\ unit' = unit
      BY <1>3, <2>1, LearntType DEF Learn, Press
    <3>2. reading' \in Readings'
      BY <2>1, <3>1 DEF Readings
    <3>3. sensor' \in Sensor
      <4>1. sensor' = [sensor EXCEPT !.age = Debounce + 1]
        BY <1>3, <2>1 DEF Learn
      <4> QED
        BY <4>1, TimeAssumption DEF Sensor
    <3>4. light' \in Light
      <4>1. light' = [light EXCEPT !.age = IF light.on THEN Pulse + 3 * Longest + 1 ELSE 0]
        BY <1>3, <2>1 DEF Learn
      <4>2. Pulse + 3 * Longest + 1 \in Nat
        BY TimeAssumption DEF Longest
      <4> QED
        BY <4>1, <4>2 DEF Light
    <3>5. steady' \in Nat /\ latch' \in Nat /\ todo' \in Idle \cup Writes
      BY <1>3, <2>1, TimeAssumption DEF Learn, Writes
    <3> QED
      BY <1>3, <3>1, <3>2, <3>3, <3>4, <3>5 DEF Learn, Press, press, logic
  <2>2. CASE unit # "RANGE"
    BY <1>3, <2>2 DEF Learn, Press, press, logic, human, Readings, Idle
  <2> QED
    BY <2>1, <2>2
<1>4. CASE LookLearnt
  <2>1. sensor' \in Sensor
    <3>1. sensor' = Debounced(sensor, Raw(reading, conditions))
      BY <1>4 DEF LookLearnt
    <3> HIDE DEF Shape
    <3>2. Raw(reading, conditions) \in BOOLEAN
      BY ReadingType
    <3> USE DEF Shape
    <3> QED
      BY <3>1, <3>2, DebouncedType
  <2>2. todo' = "nothing"
    BY <1>4, FollowingIs DEF LookLearnt
  <2> QED
    BY <1>4, <2>1, <2>2 DEF LookLearnt, human, logic, output, history, press, Readings, Idle
<1>5. CASE Pace
  <2>1. inbox[2].data \in Int
    BY InboxType
  <2>2. metro' \in Metro
    BY <1>5, <2>1, PacedType DEF Pace
  <2>3. todo' = "bpmLow"
    BY <1>5, FollowingIs DEF Pace
  <2> QED
    BY <1>5, <2>2, <2>3 DEF Pace, human, output, history, press, Readings, Writes
<1>6. CASE WriteByte
  <2> HIDE DEF Shape
  <2>1. memory' \in Memory /\ kept' \in Memory /\ todo' \in Idle \cup Writes
    BY <1>6, WriteShape
  <2> USE DEF Shape
  <2> QED
    BY <1>6, <2>1 DEF WriteByte, human, logic, output, history, press, Readings
<1>7. CASE Receive
  <2>1. PICK i \in Inlets, n \in Numbers \cup {0} :
          inbox' = [inbox EXCEPT ![i] = [data |-> n, new |-> TRUE]]
    <3>1. Fed[unit] \subseteq Inlets
      BY UnitAssumption, Zenon
    <3> QED
      BY <1>7, <3>1, Zenon DEF Receive
  <2>2. [data |-> n, new |-> TRUE] \in Item
    BY Zenon DEF Item
  <2>3. inbox' \in [Inlets -> Item]
    BY <2>1, <2>2
  <2> QED
    BY <1>7, <2>3 DEF Receive, human, logic, output, record, history, press, Readings
<1>8. CASE Look
  <2>1. sensor' \in Sensor
    <3> HIDE DEF Shape
    <3>1. Raw(reading, conditions) \in BOOLEAN
      BY ReadingType
    <3> USE DEF Shape
    <3>2. Debounced(sensor, Raw(reading, conditions)) \in Sensor
      BY <3>1, DebouncedType
    <3> QED
      BY <1>8, <3>2 DEF Look
  <2>2. sensor'.event \in BOOLEAN
    BY <2>1 DEF Sensor
  <2> DEFINE toggled == unit = "METRO" /\ sensor'.event
  <2>3. toggled \in BOOLEAN
    BY <2>2
  <2>4. /\ metro' = IF toggled THEN Switched(metro, ~metro.on) ELSE metro
        /\ light' = [light EXCEPT !.data =
             IF toggled THEN (IF metro'.on THEN "true" ELSE "false") ELSE @]
        /\ todo' = IF toggled THEN "on" ELSE "nothing"
        /\ wait' = IF toggled THEN ToggleDelay ELSE 0
        /\ released' = (released /\ ~toggled)
        /\ opened' = IF toggled THEN -1 ELSE opened
    BY <1>8 DEF Look
  <2> HIDE DEF toggled
  <2>5. metro' \in Metro
    BY <2>4 DEF Switched, Metro
  <2>6. light' \in Light
    BY <2>4 DEF Light
  <2>7. todo' \in Idle \cup Writes /\ opened' \in -1..Debounce + 1
    BY <2>4, TimeAssumption DEF Idle, Writes
  <2>8. wait' \in 0..ToggleDelay
    BY <2>4, TimeAssumption
  <2>9. released' \in BOOLEAN
    BY <2>3, <2>4
  <2> QED
    BY <1>8, <2>1, <2>5, <2>6, <2>7, <2>8, <2>9 DEF Look, human, output, Readings
<1>9. CASE Think
  <2> DEFINE m == IF BeatDue THEN [metro EXCEPT !.beat = 0] ELSE metro
             d == IF BeatDue THEN "true" ELSE light.data
  <2>1. m \in Metro /\ d \in Events /\ BeatDue \in BOOLEAN
    BY DEF Metro, Light, BeatDue
  <2>2. failed' \in BOOLEAN
    BY <1>9, <2>1 DEF Think
  <2>3. CASE Compute(m, d, BeatDue)
    <3> HIDE DEF m, d, Shape
    <3>1. /\ metro' \in Metro
          /\ counter' \in Counter /\ CountStaysBelowTop'
          /\ fresh' \in BOOLEAN
          /\ light' \in Light
          /\ todo' \in {"nothing", "on", "onThenPace", "pace"}
          /\ memory' = memory /\ kept' = kept
          /\ wait' \in 0..ToggleDelay
          /\ inbox' \in [Inlets -> Item]
      BY <2>1, <2>3, ComputeShape
    <3> USE DEF Shape
    <3> QED
      BY <1>9, <2>2, <3>1 DEF Think, human, press, Readings, Idle, Writes
  <2>4. CASE /\ metro' = m
             /\ light' = [light EXCEPT !.data = d]
             /\ fresh' = (fresh \/ BeatDue)
             /\ UNCHANGED <<wait, counter, inbox, record>>
    <3> HIDE DEF m, d
    <3>1. light' \in Light
      BY <2>1, <2>4 DEF Light
    <3>2. fresh' \in BOOLEAN
      BY <2>1, <2>4
    <3> QED
      BY <1>9, <2>1, <2>2, <2>4, <3>1, <3>2 DEF Think, human, press, record, Readings
  <2> QED
    BY <1>9, <2>3, <2>4 DEF Think
<1>10. CASE Finish
  <2>1. light' \in Light
    BY <1>10, PulsedType DEF Finish
  <2>2. fresh' \in BOOLEAN /\ latch' \in Nat /\ failed' \in BOOLEAN
    <3>1. Send
      BY <1>10 DEF Finish
    <3>2. fresh' \in {fresh, FALSE} /\ latch' \in {latch, 0}
      BY <3>1, Zenon DEF Send
    <3>3. failed' = failed \/ failed' = (unit = "METRO")
      BY <3>1, Zenon DEF Send
    <3>4. (unit = "METRO") \in BOOLEAN
      OBVIOUS
    <3>5. fresh' \in BOOLEAN
      BY <3>2
    <3>6. latch' \in Nat
      BY <3>2
    <3>7. failed' \in BOOLEAN
      BY <3>3, <3>4, Zenon
    <3> QED
      BY <3>5, <3>6, <3>7
  <2>3. gap' \in 0..MaxGap
    BY <1>10, TimeAssumption DEF Finish
  <2> QED
    BY <1>10, <2>1, <2>2, <2>3 DEF Finish, human, logic, record, press, Readings
<1>11. CASE Advance
  <2>1. Longest \in Nat
    BY TimeAssumption DEF Longest
  <2>2. wait' \in 0..ToggleDelay /\ gap' \in 0..MaxGap
    BY <1>11, TimeAssumption DEF Advance
  <2>3. steady' \in Nat
    BY <1>11, <2>1, AgedType, TimeAssumption DEF Advance
  <2>4. sensor' \in Sensor
    BY <1>11, AgedType, TimeAssumption DEF Advance, Sensor
  <2>5. metro' \in Metro
    BY <1>11, <2>1, AgedType, TimeAssumption DEF Advance, Metro
  <2>6. latch' \in Nat
    BY <1>11, AgedType, TimeAssumption DEF Advance
  <2>7. light' \in Light
    BY <1>11, <2>1, AgedType, TimeAssumption DEF Advance, Light
  <2>8. opened' \in -1..Debounce + 1 /\ released' \in BOOLEAN
    <3>1. Opening(reading, IF opened < 0 THEN opened ELSE Aged(opened, Debounce))
      BY <1>11 DEF Advance
    <3>2. (IF opened < 0 THEN opened ELSE Aged(opened, Debounce)) \in -1..Debounce + 1
      BY TimeAssumption DEF Aged
    <3> QED
      BY <3>1, <3>2, OpeningType
  <2> QED
    BY <1>11, <2>2, <2>3, <2>4, <2>5, <2>6, <2>7, <2>8 DEF Advance, record, Readings
<1>12. CASE Move
  <2>1. reading' \in Readings /\ unit' = unit
    BY <1>12 DEF Move
  <2>2. steady' \in Nat
    BY <1>12 DEF Move
  <2>3. opened' \in -1..Debounce + 1 /\ released' \in BOOLEAN
    <3>1. Opening(reading', opened)
      BY <1>12 DEF Move
    <3> QED
      BY <3>1, OpeningType
  <2> QED
    BY <1>12, <2>1, <2>2, <2>3 DEF Move, logic, output, record, Readings
<1>13. CASE Restart
  <2>1. memory.modes \subseteq AllModes /\ memory.on \in BOOLEAN /\ memory.bpm \in Words
        /\ memory.conditions \in Conditions
    BY DEF Memory
  <2>2. sensor' \in Sensor
    BY <1>13, TimeAssumption DEF Restart, NewSensor, Sensor
  <2>3. metro' \in Metro
    BY <1>13, <2>1 DEF Restart, Metro
  <2>4. counter' \in Counter /\ counter'.value <= counter'.top
    BY <1>13, SizeAssumption DEF Restart, Counter
  <2>5. inbox' \in [Inlets -> Item]
    BY <1>13 DEF Restart, Item
  <2>6. light' \in Light
    BY <1>13 DEF Restart, Light
  <2>7. released' \in BOOLEAN /\ opened' \in -1..Debounce + 1 /\ todo' \in Idle \cup Writes
    BY <1>13, TimeAssumption DEF Restart, Idle
  <2>8. wait' \in 0..ToggleDelay /\ gap' \in 0..MaxGap /\ steady' \in Nat /\ latch' \in Nat
    BY <1>13, TimeAssumption DEF Restart
  <2> QED
    BY <1>13, <2>1, <2>2, <2>3, <2>4, <2>5, <2>6, <2>7, <2>8 DEF Restart, Readings
<1>14. CASE UNCHANGED vars
  BY <1>14 DEF vars, human, logic, output, record, history, press, Readings
<1> QED
  BY <1>1, <1>2, <1>3, <1>4, <1>5, <1>6, <1>7, <1>8, <1>9, <1>10, <1>11, <1>12, <1>13,
     <1>14 DEF Next

-----------------------------------------------------------------------------
(* The settings in the EEPROM.                                             *)

\* What is in use was saved last, but what is being saved; the EEPROM holds what was
\* saved last, but the bytes that are written already.
Saved ==
  /\ todo # "modes" => kept.modes = modes
  /\ todo \notin {"on", "onThenPace"} => kept.on = metro.on
  /\ todo \notin {"bpmLow", "bpmHigh"} => kept.bpm = metro.bpm
  /\ todo \notin {"valueLow", "valueHigh", "toleranceLow", "toleranceHigh"}
       => kept.conditions = conditions
  /\ memory.modes = kept.modes
  /\ memory.on = kept.on
  /\ memory.bpm = IF todo = "bpmHigh" THEN LowByte(metro.bpm, kept.bpm) ELSE kept.bpm
  /\ memory.conditions.value =
       IF todo = "valueHigh" THEN LowByte(conditions.value, kept.conditions.value)
       ELSE IF todo \in {"toleranceLow", "toleranceHigh"} THEN conditions.value
       ELSE kept.conditions.value
  /\ memory.conditions.tolerance =
       IF todo = "toleranceHigh" THEN LowByte(conditions.tolerance, kept.conditions.tolerance)
       ELSE kept.conditions.tolerance

\* Where nothing is being saved and the settings stay.
LEMMA SavedOn ==
  ASSUME Saved, todo = "nothing", todo' \in {"nothing", "pace"},
         UNCHANGED <<memory, kept, modes, conditions>>,
         metro'.on = metro.on, metro'.bpm = metro.bpm
  PROVE  Saved'
<1> HIDE DEF LowByte
<1> QED
  BY DEF Saved

\* Where compute() has changed the metronome.
LEMMA ComputeSaved ==
  ASSUME Shape, Saved, todo = "nothing", NEW m \in Metro, m.on = metro.on, m.bpm = metro.bpm,
         NEW d, NEW told, Compute(m, d, told), UNCHANGED <<modes, conditions>>
  PROVE  Saved'
<1> DEFINE toggled == unit = "METRO" /\ 1 \in New
           paced   == unit = "METRO" /\ 2 \in New
<1>1. /\ metro' = IF toggled THEN Switched(m, ~m.on) ELSE m
      /\ todo' = IF toggled THEN (IF paced THEN "onThenPace" ELSE "on")
                 ELSE (IF paced THEN "pace" ELSE "nothing")
      /\ memory' = memory /\ kept' = kept
  BY Zenon DEF Compute
<1> HIDE DEF toggled, paced
<1>2. metro'.bpm = metro.bpm /\ (~toggled => metro'.on = metro.on)
  BY <1>1 DEF Switched, Metro
<1>3. CASE toggled
  <2>1. todo' \in {"on", "onThenPace"}
    BY <1>1, <1>3
  <2> HIDE DEF LowByte
  <2> QED
    BY <1>1, <1>2, <2>1 DEF Saved
<1>4. CASE ~toggled
  <2>1. todo' \in {"nothing", "pace"}
    BY <1>1, <1>4
  <2> QED
    BY <1>1, <1>2, <1>4, <2>1, SavedOn
<1> QED
  BY <1>3, <1>4

\* Every write brings the EEPROM nearer to what is in use.
LEMMA WriteSaved ==
  ASSUME Shape, Saved, WriteByte
  PROVE  Saved'
<1>1. UNCHANGED <<modes, metro, conditions>>
  BY DEF WriteByte, logic
<1>2. memory \in Memory /\ memory.conditions \in Conditions /\ conditions \in Conditions
      /\ kept \in Memory /\ kept.conditions \in Conditions /\ metro \in Metro
  BY DEF Shape, TypeOK, Memory
<1>3. /\ metro.bpm \in Words /\ kept.bpm \in Words
      /\ conditions.value \in Words /\ conditions.tolerance \in Words
      /\ kept.conditions.value \in Words /\ kept.conditions.tolerance \in Words
  BY <1>2 DEF Memory, Conditions, Metro
<1>4. /\ HighByte(metro.bpm, LowByte(metro.bpm, kept.bpm)) = metro.bpm
      /\ HighByte(conditions.value, LowByte(conditions.value, kept.conditions.value))
           = conditions.value
      /\ HighByte(conditions.tolerance, LowByte(conditions.tolerance, kept.conditions.tolerance))
           = conditions.tolerance
  BY <1>3, WordWrites
<1>5. /\ InUse.modes = modes /\ InUse.on = metro.on /\ InUse.bpm = metro.bpm
      /\ InUse.conditions = conditions
  BY DEF InUse
\* What a write changes, part by part.
<1>6. ASSUME NEW b
      PROVE  /\ [memory EXCEPT !.modes = b].modes = b
             /\ [memory EXCEPT !.modes = b].on = memory.on
             /\ [memory EXCEPT !.modes = b].bpm = memory.bpm
             /\ [memory EXCEPT !.modes = b].conditions = memory.conditions
             /\ [memory EXCEPT !.on = b].modes = memory.modes
             /\ [memory EXCEPT !.on = b].on = b
             /\ [memory EXCEPT !.on = b].bpm = memory.bpm
             /\ [memory EXCEPT !.on = b].conditions = memory.conditions
             /\ [memory EXCEPT !.bpm = b].modes = memory.modes
             /\ [memory EXCEPT !.bpm = b].on = memory.on
             /\ [memory EXCEPT !.bpm = b].bpm = b
             /\ [memory EXCEPT !.bpm = b].conditions = memory.conditions
  BY <1>2 DEF Memory
<1>7. ASSUME NEW b
      PROVE  /\ [memory EXCEPT !.conditions.value = b].modes = memory.modes
             /\ [memory EXCEPT !.conditions.value = b].on = memory.on
             /\ [memory EXCEPT !.conditions.value = b].bpm = memory.bpm
             /\ [memory EXCEPT !.conditions.value = b].conditions.value = b
             /\ [memory EXCEPT !.conditions.value = b].conditions.tolerance
                  = memory.conditions.tolerance
             /\ [memory EXCEPT !.conditions.tolerance = b].modes = memory.modes
             /\ [memory EXCEPT !.conditions.tolerance = b].on = memory.on
             /\ [memory EXCEPT !.conditions.tolerance = b].bpm = memory.bpm
             /\ [memory EXCEPT !.conditions.tolerance = b].conditions.value
                  = memory.conditions.value
             /\ [memory EXCEPT !.conditions.tolerance = b].conditions.tolerance = b
  BY <1>2 DEF Memory, Conditions
<1> HIDE DEF LowByte, HighByte, InUse
<1>8. CASE todo = "modes"
  <2>1. todo' = "nothing" /\ kept' = InUse
        /\ memory' = [memory EXCEPT !.modes = modes]
    BY <1>8, WriteSteps
  <2>2. /\ memory'.modes = modes
        /\ memory'.on = memory.on
        /\ memory'.bpm = memory.bpm
        /\ memory'.conditions = memory.conditions
    BY <1>6, <2>1
  <2> QED
    BY <1>1, <1>5, <1>8, <2>1, <2>2 DEF Saved
<1>9. CASE todo \in {"on", "onThenPace"}
  <2>1. todo' \in {"nothing", "pace"} /\ kept' = InUse
        /\ memory' = [memory EXCEPT !.on = metro.on]
    BY <1>9, WriteSteps
  <2>2. /\ memory'.modes = memory.modes
        /\ memory'.on = metro.on
        /\ memory'.bpm = memory.bpm
        /\ memory'.conditions = memory.conditions
    BY <1>6, <2>1
  <2> QED
    BY <1>1, <1>5, <1>9, <2>1, <2>2 DEF Saved
<1>10. CASE todo = "bpmLow"
  <2>1. todo' = "bpmHigh" /\ kept' = kept
        /\ memory' = [memory EXCEPT !.bpm = LowByte(metro.bpm, memory.bpm)]
    BY <1>10, WriteSteps
  <2>2. /\ memory'.modes = memory.modes
        /\ memory'.on = memory.on
        /\ memory'.bpm = LowByte(metro.bpm, memory.bpm)
        /\ memory'.conditions = memory.conditions
    BY <1>6, <2>1
  <2> QED
    BY <1>1, <1>10, <2>1, <2>2 DEF Saved
<1>11. CASE todo = "bpmHigh"
  <2>1. todo' = "nothing" /\ kept' = InUse
        /\ memory' = [memory EXCEPT !.bpm = HighByte(metro.bpm, memory.bpm)]
    BY <1>11, WriteSteps
  <2>2. /\ memory'.modes = memory.modes
        /\ memory'.on = memory.on
        /\ memory'.bpm = HighByte(metro.bpm, memory.bpm)
        /\ memory'.conditions = memory.conditions
    BY <1>6, <2>1
  <2> QED
    BY <1>1, <1>4, <1>5, <1>11, <2>1, <2>2 DEF Saved
<1>12. CASE todo = "valueLow"
  <2>1. todo' = "valueHigh" /\ kept' = kept
        /\ memory' = [memory EXCEPT !.conditions.value =
                       LowByte(conditions.value, memory.conditions.value)]
    BY <1>12, WriteSteps
  <2>2. /\ memory'.modes = memory.modes
        /\ memory'.on = memory.on
        /\ memory'.bpm = memory.bpm
        /\ memory'.conditions.value = LowByte(conditions.value, memory.conditions.value)
        /\ memory'.conditions.tolerance = memory.conditions.tolerance
    BY <1>7, <2>1
  <2> QED
    BY <1>1, <1>12, <2>1, <2>2 DEF Saved
<1>13. CASE todo = "valueHigh"
  <2>1. todo' = "toleranceLow" /\ kept' = kept
        /\ memory' = [memory EXCEPT !.conditions.value =
                       HighByte(conditions.value, memory.conditions.value)]
    BY <1>13, WriteSteps
  <2>2. /\ memory'.modes = memory.modes
        /\ memory'.on = memory.on
        /\ memory'.bpm = memory.bpm
        /\ memory'.conditions.value = HighByte(conditions.value, memory.conditions.value)
        /\ memory'.conditions.tolerance = memory.conditions.tolerance
    BY <1>7, <2>1
  <2> QED
    BY <1>1, <1>4, <1>13, <2>1, <2>2 DEF Saved
<1>14. CASE todo = "toleranceLow"
  <2>1. todo' = "toleranceHigh" /\ kept' = kept
        /\ memory' = [memory EXCEPT !.conditions.tolerance =
                       LowByte(conditions.tolerance, memory.conditions.tolerance)]
    BY <1>14, WriteSteps
  <2>2. /\ memory'.modes = memory.modes
        /\ memory'.on = memory.on
        /\ memory'.bpm = memory.bpm
        /\ memory'.conditions.value = memory.conditions.value
        /\ memory'.conditions.tolerance = LowByte(conditions.tolerance, memory.conditions.tolerance)
    BY <1>7, <2>1
  <2> QED
    BY <1>1, <1>14, <2>1, <2>2 DEF Saved
<1>15. CASE todo = "toleranceHigh"
  <2>1. todo' = "look" /\ kept' = InUse
        /\ memory' = [memory EXCEPT !.conditions.tolerance =
                       HighByte(conditions.tolerance, memory.conditions.tolerance)]
    BY <1>15, WriteSteps
  <2>2. /\ memory'.modes = memory.modes
        /\ memory'.on = memory.on
        /\ memory'.bpm = memory.bpm
        /\ memory'.conditions.value = memory.conditions.value
        /\ memory'.conditions.tolerance = HighByte(conditions.tolerance, memory.conditions.tolerance)
    BY <1>7, <2>1
  <2> QED
    BY <1>1, <1>4, <1>5, <1>15, <2>1, <2>2 DEF Saved
<1> QED
  BY <1>8, <1>9, <1>10, <1>11, <1>12, <1>13, <1>14, <1>15 DEF WriteByte, Writes

\* Every step keeps what is known of the EEPROM.
LEMMA SavedStep == Shape /\ Saved /\ [Next]_vars => Saved'
<1> SUFFICES ASSUME Shape, Saved, [Next]_vars PROVE Saved'
  OBVIOUS
<1>0. metro \in Metro
  BY DEF Shape, TypeOK
<1> HIDE DEF LowByte
\* Where nothing of it is touched.
<1>a. UNCHANGED <<modes, metro, conditions, memory, todo, kept>> => Saved'
  BY DEF Saved
<1>1. CASE ChangeModes
  BY <1>1 DEF ChangeModes, Press, Saved
<1>2. CASE ForceBang
  BY <1>0, <1>2, ComputeSaved DEF ForceBang, Press
<1>3. CASE Learn
  <2>1. CASE unit = "RANGE"
    BY <1>3, <2>1 DEF Learn, Press, logic, Saved
  <2>2. CASE unit # "RANGE"
    BY <1>3, <2>2 DEF Learn, Press, logic, Saved
  <2> QED
    BY <2>1, <2>2
<1>4. CASE LookLearnt
  <2>1. todo = "look" /\ todo' = "nothing" /\ UNCHANGED <<modes, metro, conditions, memory, kept>>
    BY <1>4, FollowingIs DEF LookLearnt, logic
  <2> QED
    BY <2>1 DEF Saved
<1>5. CASE Pace
  <2>1. inbox[2].data \in Int
    BY InboxType
  <2>2. metro'.on = metro.on
    BY <1>0, <1>5, <2>1, PacedType DEF Pace
  <2>3. todo = "pace" /\ todo' = "bpmLow" /\ UNCHANGED <<modes, conditions, memory, kept>>
    BY <1>5, FollowingIs DEF Pace
  <2> QED
    BY <2>2, <2>3 DEF Saved
<1>6. CASE WriteByte
  BY <1>6, WriteSaved
<1>7. CASE Receive
  BY <1>7, <1>a DEF Receive, logic, record
<1>8. CASE Look
  <2>1. /\ metro'.bpm = metro.bpm
        /\ todo = "nothing"
        /\ todo' = "on" \/ (todo' = "nothing" /\ metro' = metro)
        /\ UNCHANGED <<modes, conditions, memory, kept>>
    BY <1>0, <1>8 DEF Look, Switched, Metro
  <2> QED
    BY <2>1 DEF Saved
<1>9. CASE Think
  <2> DEFINE m == IF BeatDue THEN [metro EXCEPT !.beat = 0] ELSE metro
             d == IF BeatDue THEN "true" ELSE light.data
  <2>1. m \in Metro /\ m.on = metro.on /\ m.bpm = metro.bpm
    BY <1>0 DEF Metro
  <2>2. UNCHANGED <<modes, conditions>> /\ todo = "nothing"
    BY <1>9 DEF Think
  <2> HIDE DEF m, d
  <2>3. CASE Compute(m, d, BeatDue)
    BY <2>1, <2>2, <2>3, ComputeSaved
  <2>4. CASE metro' = m /\ UNCHANGED record
    BY <2>1, <2>2, <2>4, SavedOn DEF record
  <2> QED
    BY <1>9, <2>3, <2>4 DEF Think, m, d
<1>10. CASE Finish
  BY <1>10, <1>a DEF Finish, logic, record
<1>11. CASE Advance
  BY <1>0, <1>11 DEF Advance, Metro, Saved, record
<1>12. CASE Move
  BY <1>12, <1>a DEF Move, logic, record
<1>13. CASE Restart
  BY <1>13 DEF Restart, Saved
<1>14. CASE UNCHANGED vars
  BY <1>14, <1>a DEF vars, logic, record
<1> QED
  BY <1>1, <1>2, <1>3, <1>4, <1>5, <1>6, <1>7, <1>8, <1>9, <1>10, <1>11, <1>12, <1>13,
     <1>14 DEF Next

\* What a power cut leaves is what was saved last, or what is in use, or the low byte
\* of the one and the high byte of the other.
LEMMA RestartStep ==
  ASSUME Saved, Restart
  PROVE  /\ modes' \in {modes, kept.modes} /\ metro'.on \in {metro.on, kept.on}
         /\ metro'.bpm \in Torn(metro.bpm, kept.bpm)
         /\ conditions'.value \in Torn(conditions.value, kept.conditions.value)
         /\ conditions'.tolerance \in Torn(conditions.tolerance, kept.conditions.tolerance)
         /\ conditions'.tolerance # kept.conditions.tolerance
              => conditions'.value = conditions.value
<1>1. /\ modes' = memory.modes /\ metro'.on = memory.on /\ metro'.bpm = memory.bpm
      /\ conditions' = memory.conditions
  BY DEF Restart
<1> HIDE DEF LowByte
<1> QED
  BY <1>1 DEF Saved, Torn

-----------------------------------------------------------------------------
(* The switch of the metronome.                                            *)

\* While the switch was not open for long since it toggled the metronome, the sensor
\* has not looked yet or believes that it is closed; and what it knows of an open
\* contact is not older than the first time it came open.
Held ==
  unit = "METRO" /\ ~released =>
    /\ reading = 0 => ~sensor.first /\ opened \in 0..Debounce
    /\ sensor.first \/ sensor.state
    /\ ~sensor.first /\ ~sensor.raw => opened >= 0 /\ sensor.age <= opened

\* A look at a switch that trembles is no event, and leaves it believed.
LEMMA HeldLook ==
  ASSUME NEW s \in Sensor, NEW raw \in BOOLEAN, NEW age \in -1..Debounce + 1,
         ~raw => ~s.first /\ age \in 0..Debounce,
         s.first \/ s.state,
         ~s.first /\ ~s.raw => age >= 0 /\ s.age <= age
  PROVE  /\ ~Debounced(s, raw).event
         /\ ~Debounced(s, raw).first /\ Debounced(s, raw).state
         /\ ~Debounced(s, raw).raw => age >= 0 /\ Debounced(s, raw).age <= age
<1> DEFINE was == IF s.first THEN [s EXCEPT !.raw = raw, !.state = raw] ELSE s
           now == IF raw = was.raw /\ was.age > Debounce THEN raw ELSE was.state
<1>1. was \in Sensor /\ was.state /\ was.age = s.age /\ (~s.first => was = s)
      /\ (s.first => raw /\ was.raw = raw)
  BY DEF Sensor
<1>2. s.age \in Nat /\ age \in Int /\ Debounce \in Nat
  BY TimeAssumption DEF Sensor
<1>3. /\ Debounced(s, raw).first = FALSE
      /\ Debounced(s, raw).raw = raw
      /\ Debounced(s, raw).state = now
      /\ Debounced(s, raw).age = (IF raw = was.raw THEN was.age ELSE 0)
      /\ Debounced(s, raw).event = (~was.state /\ now)
  BY DEF Debounced
<1> HIDE DEF was
<1>4. CASE raw
  <2>1. now
    BY <1>1, <1>4 DEF Sensor
  <2> QED
    BY <1>1, <1>3, <1>4, <2>1
<1>5. CASE ~raw
  <2>1. was = s /\ ~s.first /\ age >= 0 /\ age <= Debounce
    BY <1>1, <1>2, <1>5
  <2>2. CASE s.raw
    <3>1. raw # was.raw
      BY <1>5, <2>1, <2>2
    <3> QED
      BY <1>1, <1>3, <1>5, <2>1, <3>1
  <2>3. CASE ~s.raw
    <3>1. s.age <= age /\ ~(was.age > Debounce)
      BY <1>2, <2>1, <2>3
    <3>2. raw = was.raw
      BY <1>5, <2>1, <2>3 DEF Sensor
    <3> QED
      BY <1>1, <1>3, <1>5, <2>1, <3>1, <3>2
  <2> QED
    BY <2>2, <2>3 DEF Sensor
<1> QED
  BY <1>4, <1>5

\* An event comes with a pressed switch that is believed.
LEMMA EventLook ==
  ASSUME NEW s \in Sensor, NEW raw \in BOOLEAN, Debounced(s, raw).event
  PROVE  raw /\ Debounced(s, raw).raw /\ Debounced(s, raw).state
BY DEF Debounced, Sensor

\* A look keeps what is known of a switch that was not released.
LEMMA LookHeld ==
  ASSUME Shape, Held, unit = "METRO", ~released,
         sensor' = Debounced(sensor, Raw(reading, conditions))
  PROVE  /\ ~sensor'.event
         /\ reading = 0 => ~sensor'.first /\ opened \in 0..Debounce
         /\ sensor'.state
         /\ ~sensor'.raw => opened >= 0 /\ sensor'.age <= opened
<1>1. sensor \in Sensor /\ opened \in -1..Debounce + 1 /\ reading \in {0, 1}
  BY DEF Shape, TypeOK, Readings
<1> DEFINE raw == reading = 1
<1>2. raw \in BOOLEAN /\ (~raw <=> reading = 0) /\ Raw(reading, conditions) = raw
  BY <1>1 DEF Raw
<1>3. sensor' = Debounced(sensor, raw)
  BY <1>2
<1> HIDE DEF raw
<1>4. /\ ~raw => ~sensor.first /\ opened \in 0..Debounce
      /\ sensor.first \/ sensor.state
      /\ ~sensor.first /\ ~sensor.raw => opened >= 0 /\ sensor.age <= opened
  BY <1>2 DEF Held
<1>5. /\ ~sensor'.event /\ ~sensor'.first /\ sensor'.state
      /\ ~sensor'.raw => opened >= 0 /\ sensor'.age <= opened
  BY <1>1, <1>2, <1>3, <1>4, HeldLook
<1> QED
  BY <1>2, <1>4, <1>5

\* Every step keeps what the sensor knows of a switch that is held.
LEMMA HeldStep == Shape /\ Held /\ [Next]_vars => Held'
<1> SUFFICES ASSUME Shape, Held, [Next]_vars PROVE Held'
  OBVIOUS
<1>0. sensor \in Sensor /\ released \in BOOLEAN /\ opened \in -1..Debounce + 1
      /\ Debounce \in Nat
  BY TimeAssumption DEF Shape, TypeOK
\* Where nothing of it is touched.
<1>a. UNCHANGED <<unit, released, opened, reading, sensor>> => Held'
  BY DEF Held
<1>1. CASE ChangeModes
  BY <1>1, <1>a DEF ChangeModes, Press, human, press
<1>2. CASE ForceBang
  BY <1>2, <1>a DEF ForceBang, Press, human, press
<1>3. CASE Learn
  <2> SUFFICES ASSUME unit' = "METRO" PROVE Held'
    BY DEF Held
  <2> QED
    BY <1>3, <1>a DEF Learn, Press, human, press
<1>4. CASE LookLearnt
  <2> SUFFICES ASSUME unit = "METRO", ~released PROVE Held'
    BY <1>4 DEF LookLearnt, history, press, Held
  <2> QED
    BY <1>4, LookHeld DEF LookLearnt, human, history, press, Held
<1>5. CASE Pace
  BY <1>5, <1>a DEF Pace, human, history, press
<1>6. CASE WriteByte
  BY <1>6, <1>a DEF WriteByte, human, history, press
<1>7. CASE Receive
  BY <1>7, <1>a DEF Receive, human, history, press
<1>8. CASE Look
  <2> SUFFICES ASSUME unit = "METRO", ~released' PROVE Held'
    BY <1>8 DEF Look, Held
  <2>1. /\ sensor' = Debounced(sensor, Raw(reading, conditions))
        /\ reading' = reading
        /\ released' = (released /\ ~sensor'.event)
        /\ opened' = IF sensor'.event THEN -1 ELSE opened
    BY <1>8 DEF Look, human
  <2>2. CASE released
    <3>1. Debounced(sensor, Raw(reading, conditions)).event
      BY <2>1, <2>2
    <3>2. Raw(reading, conditions) \in BOOLEAN
      BY ReadingType
    <3>3. Raw(reading, conditions) /\ sensor'.raw /\ sensor'.state
      BY <1>0, <2>1, <3>1, <3>2, EventLook
    <3>4. reading' = 1
      BY <2>1, <3>3 DEF Raw
    <3> QED
      BY <3>3, <3>4 DEF Held
  <2>3. CASE ~released
    <3>1. ~sensor'.event
      BY <2>1, <2>3, LookHeld
    <3>2. opened' = opened
      BY <2>1, <3>1
    <3> QED
      BY <2>1, <2>3, <3>2, LookHeld DEF Held
  <2> QED
    BY <2>2, <2>3
<1>9. CASE Think
  BY <1>9, <1>a DEF Think, human, press
<1>10. CASE Finish
  BY <1>10, <1>a DEF Finish, human, press
<1>11. CASE Advance
  <2> SUFFICES ASSUME unit = "METRO", ~released' PROVE Held'
    BY <1>11 DEF Advance, Held
  <2> DEFINE old == IF opened < 0 THEN opened ELSE Aged(opened, Debounce)
  <2>1. /\ sensor'.first = sensor.first /\ sensor'.raw = sensor.raw
        /\ sensor'.state = sensor.state /\ sensor'.age = Aged(sensor.age, Debounce)
        /\ reading' = reading
    BY <1>0, <1>11 DEF Advance, Sensor
  <2>2. Opening(reading, old)
    BY <1>11 DEF Advance
  <2>3. ~released /\ (reading = 0 => ~sensor.first /\ ~(old > Debounce))
        /\ opened' = IF reading = 0 /\ old < 0 THEN 0 ELSE old
    BY <1>0, <2>2 DEF Opening, Sensor
  <2>4. old \in Int /\ (opened >= 0 => old >= opened)
    BY <1>0 DEF Aged
  <2>5. reading' = 0 => ~sensor'.first /\ opened' \in 0..Debounce
    <3> HIDE DEF old
    <3> QED
      BY <1>0, <2>1, <2>3, <2>4
  <2>6. ASSUME ~sensor'.first, ~sensor'.raw PROVE opened' >= 0 /\ sensor'.age <= opened'
    <3>1. opened >= 0 /\ sensor.age <= opened
      BY <2>1, <2>3, <2>6 DEF Held
    <3>2. sensor.age \in Nat
      BY <1>0 DEF Sensor
    <3>3. old = Aged(opened, Debounce) /\ Aged(sensor.age, Debounce) <= Aged(opened, Debounce)
      BY <1>0, <3>1, <3>2 DEF Aged
    <3> HIDE DEF old
    <3>4. opened' = old
      BY <1>0, <2>3, <2>4, <3>1
    <3> QED
      BY <2>1, <2>4, <3>1, <3>3, <3>4, <1>0
  <2> QED
    BY <2>1, <2>3, <2>5, <2>6 DEF Held
<1>12. CASE Move
  <2> SUFFICES ASSUME unit = "METRO", ~released' PROVE Held'
    BY <1>12 DEF Move, Held
  <2>1. sensor' = sensor /\ Opening(reading', opened)
    BY <1>12 DEF Move
  <2>2. ~released /\ (reading' = 0 => ~sensor.first /\ ~(opened > Debounce))
        /\ opened' = IF reading' = 0 /\ opened < 0 THEN 0 ELSE opened
    BY <1>0, <2>1 DEF Opening, Sensor
  <2> QED
    BY <1>0, <2>1, <2>2 DEF Held
<1>13. CASE Restart
  <2> SUFFICES ASSUME unit' = "METRO", ~released' PROVE Held'
    BY DEF Held
  <2>1. reading' # 0 /\ sensor'.first
    BY <1>13 DEF Restart, NewSensor
  <2> QED
    BY <2>1 DEF Held
<1>14. CASE UNCHANGED vars
  BY <1>14, <1>a DEF vars, human, history, press
<1> QED
  BY <1>1, <1>2, <1>3, <1>4, <1>5, <1>6, <1>7, <1>8, <1>9, <1>10, <1>11, <1>12, <1>13,
     <1>14 DEF Next

\* Between two toggles of its own the switch was open for longer than it trembles.
LEMMA PressStep ==
  Shape /\ Held /\ [Next]_vars => [Look /\ unit = "METRO" /\ sensor'.event => released]_vars
<1> SUFFICES ASSUME Shape, Held, Look, unit = "METRO", sensor'.event, ~released
             PROVE  FALSE
  BY DEF Shape, TypeOK
<1>1. sensor' = Debounced(sensor, Raw(reading, conditions))
  BY DEF Look
<1> QED
  BY <1>1, LookHeld

-----------------------------------------------------------------------------
(* The beats of the metronome.                                             *)

\* What comes after learning.
Learning == {"valueLow", "valueHigh", "toleranceLow", "toleranceHigh", "look"}

\* The node only waits inside a pass, and learns after a key.
Waits ==
  /\ stage \in {"start", "received"} => wait = 0
  /\ todo \in Learning => stage = "commanded"

\* No step but a key begins to learn.
LEMMA LearningStep ==
  ASSUME Waits, LookLearnt \/ Pace \/ WriteByte
  PROVE  todo' \in Learning => todo \in Learning
BY WriteSteps, FollowingIs DEF LookLearnt, Pace, Learning


\* How late a beat may be at each stage of a pass.
OnTime ==
  unit = "METRO" /\ metro.on /\ metro.bpm > 0 =>
    /\ stage = "start" =>
         \/ metro.beat <= Period(metro.bpm) + gap
         \/ metro.beat <= ToggleDelay + gap
    /\ stage \in {"commanded", "received", "seen"} =>
         \/ metro.beat <= Period(metro.bpm) + MaxGap + ToggleDelay - wait
         \/ metro.beat <= MaxGap + 2 * ToggleDelay - wait
    /\ stage = "thought" =>
         \/ wait = 0 /\ metro.beat <= Period(metro.bpm)
         \/ metro.beat <= ToggleDelay - wait

\* The period is a number of ticks when there are beats at all.
LEMMA PeriodType ==
  ASSUME NEW bpm \in Nat, bpm > 0
  PROVE  Period(bpm) \in Nat
BY TimeAssumption, SMTT(30) DEF Period

\* compute() of the metronome either starts the beat anew, and then waits for the
\* delay of a toggle at most, or leaves it and does not wait.
LEMMA ComputeBeat ==
  ASSUME Shape, NEW m \in Metro, NEW d, NEW told, Compute(m, d, told)
  PROVE  \/ metro' = m /\ wait' = 0
         \/ metro'.beat = 0 /\ wait' \in {0, ToggleDelay}
<1> DEFINE toggled == unit = "METRO" /\ 1 \in New
<1>1. metro' = IF toggled THEN Switched(m, ~m.on) ELSE m
  BY DEF Compute
<1>2. wait' = IF toggled THEN ToggleDelay ELSE 0
  BY DEF Compute
<1> HIDE DEF toggled
<1>3. toggled => metro'.beat = 0
  BY <1>1 DEF Switched, Metro
<1> QED
  BY <1>1, <1>2, <1>3

\* Every step keeps the waiting within a pass.
LEMMA WaitsStep == Shape /\ Waits /\ [Next]_vars => Waits'
<1> SUFFICES ASSUME Shape, Waits, [Next]_vars PROVE Waits'
  OBVIOUS
<1>1. CASE ChangeModes \/ Learn \/ Receive \/ Look
  BY <1>1 DEF ChangeModes, Learn, Press, Receive, Look, record, Learning, Waits
<1>2. CASE ForceBang
  BY <1>2 DEF ForceBang, Press, Compute, Learning, Waits
<1>3. CASE Think
  BY <1>3 DEF Think, Compute, record, Learning, Waits
<1>4. CASE LookLearnt \/ Pace \/ WriteByte
  <2>1. UNCHANGED <<stage, wait>>
    BY <1>4 DEF LookLearnt, Pace, WriteByte
  <2> QED
    BY <1>4, <2>1, LearningStep DEF Waits
<1>5. CASE Advance
  BY <1>5 DEF Advance, record, Waits
<1>6. CASE Finish \/ Move \/ Restart \/ UNCHANGED vars
  BY <1>6 DEF Finish, Move, Restart, vars, record, Learning, Waits
<1> QED
  BY <1>1, <1>2, <1>3, <1>4, <1>5, <1>6 DEF Next

\* Every step keeps the beats on time.
LEMMA OnTimeStep ==
  Shape /\ Waits /\ OnTime /\ [Next]_vars => OnTime'
<1> SUFFICES ASSUME Shape, Waits, OnTime, [Next]_vars PROVE OnTime'
  BY WaitsStep
<1> DEFINE Beating == unit = "METRO" /\ metro.on /\ metro.bpm > 0
<1>a. metro \in Metro /\ wait \in 0..ToggleDelay /\ gap \in 0..MaxGap
      /\ MaxGap \in Nat /\ ToggleDelay \in Nat
  BY TimeAssumption DEF Shape, TypeOK
<1>b. metro.beat \in Nat /\ metro.bpm \in Nat
  BY <1>a, Sizes DEF Metro, Words
<1>c. metro.bpm > 0 => Period(metro.bpm) \in Nat
  BY <1>b, PeriodType
<1>d. metro' \in Metro /\ wait' \in 0..ToggleDelay
  BY ShapeStep DEF Shape, TypeOK
<1>e. metro'.beat \in Nat /\ metro'.bpm \in Nat
  BY <1>d, Sizes DEF Metro, Words
<1>f. metro'.bpm > 0 => Period(metro'.bpm) \in Nat
  BY <1>e, PeriodType
<1>h. 0 <= MaxGap + 2 * ToggleDelay - wait' /\ 0 <= ToggleDelay - wait'
  <2>1. wait' \in 0..ToggleDelay /\ MaxGap \in Nat /\ ToggleDelay \in Nat
    BY <1>a, <1>d
  <2>2. ASSUME NEW w \in 0..ToggleDelay
        PROVE  0 <= MaxGap + 2 * ToggleDelay - w /\ 0 <= ToggleDelay - w
    <3>1. w \in Nat /\ w <= ToggleDelay
      BY <2>1
    <3> QED
      BY <2>1, <3>1
  <2> QED
    BY <2>1, <2>2
\* What a key leaves when it does not touch the beats.
<1>g. ASSUME stage = "start", stage' = "commanded", metro' = metro, unit' = unit
      PROVE  OnTime'
  <2>1. Beating => \/ metro.beat <= Period(metro.bpm) + gap
                   \/ metro.beat <= ToggleDelay + gap
    BY <1>g DEF OnTime
  <2>2. Beating => \/ metro.beat <= Period(metro.bpm) + MaxGap + ToggleDelay - wait'
                   \/ metro.beat <= MaxGap + 2 * ToggleDelay - wait'
    BY <1>a, <1>b, <1>c, <1>d, <2>1
  <2> QED
    BY <1>g, <2>2 DEF OnTime, Period
<1>1. CASE ChangeModes
  BY <1>1, <1>g DEF ChangeModes, Press
<1>2. CASE ForceBang
  <2>1. stage = "start" /\ stage' = "commanded" /\ unit' = unit /\ wait' \in Nat
    BY <1>2, <1>d, <1>a DEF ForceBang, Press
  <2>2. CASE metro' = metro
    BY <1>g, <2>1, <2>2
  <2>3. CASE metro'.beat = 0
    <3>1. metro'.beat <= MaxGap + 2 * ToggleDelay - wait' /\ metro'.beat <= ToggleDelay - wait'
      BY <1>h, <2>3
    <3> QED
      BY <2>1, <2>3, <3>1 DEF OnTime, Waits
  <2> QED
    BY <1>2, <1>a, <2>2, <2>3, ComputeBeat DEF ForceBang
<1>3. CASE Learn
  BY <1>3, <1>g DEF Learn, Press, logic
<1>4. CASE LookLearnt
  BY <1>4 DEF LookLearnt, logic, OnTime, Period
<1>5. CASE Pace
  <2>1. stage' = stage /\ wait = 0 /\ UNCHANGED <<wait, gap>>
    BY <1>5 DEF Pace
  <2>2. inbox[2].data \in Int
    BY InboxType
  <2>3. metro'.beat = 0
    BY <1>5, <1>a, <2>2, PacedType DEF Pace
  <2> QED
    BY <1>a, <1>f, <1>h, <2>1, <2>3 DEF OnTime
<1>6. CASE WriteByte
  BY <1>6 DEF WriteByte, logic, OnTime, Period
<1>7. CASE Receive
  <2>1. stage \in {"start", "commanded"} /\ stage' = "received" /\ wait = 0
        /\ UNCHANGED <<unit, wait, metro>>
    BY <1>7 DEF Receive, logic
  <2>2. Beating => \/ metro.beat <= Period(metro.bpm) + MaxGap + ToggleDelay
                   \/ metro.beat <= MaxGap + 2 * ToggleDelay
    BY <1>a, <1>b, <1>c, <2>1 DEF OnTime
  <2> QED
    BY <1>a, <1>b, <1>c, <2>1, <2>2 DEF OnTime, Waits, Period
<1>8. CASE Look
  <2>1. stage \in {"start", "commanded", "received"} /\ stage' = "seen" /\ wait = 0
        /\ unit' = unit
    BY <1>8 DEF Look
  <2>2. \/ metro' = metro /\ wait' = 0
        \/ metro'.beat = 0
    BY <1>8, <1>a DEF Look, Switched, Metro
  <2>3. CASE metro'.beat = 0
    <3>1. metro'.beat <= MaxGap + 2 * ToggleDelay - wait' /\ metro'.beat <= ToggleDelay - wait'
      BY <1>h, <2>3
    <3> QED
      BY <2>1, <2>3, <3>1 DEF OnTime, Waits
  <2>4. CASE metro' = metro /\ wait' = 0
    <3>1. Beating => \/ metro.beat <= Period(metro.bpm) + MaxGap + ToggleDelay
                     \/ metro.beat <= MaxGap + 2 * ToggleDelay
      BY <1>a, <1>b, <1>c, <2>1 DEF OnTime
    <3> QED
      BY <1>a, <1>b, <1>c, <2>1, <2>4, <3>1 DEF OnTime, Waits, Period
  <2> QED
    BY <2>2, <2>3, <2>4
<1>9. CASE Think
  <2> DEFINE m == IF BeatDue THEN [metro EXCEPT !.beat = 0] ELSE metro
  <2>1. stage' = "thought" /\ unit' = unit /\ wait = 0
    BY <1>9 DEF Think
  <2>2. m \in Metro
    BY <1>a DEF Metro
  <2>3. \/ metro' = m /\ wait' = 0
        \/ metro'.beat = 0 /\ wait' \in {0, ToggleDelay}
    <3> HIDE DEF m
    <3>1. ASSUME NEW d, NEW told, Compute(m, d, told)
          PROVE  \/ metro' = m /\ wait' = 0
                 \/ metro'.beat = 0 /\ wait' \in {0, ToggleDelay}
      BY <2>2, <3>1, ComputeBeat
    <3> QED
      BY <1>9, <2>1, <3>1 DEF Think, m
  <2>4. CASE metro'.beat = 0
    <3>1. metro'.beat <= MaxGap + 2 * ToggleDelay - wait' /\ metro'.beat <= ToggleDelay - wait'
      BY <1>h, <2>4
    <3> QED
      BY <2>1, <2>4, <3>1 DEF OnTime, Waits
  <2>5. CASE metro' = metro /\ ~BeatDue /\ wait' = 0
    <3>1. Beating => metro.beat <= Period(metro.bpm)
      BY <1>b, <1>c, <2>5 DEF BeatDue
    <3> QED
      BY <2>1, <2>5, <3>1 DEF OnTime, Waits, Period
  <2>6. BeatDue => m.beat = 0
    BY <1>a DEF Metro
  <2> QED
    BY <2>3, <2>4, <2>5, <2>6
<1>10. CASE Finish
  <2>1. stage = "thought" /\ stage' = "start" /\ wait = 0 /\ wait' = 0 /\ gap' = 0
        /\ unit' = unit /\ metro' = metro
    BY <1>10 DEF Finish, logic
  <2>2. Beating => \/ metro.beat <= Period(metro.bpm)
                   \/ metro.beat <= ToggleDelay
    BY <1>a, <1>b, <1>c, <2>1 DEF OnTime
  <2> QED
    BY <1>a, <1>b, <1>c, <2>1, <2>2 DEF OnTime, Waits, Period
<1>11. CASE Advance
  <2>1. stage' = stage /\ unit' = unit
    BY <1>11 DEF Advance
  <2>2. metro'.on = metro.on /\ metro'.bpm = metro.bpm /\ metro'.beat <= metro.beat + 1
    <3>1. Minute + Longest \in Nat
      BY TimeAssumption DEF Longest
    <3>2. Aged(metro.beat, Minute + Longest) <= metro.beat + 1
      BY <1>b, <3>1, AgedType
    <3> QED
      BY <1>11, <1>a, <1>b, <3>2 DEF Advance, Metro
  <2>3. Period(metro'.bpm) = Period(metro.bpm)
    BY <2>2
  <2>4. CASE wait > 0 /\ wait' = wait - 1
    BY <1>a, <1>b, <1>c, <1>e, <2>1, <2>2, <2>3, <2>4 DEF OnTime, Waits
  <2>5. CASE wait = 0 /\ wait' = 0 /\ stage = "start" /\ gap' = gap + 1
    BY <1>a, <1>b, <1>c, <1>e, <2>1, <2>2, <2>3, <2>5 DEF OnTime, Waits
  <2> QED
    BY <1>11, <2>4, <2>5 DEF Advance
<1>12. CASE Move
  BY <1>12 DEF Move, logic, OnTime, Waits, Period
<1>13. CASE Restart
  <2>1. stage' = "start" /\ wait' = 0 /\ gap' = 0 /\ metro'.beat = 0
    BY <1>13 DEF Restart
  <2> QED
    BY <1>a, <1>f, <2>1 DEF OnTime, Waits
<1>14. CASE UNCHANGED vars
  BY <1>14 DEF vars, logic, OnTime, Waits, Period
<1> QED
  BY <1>1, <1>2, <1>3, <1>4, <1>5, <1>6, <1>7, <1>8, <1>9, <1>10, <1>11, <1>12, <1>13,
     <1>14 DEF Next

-----------------------------------------------------------------------------
(* Time in a pass.                                                         *)

\* The delays of a pass up to each stage, at most.
Delays ==
  IF stage = "start" THEN 0
  ELSE IF stage \in {"commanded", "received"} THEN ToggleDelay
  ELSE IF stage = "seen" THEN 2 * ToggleDelay
  ELSE 3 * ToggleDelay

\* How long the pass has lasted, and how long ago the sensor was looked at, at most.
Lasting == gap + Delays - wait

SinceLook ==
  IF stage \in {"seen", "thought"} THEN Delays - ToggleDelay - wait
  ELSE gap + Delays + 2 * ToggleDelay - wait

\* The numbers of a state.
LEMMA Amounts ==
  ASSUME Shape
  PROVE  /\ gap \in Nat /\ gap <= MaxGap /\ wait \in Nat /\ wait <= ToggleDelay
         /\ steady \in Nat /\ latch \in Nat
         /\ metro.beat \in Nat /\ sensor.age \in Nat /\ light.age \in Nat
         /\ MaxGap \in Nat /\ ToggleDelay \in Nat /\ Debounce \in Nat /\ Latch \in Nat
         /\ Pulse \in Nat /\ Minute \in Nat /\ Longest \in Nat
<1>1. /\ MaxGap \in Nat /\ ToggleDelay \in Nat /\ Debounce \in Nat /\ Latch \in Nat
      /\ Pulse \in Nat /\ Minute \in Nat
  BY TimeAssumption
<1>2. Longest \in Nat
  BY <1>1 DEF Longest
<1>3. gap \in 0..MaxGap /\ wait \in 0..ToggleDelay
  BY DEF Shape, TypeOK
<1>4. gap \in Nat /\ gap <= MaxGap /\ wait \in Nat /\ wait <= ToggleDelay
  BY <1>1, <1>3
<1>5. steady \in Nat /\ latch \in Nat
  BY DEF Shape, TypeOK
<1>6. metro.beat \in Nat /\ sensor.age \in Nat /\ light.age \in Nat
  BY DEF Shape, TypeOK, Metro, Sensor, Light
<1> QED
  BY <1>1, <1>2, <1>4, <1>5, <1>6

\* A pass lasts for the longest time at most, and so does the time from one look to
\* the next.
LEMMA PassLasts ==
  ASSUME Shape, Waits
  PROVE  /\ Lasting \in Nat /\ Lasting <= Longest
         /\ SinceLook \in Nat /\ SinceLook <= Longest
<1>1. stage \in {"start", "commanded", "received", "seen", "thought"}
  BY DEF Shape, TypeOK
<1>2. CASE stage = "start"
  BY <1>2, Amounts DEF Lasting, SinceLook, Delays, Longest, Waits
<1>3. CASE stage = "commanded"
  BY <1>3, Amounts DEF Lasting, SinceLook, Delays, Longest
<1>4. CASE stage = "received"
  BY <1>4, Amounts DEF Lasting, SinceLook, Delays, Longest, Waits
<1>5. CASE stage = "seen"
  BY <1>5, Amounts DEF Lasting, SinceLook, Delays, Longest
<1>6. CASE stage = "thought"
  BY <1>6, Amounts DEF Lasting, SinceLook, Delays, Longest
<1> QED
  BY <1>1, <1>2, <1>3, <1>4, <1>5, <1>6

\* From stage to stage neither becomes less; only a look makes the second one less.
Onward ==
  /\ wait = 0 /\ wait' \in 0..ToggleDelay /\ gap' = gap
  /\ \/ stage = "start" /\ stage' = "commanded"
     \/ stage \in {"start", "commanded"} /\ stage' = "received" /\ wait' = 0
     \/ stage \in {"start", "commanded", "received"} /\ stage' = "seen"
     \/ stage = "seen" /\ stage' = "thought"

LEMMA OnwardTime ==
  ASSUME Shape, Onward
  PROVE  /\ Lasting' \in Nat /\ Lasting <= Lasting'
         /\ SinceLook' \in Nat /\ (stage' # "seen" => SinceLook <= SinceLook')
<1>1. wait' \in Nat /\ wait' <= ToggleDelay
  BY Amounts DEF Onward
<1>2. CASE stage' = "commanded"
  BY <1>1, <1>2, Amounts DEF Onward, Lasting, SinceLook, Delays
<1>3. CASE stage' = "received"
  BY <1>1, <1>3, Amounts DEF Onward, Lasting, SinceLook, Delays
<1>4. CASE stage' = "seen"
  BY <1>1, <1>4, Amounts DEF Onward, Lasting, SinceLook, Delays
<1>5. CASE stage' = "thought"
  BY <1>1, <1>5, Amounts DEF Onward, Lasting, SinceLook, Delays
<1> QED
  BY <1>2, <1>3, <1>4, <1>5 DEF Onward

\* Time counts for both.
LEMMA AdvanceTime ==
  ASSUME Shape, Waits, Advance
  PROVE  Lasting' = Lasting + 1 /\ SinceLook' = SinceLook + 1
<1>1. stage' = stage
  BY DEF Advance
<1>2. CASE wait > 0 /\ wait' = wait - 1 /\ gap' = gap
  <2>1. Delays' = Delays /\ Delays \in Nat
    BY <1>1, Amounts DEF Delays
  <2> QED
    BY <1>1, <1>2, <2>1, Amounts DEF Lasting, SinceLook
<1>3. CASE wait' = wait /\ gap' = gap + 1 /\ stage = "start"
  BY <1>1, <1>3, Amounts DEF Lasting, SinceLook, Delays
<1> QED
  BY <1>2, <1>3 DEF Advance

\* The first stage of a pass.
LEMMA StartTime ==
  ASSUME Shape, stage' = "start", wait' = 0, gap' = 0
  PROVE  Lasting' = 0 /\ SinceLook' = 2 * ToggleDelay
BY Amounts DEF Lasting, SinceLook, Delays

\* Which steps go on to a later stage.
LEMMA StagesGoOn ==
  ASSUME Shape, Waits, wait' \in 0..ToggleDelay,
         ChangeModes \/ ForceBang \/ Learn \/ Receive \/ Look \/ Think
  PROVE  Onward
<1>1. CASE ChangeModes
  BY <1>1 DEF ChangeModes, Press, Onward, Waits
<1>2. CASE ForceBang
  BY <1>2 DEF ForceBang, Press, Onward, Waits
<1>3. CASE Learn
  BY <1>3 DEF Learn, Press, Onward, Waits
<1>4. CASE Receive
  BY <1>4 DEF Receive, Onward
<1>5. CASE Look
  BY <1>5 DEF Look, Onward
<1>6. CASE Think
  BY <1>6 DEF Think, Onward
<1> QED
  BY <1>1, <1>2, <1>3, <1>4, <1>5, <1>6

-----------------------------------------------------------------------------
(* What the sensor knows.                                                  *)

\* A change that the sensor has not seen is no older than its last look; one that
\* it does not believe yet is not much older than the sensor takes it to be.
Followed ==
  /\ unit = "COUNT" => steady = 0
  /\ sensor.first \/ sensor.raw # Raw(reading, conditions) => steady <= SinceLook
  /\ sensor.state # Raw(reading, conditions) =>
       /\ steady <= Debounce + Longest + SinceLook
       /\ sensor.age <= Debounce /\ ~sensor.first /\ sensor.raw = Raw(reading, conditions)
            => steady <= sensor.age + Longest

\* After a look the sensor has seen what there is, and believes it unless it knows it
\* for a debounce time at most.
LEMMA LookKnows ==
  ASSUME NEW s \in Sensor, NEW raw \in BOOLEAN
  PROVE  /\ ~Debounced(s, raw).first
         /\ Debounced(s, raw).raw = raw
         /\ Debounced(s, raw).state # raw =>
              /\ ~s.first
              /\ \/ /\ s.raw = raw /\ s.state # raw /\ s.age <= Debounce
                    /\ Debounced(s, raw).age = s.age
                 \/ s.raw # raw /\ Debounced(s, raw).age = 0
BY TimeAssumption DEF Debounced, Sensor

\* Where neither the sensor nor what it sees changes.
LEMMA FollowedOn ==
  ASSUME Shape, Waits, Followed, UNCHANGED <<unit, reading, conditions, steady, sensor>>,
         SinceLook' \in Nat, SinceLook <= SinceLook'
  PROVE  Followed'
<1>1. Raw(reading, conditions)' = Raw(reading, conditions)
  BY DEF Raw
<1>2. SinceLook \in Nat
  BY PassLasts
<1> HIDE DEF Raw
<1> QED
  BY <1>1, <1>2, Amounts DEF Followed

\* Where what it sees is new.
LEMMA FollowedAnew ==
  ASSUME Shape, steady' = 0, SinceLook' \in Nat, sensor' \in Sensor
  PROVE  Followed'
<1>1. sensor'.age \in Nat
  BY DEF Sensor
<1> QED
  BY <1>1, Amounts DEF Followed

\* Where the sensor looks.
LEMMA FollowedLook ==
  ASSUME Shape, Waits, Followed, unit # "COUNT",
         UNCHANGED <<unit, reading, conditions, steady>>,
         sensor' = Debounced(sensor, Raw(reading, conditions)),
         SinceLook' \in Nat
  PROVE  Followed'
<1> DEFINE raw == Raw(reading, conditions)
<1>1. Raw(reading, conditions)' = raw
  BY DEF Raw
<1>2. raw \in BOOLEAN
  BY ReadingType
<1>3. sensor \in Sensor
  BY DEF Shape, TypeOK
<1>4. SinceLook \in Nat /\ SinceLook <= Longest
  BY PassLasts
<1> HIDE DEF raw
<1>5. /\ ~sensor'.first /\ sensor'.raw = raw
      /\ sensor'.state # raw =>
           /\ ~sensor.first
           /\ \/ /\ sensor.raw = raw /\ sensor.state # raw /\ sensor.age <= Debounce
                 /\ sensor'.age = sensor.age
              \/ sensor.raw # raw /\ sensor'.age = 0
  BY <1>2, <1>3, LookKnows DEF raw
<1>6. ASSUME sensor'.state # raw
      PROVE  steady <= sensor'.age + Longest /\ steady <= Debounce + Longest
  <2>1. CASE sensor.raw = raw /\ sensor.state # raw /\ sensor.age <= Debounce
             /\ sensor'.age = sensor.age /\ ~sensor.first
    <3>1. steady <= sensor.age + Longest
      BY <2>1 DEF Followed, raw
    <3> QED
      BY <2>1, <3>1, Amounts
  <2>2. CASE sensor.raw # raw /\ sensor'.age = 0
    <3>1. steady <= SinceLook
      BY <2>2 DEF Followed, raw
    <3> QED
      BY <1>4, <2>2, <3>1, Amounts
  <2> QED
    BY <1>5, <1>6, <2>1, <2>2
<1>7. sensor'.state # raw => steady <= Debounce + Longest + SinceLook'
  <2> SUFFICES ASSUME sensor'.state # raw PROVE steady <= Debounce + Longest + SinceLook'
    OBVIOUS
  <2>1. steady <= Debounce + Longest
    BY <1>6
  <2> QED
    BY <2>1, Amounts
<1> QED
  BY <1>1, <1>5, <1>6, <1>7 DEF Followed

\* Every step keeps what the sensor knows.
LEMMA FollowedStep ==
  Shape /\ Waits /\ Followed /\ [Next]_vars => Followed'
<1> SUFFICES ASSUME Shape, Waits, Followed, [Next]_vars PROVE Followed'
  OBVIOUS
<1>0. Shape' /\ wait' \in 0..ToggleDelay /\ sensor' \in Sensor
  BY ShapeStep DEF Shape, TypeOK
<1>a. /\ Onward => SinceLook' \in Nat /\ (stage' # "seen" => SinceLook <= SinceLook')
      /\ SinceLook \in Nat /\ SinceLook <= Longest
  BY OnwardTime, PassLasts
<1>1. CASE ChangeModes
  <2>1. Onward /\ stage' = "commanded"
    BY <1>0, <1>1, StagesGoOn DEF ChangeModes, Press
  <2> QED
    BY <1>1, <1>a, <2>1, FollowedOn DEF ChangeModes, Press, human
<1>2. CASE ForceBang
  <2>1. Onward /\ stage' = "commanded"
    BY <1>0, <1>2, StagesGoOn DEF ForceBang, Press
  <2> QED
    BY <1>2, <1>a, <2>1, FollowedOn DEF ForceBang, Press, human
<1>3. CASE Learn
  <2>1. Onward
    BY <1>0, <1>3, StagesGoOn
  <2>2. CASE unit = "RANGE"
    <3>1. steady' = 0
      BY <1>3, <2>2 DEF Learn
    <3> QED
      BY <1>0, <1>a, <2>1, <3>1, FollowedAnew
  <2>3. CASE unit # "RANGE"
    <3>1. stage' = "commanded" /\ UNCHANGED <<unit, reading, conditions, steady, sensor>>
      BY <1>3, <2>3 DEF Learn, Press, human
    <3> QED
      BY <1>a, <2>1, <3>1, FollowedOn
  <2> QED
    BY <2>2, <2>3
<1>4. CASE LookLearnt
  <2>1. /\ UNCHANGED <<unit, stage, wait, gap, reading, conditions, steady>>
        /\ sensor' = Debounced(sensor, Raw(reading, conditions))
    BY <1>4 DEF LookLearnt, human
  <2>2. SinceLook' \in Nat
    BY <1>a, <2>1 DEF SinceLook, Delays
  <2>3. CASE unit = "COUNT"
    <3>1. steady' = 0
      BY <2>1, <2>3 DEF Followed
    <3> QED
      BY <1>0, <2>2, <3>1, FollowedAnew
  <2>4. CASE unit # "COUNT"
    BY <2>1, <2>2, <2>4, FollowedLook
  <2> QED
    BY <2>3, <2>4
<1>5. CASE Pace \/ WriteByte
  <2>1. UNCHANGED <<unit, stage, wait, gap, reading, conditions, steady, sensor>>
    BY <1>5 DEF Pace, WriteByte, human
  <2>2. SinceLook' = SinceLook
    BY <2>1 DEF SinceLook, Delays
  <2> QED
    BY <1>a, <2>1, <2>2, FollowedOn
<1>6. CASE Receive
  <2>1. Onward /\ stage' = "received"
    BY <1>0, <1>6, StagesGoOn DEF Receive
  <2> QED
    BY <1>6, <1>a, <2>1, FollowedOn DEF Receive, human
<1>7. CASE Look
  <2>1. Onward /\ UNCHANGED <<unit, reading, conditions, steady>>
    BY <1>0, <1>7, StagesGoOn DEF Look, human
  <2>2. CASE unit = "COUNT"
    <3>1. steady' = 0
      BY <2>1, <2>2 DEF Followed
    <3> QED
      BY <1>0, <1>a, <2>1, <3>1, FollowedAnew
  <2>3. CASE unit # "COUNT"
    <3>1. sensor' = Debounced(sensor, Raw(reading, conditions))
      BY <1>7, <2>3 DEF Look
    <3> QED
      BY <1>a, <2>1, <2>3, <3>1, FollowedLook
  <2> QED
    BY <2>2, <2>3
<1>8. CASE Think
  <2>1. Onward /\ stage' = "thought"
    BY <1>0, <1>8, StagesGoOn DEF Think
  <2> QED
    BY <1>8, <1>a, <2>1, FollowedOn DEF Think, human
<1>9. CASE Finish
  <2>1. stage = "thought" /\ stage' = "start" /\ wait = 0 /\ wait' = 0 /\ gap' = 0
    BY <1>9 DEF Finish
  <2>2. SinceLook' = 2 * ToggleDelay /\ SinceLook = 2 * ToggleDelay
    BY <2>1, StartTime, Amounts DEF SinceLook, Delays
  <2>3. SinceLook' \in Nat /\ SinceLook <= SinceLook'
    BY <2>2, Amounts
  <2> QED
    BY <1>9, <2>3, FollowedOn DEF Finish, human
<1>10. CASE Advance
  <2> DEFINE raw == Raw(reading, conditions)
  <2>1. SinceLook' = SinceLook + 1 /\ unit' = unit
    BY <1>10, AdvanceTime DEF Advance
  <2>2. Raw(reading, conditions)' = raw
    BY <1>10 DEF Advance, Raw
  <2>3. CASE unit = "COUNT"
    <3>1. steady' = 0
      BY <1>10, <2>3 DEF Advance, Followed
    <3> QED
      BY <1>0, <1>a, <2>1, <3>1, FollowedAnew
  <2>4. CASE unit # "COUNT"
    <3>1. Debounce + 2 * Longest \in Nat
      BY Amounts
    <3>2. /\ steady' = Aged(steady, Debounce + 2 * Longest)
          /\ sensor' = [sensor EXCEPT !.age = Aged(sensor.age, Debounce)]
      BY <1>10, <2>4 DEF Advance
    <3>3. steady' \in Nat /\ steady' <= steady + 1
      BY <3>1, <3>2, AgedType, Amounts
    <3>4. /\ sensor'.first = sensor.first /\ sensor'.raw = sensor.raw
          /\ sensor'.state = sensor.state /\ sensor'.age = Aged(sensor.age, Debounce)
      BY <3>2 DEF Shape, TypeOK, Sensor
    <3>5. sensor'.age <= Debounce => sensor.age <= Debounce /\ sensor'.age = sensor.age + 1
      BY <3>4, Amounts DEF Aged
    <3> HIDE DEF raw
    <3>6. sensor.first \/ sensor.raw # raw => steady' <= SinceLook'
      <4> SUFFICES ASSUME sensor.first \/ sensor.raw # raw PROVE steady' <= SinceLook'
        OBVIOUS
      <4>1. steady <= SinceLook
        BY DEF Followed, raw
      <4> QED
        BY <1>a, <2>1, <3>3, <4>1, Amounts
    <3>7. sensor.state # raw => steady' <= Debounce + Longest + SinceLook'
      <4> SUFFICES ASSUME sensor.state # raw PROVE steady' <= Debounce + Longest + SinceLook'
        OBVIOUS
      <4>1. steady <= Debounce + Longest + SinceLook
        BY DEF Followed, raw
      <4> QED
        BY <1>a, <2>1, <3>3, <4>1, Amounts
    <3>8. ASSUME sensor.state # raw, sensor'.age <= Debounce, ~sensor.first, sensor.raw = raw
          PROVE  steady' <= sensor'.age + Longest
      <4>1. steady <= sensor.age + Longest
        BY <3>5, <3>8 DEF Followed, raw
      <4> QED
        BY <3>3, <3>5, <3>8, <4>1, Amounts
    <3> QED
      BY <2>1, <2>2, <2>4, <3>4, <3>6, <3>7, <3>8 DEF Followed
  <2> QED
    BY <2>3, <2>4
<1>11. CASE Move
  <2>1. UNCHANGED <<unit, stage, wait, gap, sensor, conditions>>
    BY <1>11 DEF Move
  <2>2. SinceLook' = SinceLook
    BY <2>1 DEF SinceLook, Delays
  <2>3. CASE steady' = 0
    BY <1>0, <1>a, <2>2, <2>3, FollowedAnew
  <2>4. CASE steady' = steady /\ Raw(reading', conditions) = Raw(reading, conditions)
    <3>1. Raw(reading, conditions)' = Raw(reading, conditions)
      BY <2>1, <2>4 DEF Raw
    <3> HIDE DEF Raw
    <3> QED
      BY <2>1, <2>2, <2>4, <3>1 DEF Followed
  <2> QED
    BY <1>11, <2>3, <2>4 DEF Move
<1>12. CASE Restart
  <2>1. stage' = "start" /\ wait' = 0 /\ gap' = 0 /\ steady' = 0
    BY <1>12 DEF Restart
  <2>2. SinceLook' = 2 * ToggleDelay
    BY <2>1, StartTime
  <2>3. SinceLook' \in Nat
    BY <2>2, Amounts
  <2> QED
    BY <1>0, <2>1, <2>3, FollowedAnew
<1>13. CASE UNCHANGED vars
  <2>1. UNCHANGED <<unit, stage, wait, gap, reading, conditions, steady, sensor>>
    BY <1>13 DEF vars, human
  <2>2. SinceLook' = SinceLook
    BY <2>1 DEF SinceLook, Delays
  <2> QED
    BY <1>a, <2>1, <2>2, FollowedOn
<1> QED
  BY <1>1, <1>2, <1>3, <1>4, <1>5, <1>6, <1>7, <1>8, <1>9, <1>10, <1>11, <1>12,
     <1>13 DEF Next

-----------------------------------------------------------------------------
(* The beat in the outlet.                                                 *)

\* A beat that waits in the outlet waits for the latch.
Latched ==
  unit = "METRO" /\ metro.on /\ fresh /\ ~failed =>
    /\ latch <= Latch => metro.beat <= latch
    /\ stage # "thought" => metro.beat <= Latch + Lasting

\* Within a pass the beat starts anew, or nothing that matters changes.
LEMMA LatchedOn ==
  ASSUME Shape, Waits, Latched, Onward, UNCHANGED <<unit, latch>>,
         \/ metro'.beat = 0
         \/ UNCHANGED <<metro, fresh, failed>>
  PROVE  Latched'
<1>1. Lasting' \in Nat /\ Lasting <= Lasting' /\ Lasting \in Nat
  BY OnwardTime, PassLasts
<1>2. stage # "thought"
  BY DEF Onward
<1>3. latch' \in Nat
  BY Amounts
<1>4. CASE metro'.beat = 0
  BY <1>1, <1>3, <1>4, Amounts DEF Latched
<1>5. CASE UNCHANGED <<metro, fresh, failed>>
  BY <1>1, <1>2, <1>5, Amounts DEF Latched
<1> QED
  BY <1>4, <1>5

\* Every step keeps the age of a beat that waits.
LEMMA LatchedStep ==
  Shape /\ Waits /\ Latched /\ [Next]_vars => Latched'
<1> SUFFICES ASSUME Shape, Waits, Latched, [Next]_vars PROVE Latched'
  OBVIOUS
<1>0. Shape' /\ wait' \in 0..ToggleDelay
  BY ShapeStep DEF Shape, TypeOK
<1>a. metro \in Metro
  BY DEF Shape, TypeOK
<1>1. CASE ChangeModes
  <2>1. Onward
    BY <1>0, <1>1, StagesGoOn
  <2> QED
    BY <1>1, <2>1, LatchedOn DEF ChangeModes, Press, output
<1>2. CASE ForceBang
  <2>1. Onward /\ UNCHANGED <<unit, latch, failed>>
    BY <1>0, <1>2, StagesGoOn DEF ForceBang, Press
  <2>2. metro' = metro \/ metro'.beat = 0
    BY <1>a, <1>2, ComputeBeat DEF ForceBang
  <2>3. unit # "METRO" \/ fresh' = fresh
    BY <1>2 DEF ForceBang, Compute, Shape, TypeOK
  <2>4. CASE unit # "METRO"
    BY <2>1, <2>4 DEF Latched
  <2> QED
    BY <2>1, <2>2, <2>3, <2>4, LatchedOn
<1>3. CASE Learn
  <2>1. Onward /\ UNCHANGED <<unit, metro, fresh, failed>>
    BY <1>0, <1>3, StagesGoOn DEF Learn, Press, logic
  <2>2. CASE unit = "RANGE"
    BY <2>1, <2>2 DEF Latched
  <2>3. CASE unit # "RANGE"
    <3>1. latch' = latch
      BY <1>3, <2>3 DEF Learn
    <3> QED
      BY <2>1, <3>1, LatchedOn
  <2> QED
    BY <2>2, <2>3
<1>4. CASE LookLearnt \/ Pace \/ WriteByte
  <2>1. UNCHANGED <<unit, stage, wait, gap, fresh, latch, failed>>
    BY <1>4 DEF LookLearnt, Pace, WriteByte, output, history
  <2>2. metro' = metro \/ metro'.beat = 0
    <3>1. inbox[2].data \in Int
      BY InboxType
    <3> QED
      BY <1>4, <1>a, <3>1, PacedType DEF LookLearnt, Pace, WriteByte, logic
  <2>3. Lasting' = Lasting /\ Lasting \in Nat
    BY <2>1, PassLasts DEF Lasting, Delays
  <2>4. latch \in Nat /\ Latch \in Nat
    BY Amounts
  <2>5. CASE metro' = metro
    BY <2>1, <2>3, <2>5 DEF Latched
  <2>6. CASE metro'.beat = 0 /\ metro' # metro
    <3>1. metro'.on = metro.on
      <4>1. inbox[2].data \in Int
        BY InboxType
      <4> QED
        BY <1>4, <1>a, <2>6, <4>1, PacedType DEF LookLearnt, Pace, WriteByte, logic
    <3> QED
      BY <2>1, <2>3, <2>4, <2>6, <3>1 DEF Latched
  <2> QED
    BY <2>2, <2>5, <2>6
<1>5. CASE Receive
  <2>1. Onward
    BY <1>0, <1>5, StagesGoOn
  <2> QED
    BY <1>5, <2>1, LatchedOn DEF Receive, logic, output, history
<1>6. CASE Look
  <2>1. Onward /\ UNCHANGED <<unit, latch, fresh, failed>>
    BY <1>0, <1>6, StagesGoOn DEF Look, output
  <2>2. metro' = metro \/ metro'.beat = 0
    BY <1>a, <1>6 DEF Look, Switched, Metro
  <2> QED
    BY <2>1, <2>2, LatchedOn
<1>7. CASE Think
  <2> DEFINE m == IF BeatDue THEN [metro EXCEPT !.beat = 0] ELSE metro
  <2>1. Onward /\ UNCHANGED <<unit, latch>>
    BY <1>0, <1>7, StagesGoOn DEF Think
  <2>2. m \in Metro /\ (BeatDue => m.beat = 0) /\ (~BeatDue => m = metro)
    BY <1>a DEF Metro
  <2>3. metro' = m \/ metro'.beat = 0
    <3> HIDE DEF m
    <3>1. ASSUME NEW d, NEW told, Compute(m, d, told)
          PROVE  metro' = m \/ metro'.beat = 0
      BY <2>2, <3>1, ComputeBeat
    <3> QED
      BY <1>7, <3>1 DEF Think, m
  <2>4. ~BeatDue => failed' = failed /\ (unit # "METRO" \/ fresh' = fresh)
    BY <1>7 DEF Think, Compute, Shape, TypeOK
  <2> HIDE DEF m
  <2>5. CASE unit # "METRO"
    BY <2>1, <2>5 DEF Latched
  <2> QED
    BY <2>1, <2>2, <2>3, <2>4, <2>5, LatchedOn
<1>8. CASE Finish
  <2>1. /\ stage = "thought" /\ stage' = "start" /\ wait' = 0 /\ gap' = 0
        /\ UNCHANGED <<unit, metro>>
    BY <1>8 DEF Finish, logic
  <2>2. Lasting' = 0
    BY <2>1, StartTime
  <2>3. CASE latch <= Latch /\ UNCHANGED <<fresh, latch, failed>>
    BY <2>1, <2>2, <2>3, Amounts DEF Latched
  <2>4. CASE fresh' = FALSE
    BY <2>4 DEF Latched
  <2>5. CASE failed' = (unit = "METRO")
    BY <2>1, <2>5 DEF Latched
  <2> QED
    BY <1>8, <2>3, <2>4, <2>5 DEF Finish, Send
<1>9. CASE Advance
  <2>1. UNCHANGED <<unit, stage, fresh, failed>>
    BY <1>9 DEF Advance, history
  <2>2. Lasting' = Lasting + 1 /\ Lasting \in Nat
    BY <1>9, AdvanceTime, PassLasts
  <2>3. metro'.on = metro.on /\ metro'.beat \in Nat /\ metro'.beat <= metro.beat + 1
    <3>1. Minute + Longest \in Nat
      BY Amounts
    <3>2. /\ Aged(metro.beat, Minute + Longest) \in Nat
          /\ Aged(metro.beat, Minute + Longest) <= metro.beat + 1
      BY <3>1, AgedType, Amounts
    <3> QED
      BY <1>9, <1>a, <3>2, Amounts DEF Advance, Metro
  <2>4. latch' <= Latch => latch <= Latch /\ latch' = latch + 1
    BY <1>9, Amounts DEF Advance, Aged
  <2> QED
    BY <2>1, <2>2, <2>3, <2>4, Amounts DEF Latched
<1>10. CASE Move
  <2>1. UNCHANGED <<unit, stage, wait, gap, metro, fresh, latch, failed>>
    BY <1>10 DEF Move, logic, output
  <2> QED
    BY <2>1 DEF Latched, Lasting, Delays
<1>11. CASE Restart
  BY <1>11 DEF Restart, Latched
<1>12. CASE UNCHANGED vars
  <2>1. UNCHANGED <<unit, stage, wait, gap, metro, fresh, latch, failed>>
    BY <1>12 DEF vars, logic, output, history
  <2> QED
    BY <2>1 DEF Latched, Lasting, Delays
<1> QED
  BY <1>1, <1>2, <1>3, <1>4, <1>5, <1>6, <1>7, <1>8, <1>9, <1>10, <1>11, <1>12 DEF Next

\* A beat that finds the last one in the outlet comes after a send that failed, or
\* faster than the latch opens.
LEMMA SentStep ==
  ASSUME Shape, Waits, Latched, Think, BeatDue, fresh
  PROVE  failed \/ Period(metro.bpm) <= Latch + Longest
<1> SUFFICES ASSUME ~failed PROVE Period(metro.bpm) <= Latch + Longest
  BY DEF Shape, TypeOK
<1>1. metro.beat <= Latch + Lasting
  BY DEF Latched, Think, BeatDue
<1>2. metro.bpm \in Nat /\ metro.bpm > 0 /\ metro.beat > Period(metro.bpm)
  BY Sizes DEF BeatDue, Shape, TypeOK, Metro, Words
<1>3. Period(metro.bpm) \in Nat
  BY <1>2, PeriodType
<1> QED
  BY <1>1, <1>2, <1>3, PassLasts, Amounts

-----------------------------------------------------------------------------
(* The light of the metronome.                                             *)

\* A sensor that has not looked yet believes nothing; an event is a belief.
Believes ==
  /\ sensor.first => ~sensor.state
  /\ sensor.event => sensor.state /\ sensor.raw

\* Between two passes nothing is left for compute() that the modes let through.
Settled ==
  stage \in {"start", "thought"} =>
    /\ "first" \in modes => 1 \notin New
    /\ "any" \in modes \/ "periodic" \in modes => New = {}

\* Nothing in the rest of this pass makes the packets call compute().
Deaf ==
  /\ modes \cap {"first", "any", "periodic"} = {}
  /\ New # Inlets
  /\ stage = "commanded" => New = {}

\* The data of the light against the metronome.
Dark   == light.data = "none" /\ ~metro.on
Shown  == light.data = "true" /\ metro.on

\* The last pass put off the look at the timer of the light.
OncePutOff ==
  /\ stage = "start" => Dark
  /\ stage \in {"commanded", "received"} => Dark \/ (Shown /\ Deaf)
  /\ stage = "seen" => Dark \/ (Shown /\ Deaf) \/ sensor.event
  /\ stage = "thought" /\ light.data = "false" => sensor.state /\ sensor.raw

\* The last two passes did.
TwicePutOff ==
  /\ stage = "start" => Dark /\ sensor.state /\ sensor.raw
  /\ stage \in {"commanded", "received"} =>
       (Dark \/ (Shown /\ Deaf)) /\ sensor.state /\ (todo \in Learning => sensor.raw)
  /\ stage = "seen" => (Dark \/ (Shown /\ Deaf)) /\ ~sensor.event
  /\ stage = "thought" => light.data # "false"

\* A light whose timer was due is on because the metronome was switched off in the
\* pass: once more by its switch, which must be released before it counts again.
Lit ==
  unit = "METRO" /\ light.on =>
    /\ light.data = "false" => ~metro.on
    /\ stage = "start" => light.data = "none"
    /\ \/ light.age <= Pulse + Lasting
       \/ light.age <= Pulse + Longest + Lasting /\ OncePutOff
       \/ light.age <= Pulse + 2 * Longest + Lasting /\ TwicePutOff

\* A sensor that believes a pressed switch tells no event at the next look.
LEMMA BelievedLook ==
  ASSUME NEW s \in Sensor, NEW raw \in BOOLEAN, ~s.first, s.state
  PROVE  /\ ~Debounced(s, raw).event
         /\ s.raw => Debounced(s, raw).state
BY DEF Debounced, Sensor

\* What compute() of the metronome shows.
LEMMA ComputeLight ==
  ASSUME Shape, NEW m \in Metro, NEW d, NEW told, Compute(m, d, told), unit = "METRO"
  PROVE  /\ light'.on = light.on /\ light'.age = light.age
         /\ New' = {}
         /\ 1 \notin New => metro'.on = m.on /\ light'.data = d
         /\ 1 \in New => /\ metro'.on = ~m.on
                         /\ light'.data = IF metro'.on THEN "true" ELSE "false"
<1> DEFINE toggled == unit = "METRO" /\ 1 \in New
<1>1. metro' = IF toggled THEN Switched(m, ~m.on) ELSE m
  BY DEF Compute
<1>2. light' = [light EXCEPT !.data =
           IF toggled THEN (IF metro'.on THEN "true" ELSE "false") ELSE d]
  BY DEF Compute
<1>3. metro'.on = IF toggled THEN ~m.on ELSE m.on
  BY <1>1 DEF Switched, Metro
<1>5. New' = {}
  <2>1. \A i \in Inlets : ~Used[i].new
    BY DEF Used, Shape, TypeOK, Item
  <2> QED
    BY <2>1 DEF Compute, New
<1>6. toggled <=> 1 \in New
  OBVIOUS
<1> HIDE DEF toggled
<1>8. /\ light'.on = light.on /\ light'.age = light.age
      /\ light'.data = IF toggled THEN (IF metro'.on THEN "true" ELSE "false") ELSE d
  BY <1>2 DEF Shape, TypeOK, Light
<1> QED
  BY <1>3, <1>5, <1>6, <1>8

\* Every step keeps what the sensor believes.
LEMMA BelievesStep == Shape /\ Believes /\ [Next]_vars => Believes'
<1> SUFFICES ASSUME Shape, Believes, [Next]_vars PROVE Believes'
  OBVIOUS
<1>0. sensor \in Sensor
  BY DEF Shape, TypeOK
<1>1. ASSUME NEW s \in Sensor, NEW raw \in BOOLEAN, sensor' = Debounced(s, raw)
      PROVE  Believes'
  BY <1>1, EventLook DEF Debounced, Believes
<1>2. UNCHANGED sensor => Believes'
  BY DEF Believes
<1>3. Raw(reading, conditions) \in BOOLEAN
  BY ReadingType
<1>4. CASE Learn
  <2>1. sensor' \in {sensor, [sensor EXCEPT !.age = Debounce + 1]}
    BY <1>4 DEF Learn
  <2> QED
    BY <1>0, <2>1 DEF Sensor, Believes
<1>5. CASE Look \/ LookLearnt
  BY <1>0, <1>1, <1>2, <1>3, <1>5 DEF Look, LookLearnt
<1>6. CASE Advance
  BY <1>0, <1>6 DEF Advance, Sensor, Believes
<1>7. CASE Restart
  BY <1>7 DEF Restart, NewSensor, Believes
<1>8. CASE \/ ChangeModes \/ ForceBang \/ Pace \/ WriteByte \/ Receive \/ Think \/ Finish \/ Move
         \/ UNCHANGED vars
  BY <1>2, <1>8
  DEF ChangeModes, ForceBang, Pace, WriteByte, Receive, Think, Finish, Move, vars
<1> QED
  BY <1>4, <1>5, <1>6, <1>7, <1>8 DEF Next

\* Every pass leaves nothing behind that its modes let through.
LEMMA SettledStep == Shape /\ Settled /\ [Next]_vars => Settled'
<1> SUFFICES ASSUME Shape, Settled, [Next]_vars PROVE Settled'
  OBVIOUS
<1>1. UNCHANGED <<stage, modes, inbox>> => Settled'
  BY DEF Settled, New
<1>2. CASE ChangeModes \/ ForceBang \/ Learn \/ Receive \/ Look
  BY <1>2 DEF ChangeModes, ForceBang, Learn, Press, Receive, Look, Settled
<1>3. CASE Think
  <2>1. modes' = modes
    BY <1>3 DEF Think
  <2>2. CASE Bang /\ inbox' = Used
    <3>1. New' = {}
      BY <2>2 DEF New, Used, Shape, TypeOK, Item
    <3> QED
      BY <2>1, <3>1 DEF Settled
  <2>3. CASE ~Bang /\ inbox' = inbox
    BY <2>1, <2>3 DEF Bang, Settled, New
  <2> QED
    BY <1>3, <2>2, <2>3 DEF Think, Compute
<1>4. CASE Finish
  BY <1>4 DEF Finish, logic, Settled, New
<1>5. CASE LookLearnt \/ Pace \/ WriteByte \/ Advance \/ Move \/ UNCHANGED vars
  BY <1>1, <1>5 DEF LookLearnt, Pace, WriteByte, Advance, Move, vars, logic
<1>6. CASE Restart
  BY <1>6 DEF Restart, Settled, New
<1> QED
  BY <1>2, <1>3, <1>4, <1>5, <1>6 DEF Next

\* A step within a pass only changes the data of the light.
LEMMA LitOn ==
  ASSUME Shape, Waits, Lit, Onward, unit' = unit,
         unit = "METRO" => light'.on = light.on /\ light'.age = light.age,
         unit = "METRO" /\ light.on =>
           /\ light'.data = "false" => ~metro'.on
           /\ OncePutOff => OncePutOff'
           /\ TwicePutOff => TwicePutOff'
  PROVE  Lit'
<1> SUFFICES ASSUME unit' = "METRO", light'.on
             PROVE  /\ light'.data = "false" => ~metro'.on
                    /\ stage' = "start" => light'.data = "none"
                    /\ \/ light'.age <= Pulse + Lasting'
                       \/ light'.age <= Pulse + Longest + Lasting' /\ OncePutOff'
                       \/ light'.age <= Pulse + 2 * Longest + Lasting' /\ TwicePutOff'
  BY DEF Lit
<1>1. Lasting' \in Nat /\ Lasting <= Lasting' /\ Lasting \in Nat
  BY OnwardTime, PassLasts
<1>2. stage' # "start"
  BY DEF Onward
<1>3. light'.age \in Nat /\ light'.age = light.age
  BY Amounts
<1>4. CASE light.age <= Pulse + Lasting
  <2>1. light'.age <= Pulse + Lasting'
    BY <1>1, <1>3, <1>4, Amounts
  <2> QED
    BY <1>2, <2>1
<1>5. CASE light.age <= Pulse + Longest + Lasting /\ OncePutOff
  <2>1. light'.age <= Pulse + Longest + Lasting'
    BY <1>1, <1>3, <1>5, Amounts
  <2> QED
    BY <1>2, <1>5, <2>1
<1>6. CASE light.age <= Pulse + 2 * Longest + Lasting /\ TwicePutOff
  <2>1. light'.age <= Pulse + 2 * Longest + Lasting'
    BY <1>1, <1>3, <1>6, Amounts
  <2> QED
    BY <1>2, <1>6, <2>1
<1> QED
  BY <1>4, <1>5, <1>6 DEF Lit

\* A step that touches neither the light, nor what is looked at before it.
LEMMA LitStays ==
  ASSUME Lit, UNCHANGED <<unit, stage, wait, gap, modes, inbox, sensor, light>>,
         metro'.on = metro.on, todo' \in Learning => todo \in Learning
  PROVE  Lit'
<1>1. /\ Dark' <=> Dark
      /\ Shown' <=> Shown
      /\ Deaf' <=> Deaf
  BY DEF Dark, Shown, Deaf, New
<1>2. /\ OncePutOff => OncePutOff'
      /\ TwicePutOff => TwicePutOff'
  BY <1>1 DEF OncePutOff, TwicePutOff
<1> QED
  BY <1>2 DEF Lit, Lasting, Delays

\* Every step keeps the light in its bounds: a look at the timer can be put off by
\* switching the metronome off in the same pass, but only twice in a row.
LEMMA LitStep ==
  Shape /\ Waits /\ Believes /\ Settled /\ Lit /\ [Next]_vars => Lit'
<1> SUFFICES ASSUME Shape, Waits, Believes, Settled, Lit, [Next]_vars PROVE Lit'
  OBVIOUS
<1>0. Shape' /\ wait' \in 0..ToggleDelay
  BY ShapeStep DEF Shape, TypeOK
<1>a. metro \in Metro /\ light \in Light /\ sensor \in Sensor
  BY DEF Shape, TypeOK
<1>b. Raw(reading, conditions) \in BOOLEAN
  BY ReadingType
\* Where another unit is none of it.
<1>c. unit' # "METRO" => Lit'
  BY DEF Lit
<1>1. CASE ChangeModes
  <2>1. Onward /\ stage = "start" /\ stage' = "commanded" /\ todo' \notin Learning
        /\ UNCHANGED <<unit, light, metro, sensor>>
    BY <1>0, <1>1, StagesGoOn DEF ChangeModes, Press, Learning
  <2>2. /\ Dark /\ OncePutOff => OncePutOff'
        /\ Dark /\ TwicePutOff => TwicePutOff'
    BY <2>1 DEF OncePutOff, TwicePutOff, Dark
  <2>3. /\ OncePutOff => OncePutOff'
        /\ TwicePutOff => TwicePutOff'
    BY <2>1, <2>2 DEF OncePutOff, TwicePutOff
  <2>4. unit = "METRO" /\ light.on => (light'.data = "false" => ~metro'.on)
    BY <2>1 DEF Lit
  <2> QED
    BY <2>1, <2>3, <2>4, LitOn
<1>2. CASE ForceBang
  <2>1. Onward /\ stage = "start" /\ stage' = "commanded" /\ todo' \notin Learning
        /\ UNCHANGED <<unit, modes, sensor>>
    BY <1>0, <1>2, StagesGoOn DEF ForceBang, Press, Compute, Learning
  <2> SUFFICES ASSUME unit = "METRO" PROVE Lit'
    BY <1>c, <2>1
  <2>2. /\ light'.on = light.on /\ light'.age = light.age
        /\ New' = {}
        /\ 1 \notin New => metro'.on = metro.on /\ light'.data = light.data
        /\ 1 \in New => /\ metro'.on = ~metro.on
                        /\ light'.data = IF metro'.on THEN "true" ELSE "false"
    BY <1>a, <1>2, ComputeLight DEF ForceBang
  <2>3. ASSUME Dark PROVE Dark' \/ (Shown' /\ Deaf')
    <3>1. CASE 1 \notin New
      BY <2>2, <2>3, <3>1 DEF Dark
    <3>2. CASE 1 \in New
      <4>1. modes \cap {"first", "any", "periodic"} = {}
        BY <2>1, <3>2 DEF Settled
      <4>2. Inlets # {}
        BY DEF Inlets
      <4>3. Deaf'
        BY <2>1, <2>2, <4>1, <4>2 DEF Deaf
      <4> QED
        BY <1>a, <2>2, <2>3, <3>2, <4>3 DEF Dark, Shown, Metro
    <3> QED
      BY <3>1, <3>2
  <2>4. /\ OncePutOff => OncePutOff'
        /\ TwicePutOff => TwicePutOff'
    BY <2>1, <2>3 DEF OncePutOff, TwicePutOff
  <2>5. light.on => (light'.data = "false" => ~metro'.on)
    BY <1>a, <2>2 DEF Lit, Metro
  <2> QED
    BY <2>1, <2>2, <2>4, <2>5, LitOn
<1>3. CASE Learn
  <2>1. Onward /\ stage = "start" /\ stage' = "commanded" /\ UNCHANGED <<unit, metro>>
    BY <1>0, <1>3, StagesGoOn DEF Learn, Press, logic
  <2> SUFFICES ASSUME unit = "METRO" PROVE Lit'
    BY <1>c, <2>1
  <2>2. light' = light /\ sensor' = sensor
    BY <1>3 DEF Learn
  <2>3. Dark => Dark'
    BY <2>1, <2>2 DEF Dark
  <2>4. /\ OncePutOff => OncePutOff'
        /\ TwicePutOff => TwicePutOff'
    BY <2>1, <2>2, <2>3 DEF OncePutOff, TwicePutOff
  <2>5. light.on => (light'.data = "false" => ~metro'.on)
    BY <2>1, <2>2 DEF Lit
  <2> QED
    BY <2>1, <2>2, <2>4, <2>5, LitOn
<1>4. CASE LookLearnt
  <2>1. /\ todo \in Learning /\ todo' \notin Learning /\ stage = "commanded"
        /\ UNCHANGED <<unit, stage, wait, gap, modes, metro, inbox, light>>
    BY <1>4, FollowingIs DEF LookLearnt, logic, Learning, Waits
  <2>2. sensor' = Debounced(sensor, Raw(reading, conditions))
    BY <1>4 DEF LookLearnt
  <2>3. sensor.state /\ sensor.raw => sensor'.state
    BY <1>a, <1>b, <2>2, BelievedLook DEF Believes
  <2>4. /\ Dark' <=> Dark
        /\ Shown' <=> Shown
        /\ Deaf' <=> Deaf
    BY <2>1 DEF Dark, Shown, Deaf, New
  <2>5. /\ OncePutOff => OncePutOff'
        /\ TwicePutOff => TwicePutOff'
    BY <2>1, <2>3, <2>4 DEF OncePutOff, TwicePutOff
  <2> QED
    BY <2>1, <2>5 DEF Lit, Lasting, Delays
<1>5. CASE Pace \/ WriteByte
  <2>1. /\ UNCHANGED <<unit, stage, wait, gap, modes, inbox, sensor, light>>
        /\ metro'.on = metro.on
        /\ todo' \in Learning => todo \in Learning
    <3>1. inbox[2].data \in Int
      BY InboxType
    <3> QED
      BY <1>5, <1>a, <3>1, PacedType, LearningStep DEF Pace, WriteByte, logic
  <2> QED
    BY <2>1, LitStays
<1>6. CASE Receive
  <2>1. Onward /\ stage \in {"start", "commanded"} /\ stage' = "received"
        /\ UNCHANGED <<unit, light, metro, modes, sensor, todo>>
    BY <1>0, <1>6, StagesGoOn DEF Receive, logic, record
  <2>2. Dark => Dark'
    BY <2>1 DEF Dark
  <2>3. ASSUME stage = "commanded", Shown, Deaf PROVE Shown' /\ Deaf'
    <3>1. PICK i \in Fed[unit] : \E n \in Numbers \cup {0} :
            inbox' = [inbox EXCEPT ![i] = [data |-> n, new |-> TRUE]]
      BY <1>6 DEF Receive
    <3>2. New = {}
      BY <2>3 DEF Deaf
    <3>3. New' \subseteq {i}
      BY <3>1, <3>2 DEF New, Shape, TypeOK
    <3>4. New' # Inlets
      BY <3>3 DEF Inlets
    <3> QED
      BY <2>1, <2>3, <3>4 DEF Shown, Deaf
  <2>4. /\ OncePutOff => OncePutOff'
        /\ TwicePutOff => TwicePutOff'
    BY <2>1, <2>2, <2>3 DEF OncePutOff, TwicePutOff
  <2>5. unit = "METRO" /\ light.on => (light'.data = "false" => ~metro'.on)
    BY <2>1 DEF Lit
  <2> QED
    BY <2>1, <2>4, <2>5, LitOn
<1>7. CASE Look
  <2>1. Onward /\ stage \in {"start", "commanded", "received"} /\ stage' = "seen"
        /\ UNCHANGED <<unit, modes, inbox>>
    BY <1>0, <1>7, StagesGoOn DEF Look
  <2> SUFFICES ASSUME unit = "METRO" PROVE Lit'
    BY <1>c, <2>1
  <2>2. /\ sensor' = Debounced(sensor, Raw(reading, conditions))
        /\ metro' = IF sensor'.event THEN Switched(metro, ~metro.on) ELSE metro
        /\ light' = [light EXCEPT !.data =
             IF sensor'.event THEN (IF metro'.on THEN "true" ELSE "false") ELSE @]
    BY <1>7 DEF Look
  <2>3. light'.on = light.on /\ light'.age = light.age
    BY <1>a, <2>2 DEF Light
  <2>4. sensor'.event \in BOOLEAN
    BY <1>0 DEF Shape, TypeOK, Sensor
  <2>5. ~sensor'.event => metro' = metro /\ light' = light
    BY <1>a, <2>2 DEF Light
  <2>6. ASSUME ~sensor'.event, Dark \/ (Shown /\ Deaf) PROVE Dark' \/ (Shown' /\ Deaf')
    <3>1. New' = New
      BY <2>1 DEF New
    <3> QED
      BY <2>1, <2>5, <2>6, <3>1 DEF Dark, Shown, Deaf
  <2>7. sensor.state => ~sensor'.event
    BY <1>a, <1>b, <2>2, BelievedLook DEF Believes
  <2>8. OncePutOff => OncePutOff'
    <3>1. OncePutOff => Dark \/ (Shown /\ Deaf)
      BY <2>1 DEF OncePutOff
    <3> QED
      BY <2>1, <2>6, <3>1 DEF OncePutOff
  <2>9. TwicePutOff => TwicePutOff'
    <3>1. TwicePutOff => (Dark \/ (Shown /\ Deaf)) /\ sensor.state
      BY <2>1 DEF TwicePutOff
    <3> QED
      BY <2>1, <2>6, <2>7, <3>1 DEF TwicePutOff
  <2>10. light.on => (light'.data = "false" => ~metro'.on)
    <3>1. CASE sensor'.event
      BY <1>a, <2>2, <3>1 DEF Switched, Metro, Light
    <3>2. CASE ~sensor'.event
      BY <2>5, <3>2 DEF Lit
    <3> QED
      BY <3>1, <3>2
  <2> QED
    BY <2>1, <2>3, <2>8, <2>9, <2>10, LitOn
<1>8. CASE Think
  <2> DEFINE m == IF BeatDue THEN [metro EXCEPT !.beat = 0] ELSE metro
             d == IF BeatDue THEN "true" ELSE light.data
  <2>1. Onward /\ stage = "seen" /\ stage' = "thought" /\ UNCHANGED <<unit, modes, sensor>>
    BY <1>0, <1>8, StagesGoOn DEF Think
  <2> SUFFICES ASSUME unit = "METRO" PROVE Lit'
    BY <1>c, <2>1
  <2>2. m \in Metro /\ m.on = metro.on
    BY <1>a DEF Metro
  <2>3. ~metro.on => d = light.data
    BY DEF BeatDue
  <2>4. d = "false" => light.data = "false" /\ ~BeatDue
    OBVIOUS
  <2>5. /\ light'.on = light.on /\ light'.age = light.age
        /\ ~Bang \/ 1 \notin New => metro'.on = metro.on /\ light'.data = d
        /\ Bang /\ 1 \in New => /\ metro'.on = ~metro.on
                                /\ light'.data = IF metro'.on THEN "true" ELSE "false"
    <3>1. CASE Bang /\ Compute(m, d, BeatDue)
      <4> HIDE DEF m, d
      <4>1. /\ light'.on = light.on /\ light'.age = light.age
            /\ 1 \notin New => metro'.on = m.on /\ light'.data = d
            /\ 1 \in New => /\ metro'.on = ~m.on
                            /\ light'.data = IF metro'.on THEN "true" ELSE "false"
        BY <2>2, <3>1, ComputeLight
      <4> QED
        BY <2>2, <3>1, <4>1
    <3>2. CASE ~Bang /\ metro' = m /\ light' = [light EXCEPT !.data = d]
      <4> HIDE DEF m, d
      <4> QED
        BY <1>a, <2>2, <3>2 DEF Light
    <3> QED
      BY <1>8, <3>1, <3>2 DEF Think
  <2> HIDE DEF m, d
  <2>6. Bang \in BOOLEAN
    BY DEF Bang
  <2>7. ASSUME Dark \/ (Shown /\ Deaf), ~sensor.event PROVE light'.data # "false"
    <3>1. CASE Dark
      BY <1>a, <2>3, <2>5, <2>6, <3>1 DEF Dark, Metro
    <3>2. CASE Shown /\ Deaf
      <4>1. ~Bang
        BY <2>7, <3>2 DEF Bang, Deaf
      <4> QED
        BY <2>4, <2>5, <3>2, <4>1 DEF Shown
    <3> QED
      BY <2>7, <3>1, <3>2
  <2>8. OncePutOff => OncePutOff'
    BY <2>1, <2>7 DEF OncePutOff, Believes
  <2>9. TwicePutOff => TwicePutOff'
    BY <2>1, <2>7 DEF TwicePutOff
  <2>10. light.on => (light'.data = "false" => ~metro'.on)
    BY <1>a, <2>4, <2>5, <2>6 DEF Lit, Metro
  <2> QED
    BY <2>1, <2>5, <2>8, <2>9, <2>10, LitOn
<1>9. CASE Finish
  <2>1. /\ stage = "thought" /\ stage' = "start" /\ wait' = 0 /\ gap' = 0
        /\ light' = Pulsed(light) /\ UNCHANGED <<unit, metro, sensor>>
    BY <1>9 DEF Finish, logic
  <2>2. Lasting' = 0 /\ Lasting \in Nat /\ Lasting <= Longest
    BY <2>1, StartTime, PassLasts
  <2> SUFFICES ASSUME unit = "METRO", light'.on PROVE Lit'
    BY <2>1 DEF Lit
  <2>3. light.data \in {"none", "false", "true"}
    BY <1>a DEF Light
  <2>4. CASE light.data = "true"
    <3>1. light'.age = 0 /\ light'.data = "none"
      BY <2>1, <2>4 DEF Pulsed
    <3> QED
      BY <2>2, <3>1, Amounts DEF Lit
  <2>5. CASE light.data = "none"
    <3>1. light' = light /\ light.age <= Pulse
      BY <1>a, <2>1, <2>5, Amounts DEF Pulsed, Light
    <3> QED
      BY <2>2, <2>5, <3>1, Amounts DEF Lit
  <2>6. CASE light.data = "false"
    <3>1. light'.on = light.on /\ light'.age = light.age /\ light'.data = "none"
      BY <1>a, <2>1, <2>6 DEF Pulsed, Light
    <3>2. Dark'
      BY <2>1, <2>6, <3>1 DEF Lit, Dark
    <3>3. CASE light.age <= Pulse + Lasting
      <4>1. light'.age <= Pulse + Longest + Lasting'
        BY <2>2, <3>1, <3>3, Amounts
      <4>2. OncePutOff'
        BY <2>1, <3>2 DEF OncePutOff
      <4> QED
        BY <2>1, <3>1, <4>1, <4>2 DEF Lit
    <3>4. CASE light.age <= Pulse + Longest + Lasting /\ OncePutOff
      <4>1. light'.age <= Pulse + 2 * Longest + Lasting'
        BY <2>2, <3>1, <3>4, Amounts
      <4>2. TwicePutOff'
        BY <2>1, <2>6, <3>2, <3>4 DEF OncePutOff, TwicePutOff
      <4> QED
        BY <2>1, <3>1, <4>1, <4>2 DEF Lit
    <3>5. ~(light.age <= Pulse + 2 * Longest + Lasting /\ TwicePutOff)
      BY <2>1, <2>6 DEF TwicePutOff
    <3> QED
      BY <3>1, <3>3, <3>4, <3>5 DEF Lit
  <2> QED
    BY <2>3, <2>4, <2>5, <2>6
<1>10. CASE Advance
  <2>1. UNCHANGED <<unit, stage, modes, inbox, todo>>
    BY <1>10 DEF Advance, record
  <2> SUFFICES ASSUME unit = "METRO", light'.on PROVE Lit'
    BY <2>1 DEF Lit
  <2>2. Lasting' = Lasting + 1 /\ Lasting \in Nat
    BY <1>10, AdvanceTime, PassLasts
  <2>3. /\ light'.on = light.on /\ light'.data = light.data
        /\ light'.age \in Nat /\ light'.age <= light.age + 1
    <3>1. Pulse + 3 * Longest \in Nat
      BY Amounts
    <3>2. /\ Aged(light.age, Pulse + 3 * Longest) \in Nat
          /\ Aged(light.age, Pulse + 3 * Longest) <= light.age + 1
      BY <3>1, AgedType, Amounts
    <3> QED
      BY <1>10, <1>a, <3>2, Amounts DEF Advance, Light
  <2>4. metro'.on = metro.on
    BY <1>10, <1>a DEF Advance, Metro
  <2>5. sensor'.state = sensor.state /\ sensor'.raw = sensor.raw /\ sensor'.event = sensor.event
    BY <1>10, <1>a DEF Advance, Sensor
  <2>6. New' = New
    BY <2>1 DEF New
  <2>7. /\ Dark' <=> Dark
        /\ Shown' <=> Shown
        /\ Deaf' <=> Deaf
    BY <2>1, <2>3, <2>4, <2>6 DEF Dark, Shown, Deaf
  <2>8. /\ OncePutOff => OncePutOff'
        /\ TwicePutOff => TwicePutOff'
    BY <2>1, <2>3, <2>5, <2>7 DEF OncePutOff, TwicePutOff
  <2>9. /\ light.age <= Pulse + Lasting => light'.age <= Pulse + Lasting'
        /\ light.age <= Pulse + Longest + Lasting => light'.age <= Pulse + Longest + Lasting'
        /\ light.age <= Pulse + 2 * Longest + Lasting
             => light'.age <= Pulse + 2 * Longest + Lasting'
    BY <2>2, <2>3, Amounts
  <2> QED
    BY <2>1, <2>3, <2>4, <2>8, <2>9 DEF Lit
<1>11. CASE Move \/ UNCHANGED vars
  <2>1. UNCHANGED <<unit, stage, wait, gap, modes, metro, inbox, sensor, light, todo>>
    BY <1>11 DEF Move, vars, logic, record
  <2> QED
    BY <2>1, LitStays
<1>12. CASE Restart
  BY <1>12 DEF Restart, Lit
<1> QED
  BY <1>1, <1>2, <1>3, <1>4, <1>5, <1>6, <1>7, <1>8, <1>9, <1>10, <1>11, <1>12 DEF Next

-----------------------------------------------------------------------------
(* Theorems.                                                               *)

\* Types alone do not say that the counter, which would count on to 255, is below
\* its top; that the switch was looked at; how long ago the last beat was; what the
\* sensor, the outlet and the light were told, and how long ago.
Inv ==
  /\ Shape /\ Saved /\ Held /\ Waits /\ OnTime
  /\ Followed /\ Latched
  /\ Believes /\ Settled /\ Lit

\* The invariant from which the rest follows: it holds after the first start,
\* and every step keeps it.
THEOREM UnitInvariance == Spec => []Inv
<1>1. Init => Inv
  <2> SUFFICES ASSUME Init PROVE Inv
    OBVIOUS
  <2>1. Shape
    BY ShapeInit
  <2>2. Saved
    BY DEF Init, InUse, Saved
  <2>3. Held
    BY DEF Init, NewSensor, Held
  <2>4. Waits /\ OnTime
    BY DEF Init, Learning, Waits, OnTime
  <2>5. Followed
    <3>1. steady = 0 /\ SinceLook \in Nat
      BY <2>1, <2>4, PassLasts DEF Init
    <3> QED
      BY <2>1, <3>1, Amounts DEF Followed
  <2>6. Latched /\ Believes /\ Lit
    BY DEF Init, NewSensor, Latched, Believes, Lit
  <2>7. Settled
    BY DEF Init, New, Settled
  <2> QED
    BY <2>1, <2>2, <2>3, <2>4, <2>5, <2>6, <2>7 DEF Inv
<1>2. Inv /\ [Next]_vars => Inv'
  BY ShapeStep, SavedStep, HeldStep, WaitsStep, OnTimeStep, FollowedStep, LatchedStep,
     BelievesStep, SettledStep, LitStep
  DEF Inv
<1> QED
  BY <1>1, <1>2, PTL DEF Spec

\* Every variable keeps its shape, whatever the packets, the keys and the power
\* do: the beats per minute stay a word for any number that is received and any cut.
THEOREM UnitTypes == Spec => []TypeOK
<1>1. Inv => TypeOK
  BY DEF Inv, Shape
<1> QED
  BY <1>1, UnitInvariance, PTL

\* The counter is never past its top, for any top that is received.
THEOREM CounterTurnsOver == Spec => []CountStaysBelowTop
<1>1. Inv => CountStaysBelowTop
  BY DEF Inv, Shape
<1> QED
  BY <1>1, UnitInvariance, PTL

\* The metronome misses no beat, for any period, latch, delay and packets.
THEOREM BeatsAreOnTime == Spec => []BeatsKeepTime
<1>1. Inv => BeatsKeepTime
  <2> SUFFICES ASSUME Inv, unit = "METRO", metro.on, metro.bpm > 0
               PROVE  \/ metro.beat <= Period(metro.bpm) + MaxGap + ToggleDelay
                      \/ metro.beat <= MaxGap + 2 * ToggleDelay
    BY DEF BeatsKeepTime
  <2>1. metro.beat \in Nat /\ metro.bpm \in Nat /\ wait \in 0..ToggleDelay /\ gap \in 0..MaxGap
    BY Sizes DEF Inv, Shape, TypeOK, Metro, Words
  <2>2. Period(metro.bpm) \in Nat /\ MaxGap \in Nat /\ ToggleDelay \in Nat
    BY <2>1, PeriodType, TimeAssumption
  <2>3. CASE stage = "start"
    BY <2>1, <2>2, <2>3 DEF Inv, OnTime
  <2>4. CASE stage \in {"commanded", "received", "seen"}
    BY <2>1, <2>2, <2>4 DEF Inv, OnTime
  <2>5. CASE stage = "thought"
    BY <2>1, <2>2, <2>5 DEF Inv, OnTime
  <2> QED
    BY <2>3, <2>4, <2>5 DEF Inv, Shape, TypeOK
<1> QED
  BY <1>1, UnitInvariance, PTL

\* A power cut between any two writes loses nothing but what is just being saved, and
\* leaves a word of it with the bytes of the old one and the new one.
THEOREM SettingsSurvive == Spec => RestartKeepsSettings
<1>1. Inv /\ [Next]_vars =>
        [Restart =>
           /\ modes' \in {modes, kept.modes} /\ metro'.on \in {metro.on, kept.on}
           /\ metro'.bpm \in Torn(metro.bpm, kept.bpm)
           /\ conditions'.value \in Torn(conditions.value, kept.conditions.value)
           /\ conditions'.tolerance \in Torn(conditions.tolerance, kept.conditions.tolerance)
           /\ conditions'.tolerance # kept.conditions.tolerance
                => conditions'.value = conditions.value]_vars
  BY RestartStep DEF Inv
<1> QED
  BY <1>1, UnitInvariance, PTL DEF Spec, RestartKeepsSettings

\* One press of the switch toggles the metronome once, for any debounce time, though
\* its contact comes open and closes again for as long as that.
THEOREM PressesAreSingle == Spec => PressIsNotRepeated
<1>1. Inv /\ [Next]_vars => [Look /\ unit = "METRO" /\ sensor'.event => released]_vars
  BY PressStep DEF Inv
<1> QED
  BY <1>1, UnitInvariance, PTL DEF Spec, PressIsNotRepeated

\* What the sensor reports follows what it could see, however the passes are
\* delayed: after a debounce time and two of the longest passes.
THEOREM SensorIsRight == Spec => []SensorFollows
<1>1. Inv => SensorFollows
  <2> SUFFICES ASSUME Inv, sensor.state # Raw(reading, conditions)
               PROVE  ~(steady > Debounce + 2 * Longest)
    BY DEF SensorFollows
  <2>1. Shape /\ Waits /\ steady <= Debounce + Longest + SinceLook
    BY DEF Inv, Followed
  <2> QED
    BY <2>1, Amounts, PassLasts
<1> QED
  BY <1>1, UnitInvariance, PTL

\* A beat leaves the outlet before the next one takes its place, unless a send
\* failed or the period is shorter than the latch and a pass.
THEOREM BeatsLeave == Spec => BeatsAreSent
<1>1. Inv /\ [Next]_vars =>
        [Think /\ BeatDue /\ fresh => failed \/ Period(metro.bpm) <= Latch + Longest]_vars
  BY SentStep DEF Inv
<1> QED
  BY <1>1, UnitInvariance, PTL DEF Spec, BeatsAreSent

\* The light of the metronome goes off after a pulse and three passes, in any update
\* mode and whatever the keys and the packets do.
THEOREM LightIsShort == Spec => []LightGoesOff
<1>1. Inv => LightGoesOff
  <2> SUFFICES ASSUME Inv, unit = "METRO", light.on
               PROVE  light.age <= Pulse + 3 * Longest
    BY DEF LightGoesOff
  <2>1. Shape /\ Waits /\ light.age <= Pulse + 2 * Longest + Lasting
    <3>1. Shape /\ Waits
      BY DEF Inv
    <3>2. \/ light.age <= Pulse + Lasting
          \/ light.age <= Pulse + Longest + Lasting
          \/ light.age <= Pulse + 2 * Longest + Lasting
      BY DEF Inv, Lit
    <3> QED
      BY <3>1, <3>2, Amounts, PassLasts
  <2> QED
    BY <2>1, Amounts, PassLasts
<1> QED
  BY <1>1, UnitInvariance, PTL

-----------------------------------------------------------------------------
(* What the range finder can see.                                          *)

\* A whole number between minus and plus the divisor.
LEMMA SmallRemainder ==
  ASSUME NEW n \in Nat, n > 0, NEW a \in Int, -n < a, a < n
  PROVE  a % n = IF a >= 0 THEN a ELSE a + n
BY SMTT(30)

\* Where the range does not reach the end of the 16 bits, it is the upper half of
\* the one that is meant.
LEMMA UpperHalf ==
  ASSUME NEW v \in Words, NEW c \in Conditions, c.value + c.tolerance < Word
  PROVE  InRange(v, c) <=> v \in c.value..c.value + c.tolerance
<1>2. c.value \in 0..Word - 1 /\ c.tolerance \in 0..Word - 1 /\ v \in 0..Word - 1
  BY DEF Conditions, Words
<1>3. Word \in Nat /\ Word > 0
  BY Sizes
<1>4. (v - c.value) % Word = IF v - c.value >= 0 THEN v - c.value ELSE v - c.value + Word
  BY <1>2, <1>3, SmallRemainder
<1> QED
  BY <1>2, <1>3, <1>4 DEF InRange

SeesAbove ==
  unit = "RANGE" /\ steady > Debounce + 2 * Longest
    /\ conditions.value + conditions.tolerance < Word
    => (sensor.state <=> reading \in conditions.value..conditions.value + conditions.tolerance)

\* The range finder reports the objects that stay within the tolerance above its
\* condition and no others (BaseSensor.cpp:71), while the two do not reach the end of
\* the numbers: what is left of the two sides that RangeHasTwoSides asks for.
THEOREM RangeIsOneSided == Spec => []SeesAbove
<1>1. TypeOK /\ SensorFollows => SeesAbove
  <2> SUFFICES ASSUME TypeOK, unit = "RANGE",
                      conditions.value + conditions.tolerance < Word,
                      sensor.state = Raw(reading, conditions)
               PROVE  sensor.state <=> reading \in conditions.value
                                         ..conditions.value + conditions.tolerance
    BY DEF SensorFollows, SeesAbove
  <2>1. conditions \in Conditions /\ reading \in Distances
    BY DEF TypeOK, Readings
  <2>2. reading \in Words
    BY <2>1, UnitAssumption, Zenon DEF Words
  <2>3. InRange(reading, conditions) <=>
          reading \in conditions.value..conditions.value + conditions.tolerance
    BY <2>1, <2>2, UpperHalf
  <2> QED
    BY <2>3 DEF Raw
<1> QED
  BY <1>1, UnitTypes, SensorIsRight, PTL
=============================================================================
