----------------------------- MODULE GluonUnit -----------------------------
(***************************************************************************)
(* What a gluon is for: the sensor, the logic and the light of one node,   *)
(* from the reading of the sensor to the data in the outlet (BaseSensor,   *)
(* BaseLogic, logicMetro, logicN4, logicAnalogSensor, actuatorBaseDigital, *)
(* in the order in which Node::update() calls them).                       *)
(*                                                                         *)
(* GLUON_GENERIC.ino is built for one of several units: here the range     *)
(* finder, the counter and the metronome.  Packets come from anywhere at   *)
(* any time, and a send either reaches all children or does not: DataFlow  *)
(* has the calls.  Settings change in RAM first; their record is written   *)
(* after that, byte by byte, and the power may fail in between.            *)
(*                                                                         *)
(* Times are ages, which count while the program compares them and stop    *)
(* when no comparison can tell any more.                                   *)
(***************************************************************************)
EXTENDS Integers, FiniteSets

CONSTANTS
  Units,        \* the units that are looked at
  Distances,    \* what the range finder can read
  Tolerances,   \* what it can learn about them
  Fed,          \* Fed[u]: the inlets of unit u that have links
  Numbers,      \* data that come with a packet
  Keys,         \* Keys[u]: what the remote control does to unit u
  FactoryTop,   \* where the counter turns over at first
  FactoryBpm,   \* the beats per minute of the metronome at first
  MaxBpm,       \* constrain() in setMetroBMP
  Debounce,     \* debounceTime
  Latch,        \* minPeriodLatch
  Pulse,        \* pulseDuration
  ToggleDelay,  \* delay() after a toggle
  Minute,       \* 60000 ms
  MaxGap,       \* the longest pass of loop(), delays aside
  Byte,         \* 2^8
  Word          \* 2^16

Inlets   == 1..3
AllUnits == {"RANGE", "COUNT", "METRO"}
AllModes == {"sensor", "first", "any", "synch", "periodic"}
AllKeys  == AllModes \cup {"standby", "bang", "learn"}

ASSUME UnitAssumption ==
  /\ Units \subseteq AllUnits
  /\ Distances \subseteq 0..Word - 1 /\ Distances # {}
  /\ Tolerances \subseteq 0..Word - 1 /\ Tolerances # {}
  /\ Numbers \subseteq Int
  /\ Keys \in [Units -> SUBSET AllKeys]
  /\ Fed \in [Units -> SUBSET Inlets]

ASSUME SizeAssumption ==
  /\ Byte \in Nat /\ FactoryTop \in 0..Byte - 1
  /\ Word = Byte * Byte
  /\ MaxBpm \in 0..Word - 1 /\ FactoryBpm \in 0..MaxBpm

ASSUME TimeAssumption ==
  /\ Debounce \in Nat /\ Latch \in Nat /\ Pulse \in Nat
  /\ ToggleDelay \in Nat /\ Minute \in Nat /\ MaxGap \in Nat

VARIABLES
  unit,        \* GLUON
  stage,       \* how far the pass of loop() is
  wait,        \* what is left of a delay()
  gap,         \* the time since the last pass
  reading,     \* what the sensor would read: 1 is a pressed switch
  steady,      \* history: the time since it came into the range or left it
  sensor,      \* the state of BaseSensor
  conditions,  \* conditionValue and toleranceValue
  modes,       \* updateModeMask
  metro,       \* metroOnOff, beatsPerMin and the age of lastBeat
  counter,     \* counter and counterTOP
  inbox,       \* the numeric data of each inlet and whether they are new
  fresh,       \* the outlet has new data
  latch,       \* the age of lastTimeLatch
  light,       \* the actuator in PULSE mode, its data and the age of startOn
  memory,      \* the EEPROM
  todo,        \* the write, or what else, that comes next in a function that saves
  kept,        \* history: the settings that were saved last
  opened,      \* history: since the switch last toggled the metronome, the time since
               \* it opened first, or -1
  released,    \* history: it was open later than a debounce time after that
  failed       \* history: a send failed after the last beat

human   == <<reading, steady>>
press   == <<opened, released>>
history == <<press, failed>>
logic   == <<modes, metro, counter>>
output  == <<fresh, latch>>
record  == <<memory, todo, kept>>
vars    == <<unit, stage, wait, gap, human, sensor, conditions, logic, inbox,
             output, light, record, history>>

\* The longest time from one look at the sensor to the next.
Longest == MaxGap + 3 * ToggleDelay

Words      == 0..Word - 1
Conditions == [value : Words, tolerance : Words]
Learnt     == [value : Distances, tolerance : Tolerances]
Item       == [data : Numbers \cup {0}, new : BOOLEAN]

\* What data an actuator finds: none that are new, or their event.
Events == {"none", "false", "true"}

Sensor  == [first : BOOLEAN, raw : BOOLEAN, state : BOOLEAN, age : Nat, event : BOOLEAN]
Metro   == [on : BOOLEAN, bpm : Words, beat : Nat]
Counter == [value : 0..Byte - 1, top : 0..Byte - 1]
Light   == [on : BOOLEAN, age : Nat, data : Events]
Memory  == [modes : SUBSET AllModes, on : BOOLEAN, bpm : Words, conditions : Conditions]

Aged(age, limit) == IF age > limit THEN age ELSE age + 1
-----------------------------------------------------------------------------
(* Sensors.                                                                *)

\* An int minus an unsigned int is unsigned where both have 16 bits, and fabs()
\* comes too late.
InRange(v, c) == (v - c.value) % Word <= c.tolerance

\* rawState
Raw(v, c) == IF unit = "RANGE" THEN InRange(v, c) ELSE v = 1

\* A mutation: every look at an unbelieved value starts the time anew.
DebouncedAnew(s, raw) ==
  LET was  == IF s.first THEN [s EXCEPT !.raw = raw, !.state = raw] ELSE s
      same == raw = was.raw
      now  == IF same /\ was.age > Debounce THEN raw ELSE was.state
  IN  [first |-> FALSE, raw |-> raw, state |-> now,
       age |-> IF raw = now THEN was.age ELSE 0, event |-> ~was.state /\ now]

\* A mutation: a value is believed at once.
DebouncedAtOnce(s, raw) ==
  LET was == IF s.first THEN [s EXCEPT !.raw = raw, !.state = raw] ELSE s
  IN  [first |-> FALSE, raw |-> raw, state |-> raw,
       age |-> IF raw = was.raw THEN was.age ELSE 0, event |-> ~was.state /\ raw]

\* update() in mode ON_ENTERING_COND: a value is believed when two looks in a row
\* see it and the last change is long enough ago.  The first look only remembers.
Debounced(s, raw) ==
  LET was  == IF s.first THEN [s EXCEPT !.raw = raw, !.state = raw] ELSE s
      same == raw = was.raw
      now  == IF same /\ was.age > Debounce THEN raw ELSE was.state
  IN  [first |-> FALSE, raw |-> raw, state |-> now,
       age |-> IF same THEN was.age ELSE 0, event |-> ~was.state /\ now]

\* init() of the node takes longer than a debounce time.
NewSensor ==
  [first |-> TRUE, raw |-> FALSE, state |-> FALSE, age |-> Debounce + 1, event |-> FALSE]

-----------------------------------------------------------------------------
(* Logic.                                                                  *)

New == {i \in Inlets : inbox[i].new}

Used == [i \in Inlets |-> [inbox[i] EXCEPT !.new = FALSE]]

\* setMetro()
Switched(m, on) == [m EXCEPT !.on = on, !.beat = 0]

\* setMetroBMP(): an int passed as an unsigned one, so that -1 is the fastest.
Paced(m, data) ==
  LET n == data % Word
  IN  [m EXCEPT !.bpm = IF n > MaxBpm THEN MaxBpm ELSE n, !.beat = 0]

\* evolve() compares with a quotient of floats: an integer age exceeds it when it
\* exceeds its whole part.
Period(bpm) == Minute \div bpm

\* What calls compute(), by the modes.
Bang ==
  \/ "sensor" \in modes /\ sensor.event
  \/ "first" \in modes /\ 1 \in New
  \/ "any" \in modes /\ New # {}
  \/ "synch" \in modes /\ New = Inlets
  \/ "periodic" \in modes

\* A mutation: there is no beat in a pass that has data to compute.
BeatDueWhenIdle ==
  /\ New = {}
  /\ unit = "METRO" /\ metro.on /\ metro.bpm > 0 /\ metro.beat > Period(metro.bpm)

BeatDue ==
  unit = "METRO" /\ metro.on /\ metro.bpm > 0 /\ metro.beat > Period(metro.bpm)

\* A mutation: a counter of more than a byte.
TopFromInt(c, data) == [c EXCEPT !.value = data, !.top = data]

\* A mutation: the counter goes on from where it is.
TopFromKept(c, data) == [c EXCEPT !.top = data % Byte]

\* setCounterTop() and reset()
TopFrom(c, data) == [c EXCEPT !.value = data % Byte, !.top = data % Byte]

Incremented(c) == [c EXCEPT !.value = IF @ = c.top THEN 0 ELSE (@ + 1) % Byte]
Decremented(c) == [c EXCEPT !.value = IF @ = 0 THEN c.top ELSE @ - 1]

\* compute() of the counter and whether it has something to tell: the first inlet
\* goes before the third, and without a bang at either the second one's data are
\* taken, new or not.
Counted(c) ==
  IF 1 \in New THEN Incremented(c)
  ELSE IF 3 \in New THEN Decremented(c)
  ELSE TopFrom(c, inbox[2].data)

CountTold(c) ==
  \/ 1 \in New /\ c.value # c.top /\ Counted(c).value = c.top
  \/ 1 \notin New /\ 3 \in New /\ c.value # 0 /\ Counted(c).value = 0

\* compute() of each unit and the flags of the inlets.  m is the metronome and d
\* are the data of the light at that time.  A toggle is saved and takes its delay
\* before new beats per minute are set.
Compute(m, d, told) ==
  LET toggled == unit = "METRO" /\ 1 \in New
      paced   == unit = "METRO" /\ 2 \in New
  IN  /\ metro' = IF toggled THEN Switched(m, ~m.on) ELSE m
      /\ counter' = IF unit = "COUNT" THEN Counted(counter) ELSE counter
      /\ fresh' = (fresh \/ told \/ unit = "RANGE" \/ (unit = "COUNT" /\ CountTold(counter)))
      /\ light' = [light EXCEPT !.data =
           IF toggled THEN (IF metro'.on THEN "true" ELSE "false")
           ELSE IF unit = "RANGE" THEN (IF sensor.event THEN "true" ELSE "false")
           ELSE d]
      /\ todo' = IF toggled THEN (IF paced THEN "onThenPace" ELSE "on")
                 ELSE (IF paced THEN "pace" ELSE "nothing")
      /\ wait' = IF toggled THEN ToggleDelay ELSE 0
      /\ inbox' = Used
      /\ UNCHANGED <<memory, kept>>

-----------------------------------------------------------------------------
(* Saving.                                                                 *)

InUse == [modes |-> modes, on |-> metro.on, bpm |-> metro.bpm, conditions |-> conditions]

\* EEPROM.update() of one byte of a word.
LowByte(new, word)  == (word \div Byte) * Byte + (new % Byte)
HighByte(new, word) == (new \div Byte) * Byte + (word % Byte)

\* A mutation: the beats per minute are saved as a byte.
FollowingOfByte ==
  [modes |-> "nothing", on |-> "nothing", onThenPace |-> "pace",
   pace |-> "bpmLow", bpmLow |-> "nothing", bpmHigh |-> "nothing",
   valueLow |-> "valueHigh", valueHigh |-> "toleranceLow",
   toleranceLow |-> "toleranceHigh", toleranceHigh |-> "look", look |-> "nothing"]

\* What comes after each write, and after what is done between two: words are
\* written low byte first, a learnt value before its tolerance.  The switch of the
\* metronome is 0 or 1, so that the write of its high byte changes nothing.
Following ==
  [modes |-> "nothing", on |-> "nothing", onThenPace |-> "pace",
   pace |-> "bpmLow", bpmLow |-> "bpmHigh", bpmHigh |-> "nothing",
   valueLow |-> "valueHigh", valueHigh |-> "toleranceLow",
   toleranceLow |-> "toleranceHigh", toleranceHigh |-> "look", look |-> "nothing"]

Idle   == {"nothing", "pace", "look"}
Writes == {"modes", "on", "onThenPace", "bpmLow", "bpmHigh",
           "valueLow", "valueHigh", "toleranceLow", "toleranceHigh"}

\* The next byte that a saving function writes.  It is written before any delay of
\* the function; the 3.4 ms that it takes belong to the pass.
WriteByte ==
  /\ todo \in Writes
  /\ todo' = Following[todo]
  /\ \/ todo = "modes" /\ memory' = [memory EXCEPT !.modes = modes]
     \/ todo \in {"on", "onThenPace"} /\ memory' = [memory EXCEPT !.on = metro.on]
     \/ todo = "bpmLow"  /\ memory' = [memory EXCEPT !.bpm = LowByte(metro.bpm, @)]
     \/ todo = "bpmHigh" /\ memory' = [memory EXCEPT !.bpm = HighByte(metro.bpm, @)]
     \/ /\ todo = "valueLow"
        /\ memory' = [memory EXCEPT !.conditions.value = LowByte(conditions.value, @)]
     \/ /\ todo = "valueHigh"
        /\ memory' = [memory EXCEPT !.conditions.value = HighByte(conditions.value, @)]
     \/ /\ todo = "toleranceLow"
        /\ memory' = [memory EXCEPT !.conditions.tolerance = LowByte(conditions.tolerance, @)]
     \/ /\ todo = "toleranceHigh"
        /\ memory' = [memory EXCEPT !.conditions.tolerance = HighByte(conditions.tolerance, @)]
  /\ kept' = IF todo' \in Idle THEN InUse ELSE kept
  /\ UNCHANGED <<unit, stage, wait, gap, human, sensor, conditions, logic, inbox, output,
                 light, history>>

-----------------------------------------------------------------------------
(* One pass of loop().                                                     *)

\* Codes of the remote control come first.
Press(key) ==
  /\ key \in Keys[unit]
  /\ stage = "start" /\ todo = "nothing"
  /\ stage' = "commanded"
  /\ UNCHANGED <<unit, gap, press>>

\* setUpdateMode(ONLY_MANUAL_BANG) and toggleUpdateMode()
ChangeModes ==
  /\ \/ /\ Press("standby")
        /\ modes' = {}
        /\ wait' = 0
     \/ \E mode \in AllModes :
          /\ Press(mode)
          /\ modes' = (modes \ {mode}) \cup ({mode} \ modes)
          /\ wait' = ToggleDelay
  /\ todo' = "modes"
  /\ UNCHANGED <<human, sensor, conditions, metro, counter, inbox, output, light, memory,
                 kept, failed>>

\* forceUpdate()
ForceBang ==
  /\ Press("bang")
  /\ Compute(metro, light.data, FALSE)
  /\ UNCHANGED <<human, sensor, conditions, modes, latch, failed>>

\* learnAnalogConditions(): the mean and the deviation of what the range finder
\* reads in three seconds, in RAM; then they are saved.  Nothing looks at either of
\* them before, and a power cut in those seconds finds the memory as one before
\* them does.  A switch learns nothing.
Learn ==
  /\ Press("learn")
  /\ unit # "COUNT"
  /\ \/ /\ unit = "RANGE"
        /\ conditions' \in Learnt
        /\ reading' \in Distances
        /\ steady' = 0
        /\ sensor' = [sensor EXCEPT !.age = Debounce + 1]
        /\ latch' = Latch + 1
        /\ light' = [light EXCEPT !.age = IF light.on THEN Pulse + 3 * Longest + 1 ELSE 0]
        /\ todo' = "valueLow"
     \/ /\ unit = "METRO"
        /\ todo' = "look"
        /\ UNCHANGED <<human, sensor, conditions, latch, light>>
  /\ UNCHANGED <<wait, logic, inbox, fresh, memory, kept, failed>>

\* Its own update() of the sensors, besides the one of every pass.
LookLearnt ==
  /\ todo = "look"
  /\ todo' = Following[todo]
  /\ sensor' = Debounced(sensor, Raw(reading, conditions))
  /\ UNCHANGED <<unit, stage, wait, gap, human, conditions, logic, inbox, output, light,
                 memory, kept, history>>

\* The second half of compute() of the metronome.
Pace ==
  /\ todo = "pace"
  /\ wait = 0
  /\ todo' = Following[todo]
  /\ metro' = Paced(metro, inbox[2].data)
  /\ UNCHANGED <<unit, stage, wait, gap, human, sensor, conditions, modes, counter, inbox,
                 output, light, memory, kept, history>>

\* A packet for an inlet.  Only the second one's data are ever looked at.
Receive ==
  /\ stage \in {"start", "commanded"}
  /\ wait = 0 /\ todo = "nothing"
  /\ stage' = "received"
  /\ \E i \in Fed[unit], n \in Numbers \cup {0} :
       /\ IF i = 2 THEN n \in Numbers ELSE n = 0
       /\ inbox' = [inbox EXCEPT ![i] = [data |-> n, new |-> TRUE]]
  /\ UNCHANGED <<unit, wait, gap, human, sensor, conditions, logic, output, light, record,
                 history>>

\* The sensors, and the first half of evolve(): the switch of the metronome.
Look ==
  /\ stage \in {"start", "commanded", "received"}
  /\ wait = 0 /\ todo = "nothing"
  /\ stage' = "seen"
  /\ sensor' = IF unit = "COUNT" THEN sensor ELSE Debounced(sensor, Raw(reading, conditions))
  /\ LET toggled == unit = "METRO" /\ sensor'.event
     IN  /\ metro' = IF toggled THEN Switched(metro, ~metro.on) ELSE metro
         /\ light' = [light EXCEPT !.data =
              IF toggled THEN (IF metro'.on THEN "true" ELSE "false") ELSE @]
         /\ todo' = IF toggled THEN "on" ELSE "nothing"
         /\ wait' = IF toggled THEN ToggleDelay ELSE 0
         /\ released' = (released /\ ~toggled)
         /\ opened' = IF toggled THEN -1 ELSE opened
  /\ UNCHANGED <<unit, gap, human, conditions, modes, counter, inbox, output, memory, kept,
                 failed>>

\* The rest of BaseLogic::update(): a beat, and compute() if the modes say so.
Think ==
  /\ stage = "seen"
  /\ wait = 0 /\ todo = "nothing"
  /\ stage' = "thought"
  /\ failed' = (failed /\ ~BeatDue)
  /\ LET m    == IF BeatDue THEN [metro EXCEPT !.beat = 0] ELSE metro
         d    == IF BeatDue THEN "true" ELSE light.data
     IN  \/ /\ Bang
            /\ Compute(m, d, BeatDue)
         \/ /\ ~Bang
            /\ metro' = m
            /\ light' = [light EXCEPT !.data = d]
            /\ fresh' = (fresh \/ BeatDue)
            /\ UNCHANGED <<wait, counter, inbox, record>>
  /\ UNCHANGED <<unit, gap, human, sensor, conditions, modes, latch, press>>

\* A mutation: the timer of the light is not looked at.
PulsedUntilTold(a) ==
  IF a.data = "true" THEN [on |-> TRUE, age |-> 0, data |-> "none"]
  ELSE IF a.data = "false" THEN [on |-> FALSE, age |-> 0, data |-> "none"]
  ELSE a

\* BaseActuatorDigital::update() in mode PULSE.
Pulsed(a) ==
  IF a.data = "true" THEN [on |-> TRUE, age |-> 0, data |-> "none"]
  ELSE IF a.data = "false" THEN [a EXCEPT !.data = "none"]
  ELSE IF a.age > Pulse THEN [a EXCEPT !.on = FALSE, !.age = 0]
  ELSE a

\* A mutation: the latch is shut by every pass that finds it shut.
SendRestartsLatch ==
  \/ /\ latch <= Latch
     /\ latch' = 0
     /\ UNCHANGED <<fresh, failed>>
  \/ /\ latch > Latch
     /\ fresh' = FALSE
     /\ latch' = 0
     /\ UNCHANGED failed
  \/ /\ latch > Latch
     /\ fresh
     /\ failed' = (unit = "METRO")
     /\ UNCHANGED <<fresh, latch>>

\* The latch is shut by a send that succeeds, as one of nothing does.
Send ==
  \/ /\ latch <= Latch
     /\ UNCHANGED <<fresh, latch, failed>>
  \/ /\ latch > Latch
     /\ fresh' = FALSE
     /\ latch' = 0
     /\ UNCHANGED failed
  \/ /\ latch > Latch
     /\ fresh
     /\ failed' = (unit = "METRO")
     /\ UNCHANGED <<fresh, latch>>

\* The outlet and the actuators.
Finish ==
  /\ stage = "thought"
  /\ wait = 0 /\ todo = "nothing"
  /\ stage' = "start"
  /\ gap' = 0
  /\ Send
  /\ light' = Pulsed(light)
  /\ UNCHANGED <<unit, wait, human, sensor, conditions, logic, inbox, record, press>>

-----------------------------------------------------------------------------
(* Time, people and power.                                                 *)

\* The history of a switch that reads r and opened first so long ago.  One that is
\* open before the first look after a start may pass for released.
Opening(r, age) ==
  /\ released' = (released \/ (r = 0 /\ (sensor.first \/ age > Debounce)))
  /\ opened' = IF released' THEN -1 ELSE IF r = 0 /\ age < 0 THEN 0 ELSE age

\* A delay() ends, or time goes by between two passes.
Advance ==
  /\ todo \notin Writes
  /\ \/ /\ wait > 0
        /\ wait' = wait - 1
        /\ UNCHANGED gap
     \/ /\ wait = 0
        /\ stage = "start"
        /\ gap < MaxGap
        /\ gap' = gap + 1
        /\ UNCHANGED wait
  /\ steady' = IF unit = "COUNT" THEN steady ELSE Aged(steady, Debounce + 2 * Longest)
  /\ sensor' = IF unit = "COUNT" THEN sensor ELSE [sensor EXCEPT !.age = Aged(@, Debounce)]
  /\ metro' = IF metro.on THEN [metro EXCEPT !.beat = Aged(@, Minute + Longest)] ELSE metro
  /\ latch' = Aged(latch, Latch)
  /\ light' = IF light.on THEN [light EXCEPT !.age = Aged(@, Pulse + 3 * Longest)] ELSE light
  /\ Opening(reading, IF opened < 0 THEN opened ELSE Aged(opened, Debounce))
  /\ UNCHANGED <<unit, stage, reading, conditions, modes, counter, inbox, fresh, record, failed>>

Readings ==
  IF unit = "RANGE" THEN Distances ELSE IF unit = "METRO" THEN {0, 1} ELSE {0}

\* Somebody presses or releases the switch, or moves in front of the range finder.
Move ==
  /\ reading' \in Readings \ {reading}
  /\ steady' = IF Raw(reading', conditions) = Raw(reading, conditions) THEN steady ELSE 0
  /\ Opening(reading', opened)
  /\ UNCHANGED <<unit, stage, wait, gap, sensor, conditions, logic, inbox, output, light,
                 record, failed>>

\* The node is switched off and on, between any two writes.  Nobody gives
\* newDataFlag of an actuator its first value.
Restart ==
  /\ stage' = "start"
  /\ wait' = 0
  /\ gap' = 0
  /\ reading' \in Readings
  /\ steady' = 0
  /\ sensor' = NewSensor
  /\ conditions' = memory.conditions
  /\ modes' = memory.modes
  /\ metro' = [on |-> memory.on, bpm |-> memory.bpm, beat |-> 0]
  /\ counter' = [value |-> FactoryTop, top |-> FactoryTop]
  /\ inbox' = [i \in Inlets |-> [data |-> 0, new |-> FALSE]]
  /\ fresh' = FALSE
  /\ latch' = 0
  /\ \E d \in Events : light' = [on |-> FALSE, age |-> 0, data |-> d]
  /\ todo' = "nothing"
  /\ kept' = memory
  /\ opened' = -1
  /\ released' = (released \/ reading' = 0)
  /\ failed' = FALSE
  /\ UNCHANGED <<unit, memory>>

FactoryModes(u) == IF u = "RANGE" THEN {"sensor", "any"} ELSE {"any"}

\* The first start with the factory settings, which a build of its own has saved.
\* The conditions of a switch are never used.
Init ==
  /\ unit \in Units
  /\ stage = "start"
  /\ wait = 0
  /\ gap = 0
  /\ reading \in Readings
  /\ steady = 0
  /\ sensor = NewSensor
  /\ conditions \in Learnt
  /\ unit # "RANGE" => conditions = CHOOSE c \in Learnt : TRUE
  /\ modes = FactoryModes(unit)
  /\ metro = [on |-> FALSE, bpm |-> FactoryBpm, beat |-> 0]
  /\ counter = [value |-> FactoryTop, top |-> FactoryTop]
  /\ inbox = [i \in Inlets |-> [data |-> 0, new |-> FALSE]]
  /\ fresh = FALSE
  /\ latch = 0
  /\ \E d \in Events : light = [on |-> FALSE, age |-> 0, data |-> d]
  /\ memory = InUse
  /\ todo = "nothing"
  /\ kept = InUse
  /\ opened = -1
  /\ released = (unit = "METRO" => reading = 0)
  /\ failed = FALSE

Next ==
  \/ ChangeModes
  \/ ForceBang
  \/ Learn
  \/ LookLearnt
  \/ Pace
  \/ WriteByte
  \/ Receive
  \/ Look
  \/ Think
  \/ Finish
  \/ Advance
  \/ Move
  \/ Restart

Spec == Init /\ [][Next]_vars

-----------------------------------------------------------------------------
(* Properties.                                                             *)

\* Every variable holds values of the shape the code gives it.
TypeOK ==
  /\ unit \in Units
  /\ stage \in {"start", "commanded", "received", "seen", "thought"}
  /\ wait \in 0..ToggleDelay
  /\ gap \in 0..MaxGap
  /\ reading \in Readings
  /\ steady \in Nat
  /\ sensor \in Sensor
  /\ conditions \in Conditions
  /\ modes \subseteq AllModes
  /\ metro \in Metro
  /\ counter \in Counter
  /\ inbox \in [Inlets -> Item]
  /\ fresh \in BOOLEAN
  /\ latch \in Nat
  /\ light \in Light
  /\ memory \in Memory
  /\ todo \in Idle \cup Writes
  /\ kept \in Memory
  /\ opened \in -1..Debounce + 1
  /\ released \in BOOLEAN
  /\ failed \in BOOLEAN

\* A finger on the switch toggles the metronome once, however long it stays there
\* and however its contact trembles for a debounce time: between two toggles of its
\* own the switch was open at two moments that are farther apart, whatever else
\* toggles the metronome in between, learning included.  A power cut does not repeat
\* a press either, of a switch that stays closed until the first look.
PressIsNotRepeated ==
  [][Look /\ unit = "METRO" /\ sensor'.event => released]_vars

\* What the sensor reports follows what it could see: when a switch is held, or
\* an object stays in the range, for a debounce time and two passes, the debounced
\* state says so, though passes are blocked by delays and loops look seldom.
SensorFollows ==
  steady > Debounce + 2 * Longest => sensor.state = Raw(reading, conditions)

\* The metronome does not miss a beat, whatever its inlets receive: while it is on
\* the last beat, or the last change of its settings, is not older than a period
\* (or the delay of a toggle, which may be longer) and a pass.
BeatsKeepTime ==
  unit = "METRO" /\ metro.on /\ metro.bpm > 0
    => \/ metro.beat <= Period(metro.bpm) + MaxGap + ToggleDelay
       \/ metro.beat <= MaxGap + 2 * ToggleDelay

\* A beat leaves the outlet before the next one takes its place, when the children
\* answer and the period is longer than the latch and a pass.
BeatsAreSent ==
  [][Think /\ BeatDue /\ fresh
       => failed \/ Period(metro.bpm) <= Latch + Longest]_vars

\* The light of the metronome goes off after a pulse, though new data put off the
\* look at its timer: two passes in a row can end with the metronome switched off
\* once more, the third cannot.
LightGoesOff ==
  unit = "METRO" /\ light.on => light.age <= Pulse + 3 * Longest

\* The counter turns over: one that is past its top would count on to 255.
CountStaysBelowTop == counter.value <= counter.top

\* What a power cut between any two writes leaves of a word.
Torn(new, old) == {old, LowByte(new, old), new}

\* A power cut loses none of the settings, the update modes, the metronome and the
\* conditions, but those that are just being saved: one byte is the old one or the
\* new one, and a word may have the low byte of the new one and the high byte of
\* the old one.  The tolerance that was learnt is not found without its value.
RestartKeepsSettings ==
  [][Restart =>
       /\ modes' \in {modes, kept.modes} /\ metro'.on \in {metro.on, kept.on}
       /\ metro'.bpm \in Torn(metro.bpm, kept.bpm)
       /\ conditions'.value \in Torn(conditions.value, kept.conditions.value)
       /\ conditions'.tolerance \in Torn(conditions.tolerance, kept.conditions.tolerance)
       /\ conditions'.tolerance # kept.conditions.tolerance
            => conditions'.value = conditions.value]_vars

Within(v, c) == v - c.value <= c.tolerance /\ c.value - v <= c.tolerance

\* The range is the condition plus or minus the tolerance, as BaseSensor.cpp:185
\* prints it: a reading that stays in it is reported.
RangeHasTwoSides ==
  unit = "RANGE" /\ steady > Debounce + 2 * Longest /\ Within(reading, conditions)
    => sensor.state
=============================================================================
