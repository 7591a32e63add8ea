---------------------------- MODULE InfraredLink ----------------------------
(***************************************************************************)
(* How a gluon hears infrared codes (moduleIR.cpp): the beacons of other   *)
(* gluons, which ask for a link, and the keys of a remote control.         *)
(*                                                                         *)
(* An interrupt at each falling edge of the carrier decodes codes by the   *)
(* time since the edge before; loop() polls its flag newData, and from     *)
(* time to time sends the beacon of this gluon, with the interrupt off.    *)
(*                                                                         *)
(* A code on the air is an edge after a long gap, one 13.5 ms later (AGC)  *)
(* and one for each bit.  While a key is held down the remote control      *)
(* sends repeats: an edge after a long gap and one 11.25 ms later.         *)
(***************************************************************************)
EXTENDS Naturals

CONSTANTS
  Bits,     \* bits of a code, 32
  Codes,    \* the codes of gluons and of remote controls
  NoCode,
  Events    \* what the environment may do:

\* "cut":     a code is broken off, as somebody moves a gluon away
\* "repeat":  a key is held down
AllEvents == {"cut", "repeat"}

Bit  == {"zero", "one"}
Raw  == [1..Bits -> Bit]
Zero == [i \in 1..Bits |-> "zero"]

ASSUME BitsAssumption == Bits \in Nat \ {0}
ASSUME CodesAssumption == Codes \subseteq Raw \ {Zero}
ASSUME NoCodeAssumption == NoCode \notin Raw
ASSUME EventsAssumption == Events \subseteq AllEvents

VARIABLES
  nextBit,   \* NextBit: the bit that comes next, Bits while there is none
  raw,       \* raw32BitCode
  newData,   \* the flag that tells loop() of a code
  timed,     \* the timer runs since the edge before, not since a beacon
  stage,     \* where loop() is: "poll" -> "seen" -> "rest" -> "poll", "beacon"
  code,      \* the code that processIRMessage last got
  air,       \* what is on the air
  owed,      \* history: the last code sent to its end and not acted on yet
  held       \* history: a repeat came after that code, or after it was acted on

receiver == <<nextBit, raw, newData, timed>>
history  == <<owed, held>>
vars     == <<receiver, stage, code, air, history>>

\* edges: how many edges of it came after the first.
Silence == [kind |-> "silence", code |-> NoCode, edges |-> 0]
Air ==
  {Silence} \cup [kind : {"code"}, code : Codes, edges : 0..Bits]
            \cup [kind : {"repeat"}, code : {NoCode}, edges : {0}]

-----------------------------------------------------------------------------
(* The interrupt.                                                          *)

\* A mutation: NextBit goes on counting.
StartBitsAfterLast ==
  raw' = Zero /\ nextBit' = nextBit + 1 /\ newData' = FALSE

\* The AGC pulse.
StartBits ==
  raw' = Zero /\ nextBit' = 0 /\ newData' = FALSE

\* The repeat pulse: raw32BitCode still has the code, or what came of it.
HearRepeat ==
  newData' = TRUE /\ UNCHANGED <<raw, nextBit>>

ReadBit(bit) ==
  /\ raw' = [raw EXCEPT ![nextBit + 1] = bit]
  /\ nextBit' = nextBit + 1
  /\ newData' = (newData \/ nextBit = Bits - 1)

\* A mutation: NextBit keeps its value.
GoOn ==
  UNCHANGED <<raw, nextBit, newData>>

\* An edge too late to be a bit ends the code; the bits so far are kept.
EndBits ==
  nextBit' = Bits /\ UNCHANGED <<raw, newData>>

\* detectCarrier, for an edge that comes that long after the one before.  An
\* edge that is neither AGC nor REPEAT starts nothing.
DetectCarrier(interval) ==
  \/ nextBit = Bits /\ interval = "agc" /\ StartBits
  \/ nextBit = Bits /\ interval = "repeat" /\ HearRepeat
  \/ /\ nextBit = Bits /\ interval \notin {"agc", "repeat"}
     /\ UNCHANGED <<raw, nextBit, newData>>
  \/ nextBit < Bits /\ interval \in Bit /\ ReadBit(interval)
  \/ nextBit < Bits /\ interval \notin Bit /\ EndBits

\* What the timer shows: less than the interval if a beacon that ended in
\* between has started it again, more bits than that are too short to matter.
Measured(interval) ==
  IF timed THEN {interval}
  ELSE CASE interval \in {"gap", "agc"} -> {"gap", "agc", "repeat"}
         [] interval = "repeat" -> {"gap", "repeat"}
         [] OTHER -> {"gap"}

\* An edge reaches the gluon.  Between the two instructions of readNEC that look
\* at newData and lock the interrupt there is time for one edge at most.
Edge(interval) ==
  \/ /\ stage = "beacon"
     /\ UNCHANGED <<receiver, stage>>
  \/ /\ stage \notin {"beacon", "hit"}
     /\ \E t \in Measured(interval) : DetectCarrier(t)
     /\ timed' = TRUE
     /\ stage' = IF stage = "seen" THEN "hit" ELSE stage

-----------------------------------------------------------------------------
(* loop().                                                                 *)

\* readNEC looks at the flag before it locks the interrupt.
Poll ==
  /\ stage = "poll"
  /\ stage' = IF newData THEN "seen" ELSE "rest"
  /\ UNCHANGED <<receiver, code, air, history>>

\* With the interrupt locked it takes the code, which is then acted on.
Take ==
  /\ stage \in {"seen", "hit"}
  /\ stage' = "rest"
  /\ code' = raw
  /\ newData' = FALSE
  /\ owed' = NoCode /\ held' = FALSE
  /\ UNCHANGED <<nextBit, raw, timed, air>>

\* The rest of the pass, without a beacon or with one.
EndPass ==
  /\ stage = "rest"
  /\ stage' = "poll"
  /\ UNCHANGED <<receiver, code, air, history>>

EnableSending ==
  /\ stage = "rest"
  /\ stage' = "beacon"
  /\ UNCHANGED <<receiver, code, air, history>>

EnableReception ==
  /\ stage = "beacon"
  /\ stage' = "poll"
  /\ newData' = FALSE /\ nextBit' = Bits /\ raw' = Zero
  /\ timed' = FALSE
  /\ UNCHANGED <<code, air, history>>

-----------------------------------------------------------------------------
(* The air.  Two senders do not overlap, and the gap before a code is too   *)
(* long to be measured.                                                     *)

StartCode(c) ==
  /\ air = Silence
  /\ air' = [kind |-> "code", code |-> c, edges |-> 0]
  /\ Edge("gap")
  /\ UNCHANGED <<code, history>>

Agc ==
  /\ air.kind = "code"
  /\ air.edges = 0
  /\ air' = [air EXCEPT !.edges = 1]
  /\ Edge("agc")
  /\ UNCHANGED <<code, history>>

NextBitEdge ==
  /\ air.kind = "code"
  /\ air.edges > 0
  /\ Edge(air.code[air.edges])
  /\ \/ /\ air.edges < Bits
        /\ air' = [air EXCEPT !.edges = @ + 1]
        /\ UNCHANGED history
     \/ /\ air.edges = Bits
        /\ air' = Silence
        /\ owed' = air.code /\ held' = FALSE
  /\ UNCHANGED code

StartRepeat ==
  /\ "repeat" \in Events
  /\ air = Silence
  /\ air' = [kind |-> "repeat", code |-> NoCode, edges |-> 0]
  /\ Edge("gap")
  /\ UNCHANGED <<code, history>>

Repeat ==
  /\ air.kind = "repeat"
  /\ air' = Silence
  /\ Edge("repeat")
  /\ held' = TRUE
  /\ UNCHANGED <<code, owed>>

Cut ==
  /\ "cut" \in Events
  /\ air # Silence
  /\ air' = Silence
  /\ UNCHANGED <<receiver, stage, code, history>>

-----------------------------------------------------------------------------

Init ==
  /\ nextBit = Bits /\ raw = Zero /\ newData = FALSE
  /\ timed = FALSE
  /\ stage = "poll"
  /\ code = Zero
  /\ air = Silence
  /\ owed = NoCode /\ held = FALSE

Next ==
  \/ Poll
  \/ Take
  \/ EndPass
  \/ EnableSending
  \/ EnableReception
  \/ \E c \in Codes : StartCode(c)
  \/ Agc
  \/ NextBitEdge
  \/ StartRepeat
  \/ Repeat
  \/ Cut

Spec == Init /\ [][Next]_vars
-----------------------------------------------------------------------------
(* Properties.                                                             *)

\* Every variable holds values of the shape the code gives it.
TypeOK ==
  /\ nextBit \in 0..Bits
  /\ raw \in Raw
  /\ newData \in BOOLEAN
  /\ timed \in BOOLEAN
  /\ stage \in {"poll", "seen", "hit", "rest", "beacon"}
  /\ code \in Raw
  /\ air \in Air
  /\ owed \in Codes \cup {NoCode}
  /\ held \in BOOLEAN

\* loop() is about to act on raw32BitCode.
Taking == stage \in {"seen", "hit"} /\ stage' = "rest"

\* A code that loop() acts on was sent to its end, is the last that was, and is
\* acted on once, unless a repeat came since: no beacon of this gluon, code
\* that was broken off, or edge between the look at newData and the lock of the
\* interrupt (moduleIR.cpp:171-176) makes it act on anything else.  (Zero is
\* the code of nobody, and nothing comes of it.)
CodesAreSent ==
  [][Taking => held \/ code' \in {owed, Zero}]_vars
=============================================================================
