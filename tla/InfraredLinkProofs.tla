------------------------- MODULE InfraredLinkProofs -------------------------
(***************************************************************************)
(* What InfraredLink does for every length of the codes, every set of      *)
(* codes and every choice of events.                                       *)
(***************************************************************************)
EXTENDS InfraredLink, TLAPS

\* What raw32BitCode holds when i bits of c have been read.
Read(c, i) == [k \in 1..Bits |-> IF k <= i THEN c[k] ELSE "zero"]

\* Nothing was heard since the beacon.
Quiet ==
  ~ timed => ~ newData /\ raw = Zero /\ nextBit = Bits

\* While a code is read, raw32BitCode has its bits so far, those of the code on
\* the air, of which no more than the first edge can have been missed.
Reading ==
  stage # "beacon" /\ nextBit < Bits /\ air.kind = "code" =>
    \/ air.edges = 0 /\ nextBit = 0
    \/ air.edges = nextBit + 1 /\ raw = Read(air.code, nextBit)

\* Since the AGC pulse of a code nothing else waits for loop().
Passing ==
  stage # "beacon" /\ newData /\ air.kind = "code" /\ air.edges > 0
    => raw = Zero

\* A code that waits for loop() is complete, and the last that was sent.
Waiting ==
  stage # "beacon" /\ newData =>
    nextBit = Bits /\ (held \/ raw \in {owed, Zero})

\* loop() saw the flag, and the interrupt may have started a code since.
Seen ==
  /\ stage = "seen" => newData
  /\ stage = "hit" => held \/ raw \in {owed, Zero}

IInv == TypeOK /\ Quiet /\ Reading /\ Passing /\ Waiting /\ Seen

-----------------------------------------------------------------------------
(* Types.                                                                  *)

\* The intervals that the timer can show.
Intervals == {"gap", "agc", "repeat"} \cup Bit

\* What the timer shows is one of them.
LEMMA MeasuredType ==
  ASSUME NEW i \in Intervals
  PROVE  Measured(i) \subseteq Intervals
BY DEF Measured, Intervals, Bit

\* A code has a bit at every place.
LEMMA CodeBits ==
  ASSUME NEW c \in Codes
  PROVE  c \in Raw /\ \A k \in 1..Bits : c[k] \in Bit
BY CodesAssumption DEF Raw

\* A receiver that has no bits holds a word.
LEMMA ZeroIsRaw == Zero \in Raw
BY DEF Zero, Raw, Bit

\* An edge leaves the receiver and loop() in a state of the right shape.
LEMMA EdgeTypes ==
  ASSUME TypeOK, NEW i \in Intervals, Edge(i)
  PROVE  /\ nextBit' \in 0..Bits /\ raw' \in Raw
         /\ newData' \in BOOLEAN /\ timed' \in BOOLEAN
         /\ stage' \in {"poll", "seen", "hit", "rest", "beacon"}
<1>1. CASE stage = "beacon"
  BY <1>1 DEF TypeOK, Edge, receiver
<1>2. CASE stage # "beacon"
  <2>1. PICK t \in Measured(i) : DetectCarrier(t)
    BY <1>2 DEF Edge
  <2>2. timed' = TRUE /\ stage' \in {stage, "hit"}
    BY <1>2 DEF Edge
  <2>3. nextBit' \in 0..Bits /\ raw' \in Raw /\ newData' \in BOOLEAN
    <3>1. CASE nextBit < Bits /\ t \in Bit /\ ReadBit(t)
      <4>1. nextBit + 1 \in 0..Bits
        BY <3>1, BitsAssumption DEF TypeOK
      <4>2. [raw EXCEPT ![nextBit + 1] = t] \in Raw
        BY <3>1 DEF TypeOK, Raw
      <4>3. newData' = (newData \/ nextBit = Bits - 1)
        BY <3>1 DEF ReadBit
      <4>4. newData' \in BOOLEAN
        BY <4>3
      <4> QED
        BY <3>1, <4>1, <4>2, <4>4 DEF ReadBit
    <3>2. CASE ~ (nextBit < Bits /\ t \in Bit /\ ReadBit(t))
      <4>1. \/ StartBits \/ HearRepeat \/ EndBits
            \/ UNCHANGED <<raw, nextBit, newData>>
        BY <2>1, <3>2 DEF DetectCarrier
      <4>2. nextBit' \in 0..Bits /\ raw' \in Raw
        BY <4>1, ZeroIsRaw, BitsAssumption
        DEF TypeOK, StartBits, HearRepeat, EndBits
      <4>3. newData' \in BOOLEAN
        BY <4>1, Zenon DEF TypeOK, StartBits, HearRepeat, EndBits
      <4> QED
        BY <4>2, <4>3
    <3> QED
      BY <3>1, <3>2
  <2> QED
    BY <2>2, <2>3 DEF TypeOK
<1> QED
  BY <1>1, <1>2

\* The initial state has the right shape.
LEMMA InitTypes == Init => TypeOK
<1> SUFFICES ASSUME Init PROVE TypeOK
  OBVIOUS
<1>1. nextBit \in 0..Bits /\ raw \in Raw /\ code \in Raw
  BY ZeroIsRaw, BitsAssumption DEF Init
<1>2. newData \in BOOLEAN /\ timed \in BOOLEAN /\ held \in BOOLEAN
  BY DEF Init
<1>3. /\ stage \in {"poll", "seen", "hit", "rest", "beacon"}
      /\ air \in Air
      /\ owed \in Codes \cup {NoCode}
  BY DEF Init, Air
<1> QED
  BY <1>1, <1>2, <1>3 DEF TypeOK

\* So has the state after each step.
LEMMA NextTypes == TypeOK /\ [Next]_vars => TypeOK'
<1> SUFFICES ASSUME TypeOK, [Next]_vars PROVE TypeOK'
  OBVIOUS
<1> USE DEF TypeOK
<1>1. CASE Poll
  BY <1>1 DEF Poll, receiver, history
<1>2. CASE Take
  BY <1>2 DEF Take
<1>3. CASE EndPass
  BY <1>3 DEF EndPass, receiver, history
<1>4. CASE EnableSending
  BY <1>4 DEF EnableSending, receiver, history
<1>5. CASE EnableReception
  <2>1. nextBit' \in 0..Bits /\ raw' \in Raw /\ stage' = "poll"
    BY <1>5, ZeroIsRaw, BitsAssumption DEF EnableReception
  <2>2. newData' \in BOOLEAN /\ timed' \in BOOLEAN
    BY <1>5 DEF EnableReception
  <2>3. code' = code /\ air' = air /\ owed' = owed /\ held' = held
    BY <1>5 DEF EnableReception, history
  <2> QED
    BY <2>1, <2>2, <2>3
<1>6. ASSUME NEW c \in Codes, StartCode(c) PROVE TypeOK'
  <2>1. air' \in Air
    BY <1>6, BitsAssumption DEF StartCode, Air
  <2> QED
    BY <1>6, <2>1, EdgeTypes DEF StartCode, Intervals, history
<1>7. CASE Agc
  <2>1. air' \in Air
    BY <1>7, BitsAssumption DEF Agc, Air, Silence
  <2> QED
    BY <1>7, <2>1, EdgeTypes DEF Agc, Intervals, history
<1>8. CASE NextBitEdge
  <2>1. air.code \in Codes /\ air.edges \in 1..Bits
    BY <1>8, BitsAssumption DEF NextBitEdge, Air, Silence
  <2>2. air' \in Air
    BY <1>8, <2>1, BitsAssumption DEF NextBitEdge, Air, Silence
  <2>3. air.code[air.edges] \in Intervals
    BY <2>1, CodeBits DEF Intervals
  <2>4. owed' \in Codes \cup {NoCode} /\ held' \in BOOLEAN
    BY <1>8, <2>1 DEF NextBitEdge, history
  <2>5. Edge(air.code[air.edges]) /\ code' = code
    BY <1>8 DEF NextBitEdge
  <2> QED
    BY <2>2, <2>3, <2>4, <2>5, EdgeTypes
<1>9. CASE StartRepeat
  <2>1. air' \in Air
    BY <1>9 DEF StartRepeat, Air
  <2> QED
    BY <1>9, <2>1, EdgeTypes DEF StartRepeat, Intervals, history
<1>10. CASE Repeat
  <2>1. air' \in Air
    BY <1>10 DEF Repeat, Air
  <2> QED
    BY <1>10, <2>1, EdgeTypes DEF Repeat, Intervals
<1>11. CASE Cut
  BY <1>11 DEF Cut, receiver, history, Air
<1>12. CASE UNCHANGED vars
  BY <1>12 DEF vars, receiver, history
<1> QED
  BY <1>1, <1>2, <1>3, <1>4, <1>5, <1>6, <1>7, <1>8, <1>9, <1>10, <1>11, <1>12
  DEF Next

\* Every variable of the receiver keeps its shape (the operations of
\* moduleIR.cpp), so NextBit never passes the last bit, for any code length.
THEOREM InfraredTypes == Spec => []TypeOK
BY InitTypes, NextTypes, PTL DEF Spec

-----------------------------------------------------------------------------
(* What loop() acts on.                                                    *)

\* The first edge of a code or of a repeat, 'gap' after the edge before, gives
\* the receiver at most an empty word.
LEMMA GapEffect ==
  ASSUME IInv, stage # "beacon", Edge("gap")
  PROVE  /\ timed' /\ stage' \in {stage, "hit"}
         /\ nextBit' \in {0, Bits}
         /\ newData' => nextBit' = Bits /\ (held \/ raw' \in {owed, Zero})
         /\ stage' = "hit" => held \/ raw' \in {owed, Zero}
         /\ stage' # "seen"
<1>1. PICK t \in Measured("gap") : DetectCarrier(t)
  BY DEF Edge
<1>2. timed' /\ stage' = IF stage = "seen" THEN "hit" ELSE stage
  BY DEF Edge
<1>3. stage \notin {"beacon", "hit"}
  BY DEF Edge
<1>4. t \in {"gap", "agc", "repeat"} /\ (t # "gap" => ~ timed)
  BY <1>1 DEF Measured
<1>5. CASE StartBits
  BY <1>2, <1>3, <1>5, BitsAssumption DEF StartBits
<1>6. CASE nextBit = Bits /\ ~ timed /\ HearRepeat
  BY <1>2, <1>3, <1>6 DEF HearRepeat, IInv, Quiet
<1>7. CASE nextBit = Bits /\ UNCHANGED <<raw, nextBit, newData>>
  BY <1>2, <1>3, <1>7 DEF IInv, Waiting, Seen
<1>8. CASE nextBit < Bits /\ EndBits
  <2>1. ~ newData /\ stage # "seen"
    BY <1>3, <1>8, BitsAssumption DEF IInv, Waiting, Seen, TypeOK
  <2> QED
    BY <1>2, <1>3, <1>8, <2>1 DEF EndBits
<1> QED
  BY <1>1, <1>4, <1>5, <1>6, <1>7, <1>8 DEF DetectCarrier, Bit

\* The AGC edge of a code starts it, or ends what was read before.
LEMMA AgcEffect ==
  ASSUME IInv, stage # "beacon", Edge("agc")
  PROVE  /\ timed' /\ stage' \in {stage, "hit"}
         /\ nextBit' < Bits => nextBit' = 0 /\ raw' = Zero
         /\ nextBit' < Bits => ~ newData'
         /\ newData' => nextBit' = Bits /\ raw' = Zero
         /\ stage' = "hit" => held \/ raw' \in {owed, Zero}
         /\ stage' # "seen"
<1>1. PICK t \in Measured("agc") : DetectCarrier(t)
  BY DEF Edge
<1>2. timed' /\ stage' = IF stage = "seen" THEN "hit" ELSE stage
  BY DEF Edge
<1>3. stage \notin {"beacon", "hit"}
  BY DEF Edge
<1>4. t \in {"gap", "agc", "repeat"} /\ (t # "agc" => ~ timed)
  BY <1>1 DEF Measured
<1>5. CASE StartBits
  BY <1>2, <1>3, <1>5, BitsAssumption DEF StartBits
<1>6. CASE nextBit = Bits /\ ~ timed /\ HearRepeat
  BY <1>2, <1>3, <1>6, BitsAssumption DEF HearRepeat, IInv, Quiet
<1>7. CASE nextBit = Bits /\ ~ timed /\ UNCHANGED <<raw, nextBit, newData>>
  BY <1>2, <1>3, <1>7, BitsAssumption DEF IInv, Quiet, Seen
<1>8. CASE nextBit < Bits /\ EndBits
  <2>1. ~ newData /\ stage # "seen"
    BY <1>3, <1>8, BitsAssumption DEF IInv, Waiting, Seen, TypeOK
  <2> QED
    BY <1>2, <1>3, <1>8, <2>1, BitsAssumption DEF EndBits
<1> QED
  BY <1>1, <1>4, <1>5, <1>6, <1>7, <1>8 DEF DetectCarrier, Bit

\* The edge of a repeat leaves what was read before.
LEMMA RepeatEffect ==
  ASSUME IInv, stage # "beacon", Edge("repeat")
  PROVE  /\ timed' /\ stage' \in {stage, "hit"}
         /\ nextBit' = Bits
         /\ stage' # "seen"
<1>1. PICK t \in Measured("repeat") : DetectCarrier(t)
  BY DEF Edge
<1>2. timed' /\ stage' = IF stage = "seen" THEN "hit" ELSE stage
  BY DEF Edge
<1>3. t \in {"gap", "repeat"}
  BY <1>1 DEF Measured
<1> QED
  BY <1>1, <1>2, <1>3, BitsAssumption
  DEF DetectCarrier, HearRepeat, EndBits, Bit, IInv, TypeOK

\* One more bit of a code whose bits so far are the first of c.
LEMMA ReadNext ==
  ASSUME NEW c \in Codes, NEW i \in 0..(Bits - 1)
  PROVE  [Read(c, i) EXCEPT ![i + 1] = c[i + 1]] = Read(c, i + 1)
<1> DEFINE old == Read(c, i)
           new == [old EXCEPT ![i + 1] = c[i + 1]]
<1>1. \A k \in 1..Bits : new[k] = Read(c, i + 1)[k]
  <2> SUFFICES ASSUME NEW k \in 1..Bits PROVE new[k] = Read(c, i + 1)[k]
    OBVIOUS
  <2>1. CASE k = i + 1
    BY <2>1 DEF Read
  <2>2. CASE k # i + 1
    <3>1. k <= i <=> k <= i + 1
      BY <2>2
    <3> QED
      BY <2>2, <3>1 DEF Read
  <2> QED
    BY <2>1, <2>2
<1>2. /\ new = [k \in 1..Bits |-> new[k]]
      /\ Read(c, i + 1) = [k \in 1..Bits |-> Read(c, i + 1)[k]]
  BY DEF Read
<1> HIDE DEF new
<1>3. new = Read(c, i + 1)
  BY <1>1, <1>2
<1> QED
  BY <1>3 DEF new

\* All its bits are the code.
LEMMA ReadAll ==
  ASSUME NEW c \in Codes
  PROVE  Read(c, Bits) = c
BY BitsAssumption, CodeBits DEF Read, Raw

\* No bit of it is an empty word.
LEMMA ReadNone ==
  ASSUME NEW c
  PROVE  Read(c, 0) = Zero
BY BitsAssumption DEF Read, Zero

\* The edge of bit e of a code c, of which those before are read if any is.
LEMMA BitEffect ==
  ASSUME IInv, stage # "beacon", air.kind = "code", air.edges > 0,
         Edge(air.code[air.edges])
  PROVE  /\ timed' /\ stage' \in {stage, "hit"}
         /\ stage' # "seen"
         /\ \/ nextBit' = Bits /\ UNCHANGED <<nextBit, raw, newData>>
            \/ /\ nextBit' = air.edges /\ raw' = Read(air.code, nextBit')
               /\ newData' = (air.edges = Bits)
               /\ stage' # "hit"
<1> DEFINE e == air.edges
           b == air.code[air.edges]
<1>1. PICK t \in Measured(b) : DetectCarrier(t)
  BY DEF Edge
<1>2. timed' /\ stage' = IF stage = "seen" THEN "hit" ELSE stage
  BY DEF Edge
<1>3. stage \notin {"beacon", "hit"}
  BY DEF Edge
<1>4. air.code \in Codes /\ e \in 1..Bits
  BY BitsAssumption DEF IInv, TypeOK, Air, Silence
<1>5. b \in Bit
  BY <1>4, CodeBits
<1>6. t \in {b, "gap"} /\ (timed => t = b)
  BY <1>1, <1>5 DEF Measured, Bit
<1>7. CASE nextBit = Bits
  <2>1. UNCHANGED <<raw, nextBit, newData>>
    BY <1>1, <1>5, <1>6, <1>7, BitsAssumption DEF DetectCarrier, Bit
  <2> QED
    BY <1>2, <1>7, <2>1
<1>8. CASE nextBit < Bits
  <2>1. timed /\ t = b
    BY <1>6, <1>8, BitsAssumption DEF IInv, Quiet, TypeOK
  <2>2. ~ newData /\ stage # "seen" /\ nextBit \in 0..(Bits - 1)
    BY <1>3, <1>8, BitsAssumption DEF IInv, Waiting, Seen, TypeOK
  <2>3. e = nextBit + 1 /\ raw = Read(air.code, nextBit)
    BY <1>4, <1>8 DEF IInv, Reading
  <2>4. ReadBit(b)
    BY <1>1, <1>5, <1>8, <2>1, BitsAssumption DEF DetectCarrier
  <2>5. nextBit' = e
    BY <2>3, <2>4 DEF ReadBit
  <2>6. raw' = Read(air.code, e)
    BY <1>4, <2>2, <2>3, <2>4, ReadNext DEF ReadBit
  <2>7. newData' = (nextBit = Bits - 1)
    BY <2>2, <2>4 DEF ReadBit, IInv, TypeOK
  <2>8. newData' = (e = Bits)
    BY <2>2, <2>3, <2>7, BitsAssumption
  <2> QED
    BY <1>2, <1>3, <2>2, <2>5, <2>6, <2>8
<1> QED
  BY <1>7, <1>8, BitsAssumption DEF IInv, TypeOK

\* The receiver starts with nothing read.
LEMMA InitInv == Init => IInv
BY InitTypes, BitsAssumption
DEF Init, IInv, Quiet, Reading, Passing, Waiting, Seen, Silence

\* While a beacon is sent the receiver hears nothing, whatever is on the air.
LEMMA DeafWhileSending ==
  ASSUME IInv, TypeOK', stage' = "beacon", UNCHANGED receiver
  PROVE  IInv'
BY DEF IInv, Quiet, Reading, Passing, Waiting, Seen, receiver

\* No step makes loop() wait for a code that was not sent.
LEMMA NextInv == IInv /\ [Next]_vars => IInv'
<1> SUFFICES ASSUME IInv, [Next]_vars PROVE IInv'
  OBVIOUS
<1>0. TypeOK /\ TypeOK'
  BY NextTypes DEF IInv
<1>1. CASE Poll
  BY <1>0, <1>1
  DEF Poll, IInv, Quiet, Reading, Passing, Waiting, Seen, receiver, history
<1>2. CASE Take
  BY <1>0, <1>2 DEF Take, IInv, Quiet, Reading, Passing, Waiting, Seen
<1>3. CASE EndPass
  BY <1>0, <1>3
  DEF EndPass, IInv, Quiet, Reading, Passing, Waiting, Seen, receiver, history
<1>4. CASE EnableSending
  BY <1>0, <1>4, DeafWhileSending DEF EnableSending
<1>5. CASE EnableReception
  BY <1>0, <1>5, BitsAssumption
  DEF EnableReception, IInv, Quiet, Reading, Passing, Waiting, Seen
<1>6. ASSUME NEW c \in Codes, StartCode(c) PROVE IInv'
  <2>1. CASE stage = "beacon"
    BY <1>0, <1>6, <2>1, DeafWhileSending DEF StartCode, Edge
  <2>2. CASE stage # "beacon"
    <3>1. air'.edges = 0 /\ held' = held /\ owed' = owed
      BY <1>6 DEF StartCode, history
    <3>2. /\ timed' /\ nextBit' \in {0, Bits} /\ stage' # "seen"
          /\ newData' => nextBit' = Bits /\ (held \/ raw' \in {owed, Zero})
          /\ stage' = "hit" => held \/ raw' \in {owed, Zero}
      BY <1>6, <2>2, GapEffect DEF StartCode
    <3> QED
      <4>0. Bits \in Nat /\ nextBit' \in Nat
        BY <3>2, BitsAssumption
      <4>1. nextBit' < Bits => nextBit' = 0
        BY <3>2, <4>0
      <4>2. Quiet' /\ Passing'
        BY <3>1, <3>2 DEF Quiet, Passing
      <4>3. Reading'
        BY <3>1, <4>1 DEF Reading
      <4>4. Waiting' /\ Seen'
        BY <3>1, <3>2 DEF Waiting, Seen
      <4> QED
        BY <1>0, <4>2, <4>3, <4>4 DEF IInv
  <2> QED
    BY <2>1, <2>2
<1>7. CASE Agc
  <2>1. CASE stage = "beacon"
    BY <1>0, <1>7, <2>1, DeafWhileSending DEF Agc, Edge
  <2>2. CASE stage # "beacon"
    <3>1. air'.edges = 1 /\ air'.code = air.code
      BY <1>0, <1>7 DEF Agc, TypeOK, Air, Silence
    <3>2. held' = held /\ owed' = owed
      BY <1>7 DEF Agc, history
    <3>3. /\ timed' /\ stage' # "seen"
          /\ nextBit' < Bits => nextBit' = 0 /\ raw' = Zero /\ ~ newData'
          /\ newData' => nextBit' = Bits /\ raw' = Zero
          /\ stage' = "hit" => held \/ raw' \in {owed, Zero}
      BY <1>7, <2>2, AgcEffect DEF Agc
    <3>4. Read(air.code, 0) = Zero
      BY ReadNone
    <3> QED
      BY <1>0, <3>1, <3>2, <3>3, <3>4
      DEF IInv, Quiet, Reading, Passing, Waiting, Seen
  <2> QED
    BY <2>1, <2>2
<1>8. CASE NextBitEdge
  <2>1. CASE stage = "beacon"
    BY <1>0, <1>8, <2>1, DeafWhileSending DEF NextBitEdge, Edge
  <2>2. CASE stage # "beacon"
    <3>1. air.kind = "code" /\ air.edges > 0 /\ Edge(air.code[air.edges])
      BY <1>8 DEF NextBitEdge
    <3>2. air.code \in Codes /\ air.edges \in 1..Bits
      BY <1>0, <3>1, BitsAssumption DEF TypeOK, Air, Silence
    <3>3. /\ timed' /\ stage' # "seen" /\ stage' \in {stage, "hit"}
          /\ \/ nextBit' = Bits /\ UNCHANGED <<nextBit, raw, newData>>
             \/ /\ nextBit' = air.edges /\ raw' = Read(air.code, nextBit')
                /\ newData' = (air.edges = Bits)
                /\ stage' # "hit"
      BY <2>2, <3>1, BitEffect
    <3>4. stage \notin {"beacon", "hit"}
      BY <2>2, <3>1 DEF Edge
    <3>5. stage' = "hit" => newData
      BY <3>1, <3>4 DEF Edge, IInv, Seen
    <3>6. CASE air.edges < Bits
      <4>1. ~ (air.edges = Bits)
        BY <3>6, BitsAssumption
      <4>2. /\ air' = [air EXCEPT !.edges = @ + 1]
            /\ held' = held /\ owed' = owed
        BY <1>8, <4>1 DEF NextBitEdge, history
      <4>3. air \in [kind : {"code"}, code : Codes, edges : 0..Bits]
        BY <1>0, <3>1 DEF TypeOK, Air, Silence
      <4>4. /\ air'.kind = "code" /\ air'.code = air.code
            /\ air'.edges = air.edges + 1
        BY <4>2, <4>3
      <4>5. newData' => UNCHANGED <<nextBit, raw, newData>>
        BY <3>3, <4>1
      <4>6. Quiet' /\ Reading'
        BY <3>3, <4>4, BitsAssumption DEF Quiet, Reading
      <4>7. Passing' /\ Waiting'
        BY <2>2, <3>1, <3>3, <4>2, <4>4, <4>5 DEF Passing, Waiting, IInv
      <4>8. Seen'
        BY <2>2, <3>3, <3>5, <4>2 DEF Seen, Waiting, IInv
      <4> QED
        BY <1>0, <4>6, <4>7, <4>8 DEF IInv
    <3>7. CASE air.edges = Bits
      <4>1. air'.kind = "silence" /\ owed' = air.code
        BY <1>8, <3>7, BitsAssumption DEF NextBitEdge, Silence
      <4>2. nextBit' = Bits
        BY <3>3, <3>7
      <4>3. Read(air.code, Bits) = air.code
        BY <3>2, ReadAll
      <4>4. newData' => raw' \in {owed', Zero}
        BY <3>1, <2>2, <3>3, <3>7, <4>1, <4>3 DEF IInv, Passing
      <4>5. stage' = "hit" => raw' = Zero
        BY <3>1, <2>2, <3>3, <3>5 DEF IInv, Passing
      <4> QED
        BY <1>0, <3>3, <4>1, <4>2, <4>4, <4>5
        DEF IInv, Quiet, Reading, Passing, Waiting, Seen
    <3> QED
      BY <3>2, <3>6, <3>7, BitsAssumption
  <2> QED
    BY <2>1, <2>2
<1>9. CASE StartRepeat
  <2>1. CASE stage = "beacon"
    BY <1>0, <1>9, <2>1, DeafWhileSending DEF StartRepeat, Edge
  <2>2. CASE stage # "beacon"
    <3>1. air'.kind = "repeat" /\ held' = held /\ owed' = owed
      BY <1>9 DEF StartRepeat, history
    <3>2. /\ timed' /\ stage' # "seen"
          /\ newData' => nextBit' = Bits /\ (held \/ raw' \in {owed, Zero})
          /\ stage' = "hit" => held \/ raw' \in {owed, Zero}
      BY <1>9, <2>2, GapEffect DEF StartRepeat
    <3> QED
      BY <1>0, <3>1, <3>2 DEF IInv, Quiet, Reading, Passing, Waiting, Seen
  <2> QED
    BY <2>1, <2>2
<1>10. CASE Repeat
  <2>1. CASE stage = "beacon"
    BY <1>0, <1>10, <2>1, DeafWhileSending DEF Repeat, Edge
  <2>2. CASE stage # "beacon"
    <3>1. air'.kind = "silence" /\ held'
      BY <1>10 DEF Repeat, Silence
    <3>2. timed' /\ stage' # "seen" /\ nextBit' = Bits
      BY <1>10, <2>2, RepeatEffect DEF Repeat
    <3> QED
      BY <1>0, <3>1, <3>2 DEF IInv, Quiet, Reading, Passing, Waiting, Seen
  <2> QED
    BY <2>1, <2>2
<1>11. CASE Cut
  BY <1>0, <1>11
  DEF Cut, Silence, IInv, Quiet, Reading, Passing, Waiting, Seen,
      receiver, history
<1>12. CASE UNCHANGED vars
  BY <1>0, <1>12
  DEF vars, IInv, Quiet, Reading, Passing, Waiting, Seen, receiver, history
<1> QED
  BY <1>1, <1>2, <1>3, <1>4, <1>5, <1>6, <1>7, <1>8, <1>9, <1>10, <1>11, <1>12
  DEF Next

\* What waits for loop() is always a code that was sent to its end, the empty
\* word, or what a repeat brought back.
THEOREM InfraredInvariance == Spec => []IInv
BY InitInv, NextInv, PTL DEF Spec

\* Only readNEC hands a code to loop(), and it hands raw32BitCode on.
LEMMA TakingIsTake ==
  ASSUME TypeOK, [Next]_vars, Taking
  PROVE  stage \in {"seen", "hit"} /\ code' = raw
<1>1. stage \in {"seen", "hit"} /\ stage' = "rest"
  BY DEF Taking
<1>2. ~ UNCHANGED vars
  BY <1>1 DEF vars
<1>3. ~ (Poll \/ EndPass \/ EnableSending \/ EnableReception \/ Cut)
  BY <1>1 DEF Poll, EndPass, EnableSending, EnableReception, Cut
<1>4. \A i : ~ Edge(i)
  BY <1>1 DEF Edge
<1>5. /\ \A c \in Codes : ~ StartCode(c)
      /\ ~ (Agc \/ NextBitEdge \/ StartRepeat \/ Repeat)
  BY <1>4 DEF StartCode, Agc, NextBitEdge, StartRepeat, Repeat
<1>6. Take
  BY <1>2, <1>3, <1>5 DEF Next
<1> QED
  BY <1>1, <1>6 DEF Take

\* For every length and set of codes: what loop() acts on was sent to its end, is
\* the last that was and is acted on once, unless a repeat came since
\* (readNEC and detectCarrier).
THEOREM OnlyCodesThatAreSent == Spec => CodesAreSent
<1>1. IInv /\ [Next]_vars =>
        [Taking => held \/ code' \in {owed, Zero}]_vars
  <2> SUFFICES ASSUME IInv, [Next]_vars, Taking
               PROVE  held \/ code' \in {owed, Zero}
    OBVIOUS
  <2>1. stage \in {"seen", "hit"} /\ code' = raw
    BY TakingIsTake DEF IInv
  <2> QED
    BY <2>1 DEF IInv, Waiting, Seen
<1> QED
  BY <1>1, InfraredInvariance, PTL DEF Spec, CodesAreSent
=============================================================================
