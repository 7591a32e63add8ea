--------------------------- MODULE DataFlowProofs ---------------------------
(***************************************************************************)
(* Proofs of the properties of DataFlow that hold for every patch: any     *)
(* number of nodes, inlets and ports, any links, modes and dials.          *)
(***************************************************************************)
EXTENDS DataFlow, PortsProofs

-----------------------------------------------------------------------------
(* Packets, calls and ports.                                               *)

\* What a packet holds.
LEMMA PacketFields ==
  ASSUME NEW p \in Packet
  PROVE  /\ p.type \in {"none", "UPDATE", "PULL"}
         /\ p.type = "UPDATE" => p.from \in Nodes /\ p.data \in Positions
         /\ p.type = "PULL" => p.from \in Nodes
         /\ p.type = "none" => p.from = NoNode
BY DEF Packet, NoMail

\* A call is one of data or of a pull to a node, or none.
LEMMA CallFields ==
  ASSUME NEW c \in Call
  PROVE  /\ c # NoCall => /\ c.type \in {"UPDATE", "PULL"}
                          /\ c.to \in Nodes
                          /\ c.left \in 0..Retries
         /\ (c = NoCall) <=> (c.to = NoNode)
         /\ (c = NoCall) <=> (c.type = "none")
         /\ c = NoCall => ~c.acked
         /\ c.acked \in BOOLEAN
<1>1. CASE c = NoCall
  BY <1>1, NoNodeAssumption DEF NoCall
<1>2. CASE c \in [type : {"UPDATE", "PULL"}, to : Nodes, left : 0..Retries,
                  acked : BOOLEAN]
  <2>1. /\ c.type \in {"UPDATE", "PULL"} /\ c.to \in Nodes
        /\ c.left \in 0..Retries /\ c.acked \in BOOLEAN
    BY <1>2
  <2>2. c.to # NoNode /\ c.type # "none"
    BY <2>1, NoNodeAssumption
  <2>3. c # NoCall
    BY <2>2 DEF NoCall
  <2>4. QED
    BY <2>1, <2>2, <2>3
<1>3. QED
  BY <1>1, <1>2 DEF Call

\* The ports of an outlet that hold a link.
LEMMA PortFields ==
  ASSUME NEW n \in Nodes
  PROVE  /\ OutPorts(n) \subseteq 1..FanOut
         /\ \A k \in OutPorts(n) : Outlet[n][k] \in Nodes
BY OutletAssumption DEF OutPorts, Images, Id

\* The packet of a round is a packet of that node and that type.
LEMMA PacketOfType ==
  ASSUME NEW n \in Nodes, NEW type \in {"UPDATE", "PULL"}, NEW data \in Positions
  PROVE  /\ PacketOf(n, type, data) \in Packet
         /\ PacketOf(n, type, data).from = n
         /\ PacketOf(n, type, data).type = type
         /\ type = "UPDATE" => PacketOf(n, type, data).data = data
BY DEF PacketOf, Packet

\* To transmit a packet may lose others, and puts that one nowhere but in the
\* radio of the node it is for.
LEMMA TransmitEffect ==
  ASSUME mail \in [Nodes -> Packet], NEW n \in Nodes, NEW to \in Nodes,
         NEW packet \in Packet, Transmit(n, to, packet)
  PROVE  /\ mail' \in [Nodes -> Packet]
         /\ \A m \in Nodes : \/ mail'[m] = mail[m]
                             \/ mail'[m] = NoMail
                             \/ m = to /\ mail'[m] = packet
<1>1. NoMail \in Packet
  BY DEF Packet
<1>2. QED
  BY <1>1 DEF Transmit

\* An acknowledgement changes nothing of a call but that it is acknowledged.
LEMMA AcknowledgeEffect ==
  ASSUME call \in [Nodes -> Call], NEW n \in Nodes, NEW s \in Nodes,
         Acknowledge(n, s)
  PROVE  /\ call' \in [Nodes -> Call]
         /\ \A c \in Nodes \ {s} : call'[c] = call[c]
         /\ call'[s].to = call[s].to /\ call'[s].type = call[s].type
         /\ call'[s].acked => call[s].acked \/ call[s].to = n
<1>1. CASE call[s].to = n /\ call' = [call EXCEPT ![s].acked = TRUE]
  <2>1. call[s] \in Call /\ call[s] # NoCall
    BY <1>1, NoNodeAssumption, CallFields
  <2>2. [call[s] EXCEPT !.acked = TRUE] \in Call
    BY <2>1 DEF Call
  <2>3. call' = [call EXCEPT ![s] = [call[s] EXCEPT !.acked = TRUE]]
    BY <1>1
  <2>4. [call[s] EXCEPT !.acked = TRUE].to = call[s].to
    BY <2>1 DEF Call
  <2>5. [call[s] EXCEPT !.acked = TRUE].type = call[s].type
    BY <2>1 DEF Call
  <2>6. QED
    BY <1>1, <2>2, <2>3, <2>4, <2>5
<1>2. CASE UNCHANGED call
  BY <1>2
<1>3. QED
  BY <1>1, <1>2 DEF Acknowledge

\* To call the child at port k.
LEMMA CallPortEffect ==
  ASSUME TypeOK, NEW n \in Nodes, NEW k \in OutPorts(n),
         NEW type \in {"UPDATE", "PULL"}, NEW data \in Positions,
         NEW ok \in BOOLEAN, CallPort(n, k, type, data, ok)
  PROVE  /\ mail' \in [Nodes -> Packet]
         /\ \A m \in Nodes :
              \/ mail'[m] = mail[m]
              \/ mail'[m] = NoMail
              \/ m = Outlet[n][k] /\ mail'[m] = PacketOf(n, type, data)
         /\ call' \in [Nodes -> Call]
         /\ round' \in [Nodes -> [port : 0..FanOut, ok : BOOLEAN]]
         /\ call'[n] = CallTo(Outlet[n][k], type)
         /\ round'[n] = [port |-> k, ok |-> ok]
         /\ \A c \in Nodes \ {n} : call'[c] = call[c] /\ round'[c] = round[c]
<1>1. k \in 1..FanOut /\ Outlet[n][k] \in Nodes
  BY PortFields
<1>2. FanOut \in Nat /\ Retries \in Nat
  BY FanOutAssumption, RetriesAssumption
<1>3. CallTo(Outlet[n][k], type) \in Call
  BY <1>1, <1>2 DEF CallTo, Call
<1>4. [port |-> k, ok |-> ok] \in [port : 0..FanOut, ok : BOOLEAN]
  BY <1>1, <1>2
<1>5. PacketOf(n, type, data) \in Packet
  BY PacketOfType
<1>6. mail \in [Nodes -> Packet] /\ call \in [Nodes -> Call]
      /\ round \in [Nodes -> [port : 0..FanOut, ok : BOOLEAN]]
  BY DEF TypeOK
<1>7. Transmit(n, Outlet[n][k], PacketOf(n, type, data))
  BY DEF CallPort
<1>8. /\ call' = [call EXCEPT ![n] = CallTo(Outlet[n][k], type)]
      /\ round' = [round EXCEPT ![n] = [port |-> k, ok |-> ok]]
  BY DEF CallPort
<1>9. /\ mail' \in [Nodes -> Packet]
      /\ \A m \in Nodes :
           \/ mail'[m] = mail[m]
           \/ mail'[m] = NoMail
           \/ m = Outlet[n][k] /\ mail'[m] = PacketOf(n, type, data)
  BY <1>1, <1>5, <1>6, <1>7, TransmitEffect
<1>10. QED
  BY <1>3, <1>4, <1>6, <1>8, <1>9

\* The end of a round, which makes the data of the outlet old if all answered.
LEMMA EndRoundEffect ==
  ASSUME TypeOK, NEW n \in Nodes, NEW ok \in BOOLEAN, EndRound(n, ok)
  PROVE  /\ mail' = mail
         /\ call' \in [Nodes -> Call]
         /\ round' \in [Nodes -> [port : 0..FanOut, ok : BOOLEAN]]
         /\ out' \in [Nodes -> Item]
         /\ latch' \in [Nodes -> BOOLEAN]
         /\ call'[n] = NoCall /\ round'[n] = NoRound
         /\ out'[n].data = out[n].data
         /\ out[n].new /\ ~out'[n].new => ok /\ call[n].type = "UPDATE"
         /\ \A c \in Nodes \ {n} :
              call'[c] = call[c] /\ round'[c] = round[c] /\ out'[c] = out[c]
<1> DEFINE used == call[n].type = "UPDATE" /\ ok
<1>1. /\ mail' = mail
      /\ call' = [call EXCEPT ![n] = NoCall]
      /\ round' = [round EXCEPT ![n] = NoRound]
      /\ out' = [out EXCEPT ![n].new = @ /\ ~used]
      /\ latch' = [latch EXCEPT ![n] = @ /\ ~used]
  BY DEF EndRound
<1>2. NoCall \in Call /\ NoRound \in [port : 0..FanOut, ok : BOOLEAN]
  BY FanOutAssumption DEF Call, NoRound
<1>3. /\ call \in [Nodes -> Call] /\ out \in [Nodes -> Item]
      /\ round \in [Nodes -> [port : 0..FanOut, ok : BOOLEAN]]
      /\ latch \in [Nodes -> BOOLEAN]
  BY DEF TypeOK
<1>4. out[n] \in Item /\ latch[n] \in BOOLEAN
  BY <1>3
<1>5. CASE used
  <2>1. out' = [out EXCEPT ![n] = [out[n] EXCEPT !.new = FALSE]]
    BY <1>1, <1>3, <1>4, <1>5 DEF Item
  <2>2. [out[n] EXCEPT !.new = FALSE] \in Item
        /\ [out[n] EXCEPT !.new = FALSE].data = out[n].data
    BY <1>4 DEF Item
  <2>3. latch' = [latch EXCEPT ![n] = FALSE]
    BY <1>1, <1>3, <1>4, <1>5
  <2> HIDE DEF used
  <2>4. QED
    BY <1>1, <1>2, <1>3, <2>1, <2>2, <2>3, <1>5 DEF used
<1>6. CASE ~used
  <2>1. out' = [out EXCEPT ![n] = [out[n] EXCEPT !.new = out[n].new]]
    BY <1>1, <1>3, <1>4, <1>6 DEF Item
  <2>2. [out[n] EXCEPT !.new = out[n].new] = out[n]
    BY <1>4 DEF Item
  <2>3. latch' = latch
    BY <1>1, <1>3, <1>4, <1>6
  <2> HIDE DEF used
  <2>4. QED
    BY <1>1, <1>2, <1>3, <1>4, <2>1, <2>2, <2>3
<1>7. QED
  BY <1>5, <1>6

\* After a call: either the next child is called, and no child lies between, or
\* the round was at its last child and is over.
LEMMA ProceedEffect ==
  ASSUME TypeOK, NEW n \in Nodes, ~Free(n), NEW ok \in BOOLEAN, Proceed(n, ok)
  PROVE  \/ /\ UNCHANGED <<out, latch>>
            /\ \E k \in OutPorts(n) :
                 /\ \A j \in OutPorts(n) : j < k => j =< round[n].port
                 /\ CallPort(n, k, call[n].type, out[n].data, ok)
         \/ /\ \A j \in OutPorts(n) : j =< round[n].port
            /\ EndRound(n, ok)
<1> DEFINE rest == {k \in OutPorts(n) : k > round[n].port}
<1>1. OutPorts(n) \subseteq Nat /\ round[n].port \in Nat
  BY PortFields, FanOutAssumption DEF TypeOK
<1>2. CASE /\ rest # {}
           /\ CallPort(n, Min(rest), call[n].type, out[n].data, ok)
           /\ UNCHANGED <<out, latch>>
  <2>1. rest \subseteq Nat
    BY <1>1
  <2>2. Min(rest) \in rest /\ \A j \in rest : Min(rest) =< j
    BY <1>2, <2>1, MinOfNaturals
  <2>3. Min(rest) \in OutPorts(n)
    BY <2>2
  <2>4. ASSUME NEW j \in OutPorts(n), j < Min(rest)
        PROVE  j =< round[n].port
    BY <1>1, <2>2, <2>3, <2>4
  <2> HIDE DEF rest
  <2>5. QED
    BY <1>2, <2>3, <2>4
<1>3. CASE rest = {} /\ EndRound(n, ok)
  BY <1>1, <1>3
<1>4. QED
  BY <1>2, <1>3 DEF Proceed

\* The first port of an outlet with links.
LEMMA FirstPort ==
  ASSUME NEW n \in Nodes, OutPorts(n) # {}
  PROVE  /\ Min(OutPorts(n)) \in OutPorts(n)
         /\ \A j \in OutPorts(n) : Min(OutPorts(n)) =< j
<1>1. OutPorts(n) \subseteq Nat
  BY PortFields, FanOutAssumption
<1>2. QED
  BY <1>1, MinOfNaturals

\* The outlet holds the item or, if it was new to no child, the item used.
LEMMA SendEffect ==
  ASSUME TypeOK, NEW n \in Nodes, NEW item \in Item, Send(n, item)
  PROVE  /\ out' \in [Nodes -> Item]
         /\ latch' \in [Nodes -> BOOLEAN]
         /\ \A c \in Nodes \ {n} : out'[c] = out[c]
         /\ out'[n].data = item.data
         /\ ~out'[n].new => ~item.new \/ OutPorts(n) = {}
         /\ \/ UNCHANGED <<mail, call, round>>
            \/ /\ OutPorts(n) # {}
               /\ CallPort(n, Min(OutPorts(n)), "UPDATE", item.data, TRUE)
<1>1. /\ out \in [Nodes -> Item] /\ latch \in [Nodes -> BOOLEAN]
  BY DEF TypeOK
<1>2. [item EXCEPT !.new = FALSE] \in Item
      /\ [item EXCEPT !.new = FALSE].data = item.data
  BY DEF Item
<1>3. CASE out' = [out EXCEPT ![n] = item] /\ UNCHANGED <<mail, call, round, latch>>
  BY <1>1, <1>3
<1>4. CASE /\ ~item.new \/ OutPorts(n) = {}
           /\ out' = [out EXCEPT ![n] = [item EXCEPT !.new = FALSE]]
           /\ latch' = [latch EXCEPT ![n] = FALSE]
           /\ UNCHANGED <<mail, call, round>>
  BY <1>1, <1>2, <1>4
<1>5. CASE /\ item.new /\ OutPorts(n) # {}
           /\ out' = [out EXCEPT ![n] = item]
           /\ CallPort(n, Min(OutPorts(n)), "UPDATE", item.data, TRUE)
           /\ UNCHANGED latch
  BY <1>1, <1>5
<1>6. QED
  BY <1>3, <1>4, <1>5 DEF Send

\* What compute() makes of the data is an item, and it is new unless it is what
\* the outlet held.
LEMMA ComputeEffect ==
  ASSUME TypeOK, NEW n \in Nodes, NEW reading \in Positions
  PROVE  /\ Compute(n, reading) \in Item
         /\ Compute(n, reading).new \/ Compute(n, reading) = out[n]
<1>1. out[n] \in Item /\ inbox[n] \in [Inlets -> Item]
  BY DEF TypeOK
<1>2. CASE n \in Dials
  BY <1>2 DEF Compute, Item
<1>3. CASE n \notin Dials /\ NewAt(n) = {}
  BY <1>1, <1>3 DEF Compute
<1>4. CASE n \notin Dials /\ NewAt(n) # {}
  <2>1. NewAt(n) \subseteq Nat
    BY NumInletsAssumption DEF NewAt, Inlets
  <2>2. Min(NewAt(n)) \in Inlets
    BY <1>4, <2>1, MinOfNaturals DEF NewAt
  <2>3. inbox[n][Min(NewAt(n))].data \in Positions
    BY <1>1, <2>2 DEF Item
  <2>4. QED
    BY <1>4, <2>3 DEF Compute, Item
<1>5. QED
  BY <1>2, <1>3, <1>4

\* Used data are data.
LEMMA UsedType ==
  ASSUME TypeOK, NEW n \in Nodes
  PROVE  Used(n) \in [Inlets -> Item]
<1>1. \A i \in Inlets : inbox[n][i] \in Item
  BY DEF TypeOK
<1>2. \A i \in Inlets : [inbox[n][i] EXCEPT !.new = FALSE] \in Item
  BY <1>1 DEF Item
<1>3. QED
  BY <1>2 DEF Used

-----------------------------------------------------------------------------
(* Types.                                                                  *)

\* The steps of one node keep the types.
LEMMA TypeStep == TypeOK /\ [Next]_vars => TypeOK'
<1> SUFFICES ASSUME TypeOK, [Next]_vars
             PROVE  TypeOK'
  OBVIOUS
<1> USE DEF gluon, user
<1>1. /\ mail \in [Nodes -> Packet]
      /\ call \in [Nodes -> Call]
      /\ inbox \in [Nodes -> [Inlets -> Item]]
      /\ out \in [Nodes -> Item]
      /\ stage \in [Nodes -> {"start", "shaken", "banged", "received"}]
      /\ latch \in [Nodes -> BOOLEAN]
      /\ round \in [Nodes -> [port : 0..FanOut, ok : BOOLEAN]]
      /\ dial \in [Nodes -> Positions]
      /\ sensor \in [Nodes -> Positions]
      /\ touches \in 0..MaxTouches
      /\ heard \in [Nodes -> [Nodes -> Positions]]
  BY DEF TypeOK
<1>2. NoMail \in Packet /\ MaxTouches \in Nat /\ FanOut \in Nat
  BY MaxTouchesAssumption, FanOutAssumption DEF Packet
<1>3. ASSUME NEW n \in Nodes, NEW ok \in BOOLEAN, ~Free(n), Proceed(n, ok)
      PROVE  TypeOK'
  <2>1. call[n].type \in {"UPDATE", "PULL"} /\ out[n].data \in Positions
    BY <1>1, <1>3, CallFields DEF Free, Item
  <2>2. UNCHANGED <<inbox, stage, user, sensor, heard>>
    BY <1>3 DEF Proceed
  <2>3. CASE \E k \in OutPorts(n) : CallPort(n, k, call[n].type, out[n].data, ok)
             /\ UNCHANGED <<out, latch>>
    <3>1. /\ mail' \in [Nodes -> Packet] /\ call' \in [Nodes -> Call]
          /\ round' \in [Nodes -> [port : 0..FanOut, ok : BOOLEAN]]
      BY <1>3, <2>1, <2>3, CallPortEffect
    <3>2. QED
      BY <1>1, <2>2, <2>3, <3>1 DEF TypeOK
  <2>4. CASE EndRound(n, ok)
    BY <1>1, <1>3, <2>2, <2>4, EndRoundEffect DEF TypeOK
  <2>5. QED
    BY <1>3, <2>3, <2>4, ProceedEffect
<1>4. ASSUME NEW n \in Nodes, Answered(n)
      PROVE  TypeOK'
  <2>1. ~Free(n) /\ round[n].ok \in BOOLEAN
    BY <1>1, <1>4, CallFields DEF Answered, Free
  <2>2. QED
    BY <1>3, <1>4, <2>1 DEF Answered
<1>5. ASSUME NEW n \in Nodes, Unanswered(n)
      PROVE  TypeOK'
  BY <1>3, <1>5 DEF Unanswered, TimedOut
<1>6. ASSUME NEW n \in Nodes, Retry(n)
      PROVE  TypeOK'
  <2>1. /\ call[n].type \in {"UPDATE", "PULL"} /\ call[n].to \in Nodes
        /\ call[n].left \in 0..Retries /\ call[n].left > 0
        /\ out[n].data \in Positions
    BY <1>1, <1>6, CallFields DEF Retry, TimedOut, Free, Item
  <2>2. mail' \in [Nodes -> Packet]
    BY <1>1, <1>6, <2>1, PacketOfType, TransmitEffect DEF Retry
  <2>3. call[n] \in [type : {"UPDATE", "PULL"}, to : Nodes, left : 0..Retries,
                     acked : BOOLEAN]
    BY <1>1, <1>6 DEF Retry, TimedOut, Free, Call
  <2>4. [call[n] EXCEPT !.left = @ - 1] \in Call
    BY <2>1, <2>3, RetriesAssumption DEF Call
  <2>5. call' \in [Nodes -> Call]
    BY <1>1, <1>6, <2>4 DEF Retry
  <2>6. QED
    BY <1>1, <1>6, <2>2, <2>5 DEF Retry, TypeOK
<1>7. ASSUME NEW n \in Nodes, Shake(n)
      PROVE  TypeOK'
  <2>1. OutPorts(n) # {} /\ out[n].data \in Positions
    BY <1>1, <1>7 DEF Shake, Item
  <2>2. Min(OutPorts(n)) \in OutPorts(n)
    BY <2>1, FirstPort
  <2>3. CallPort(n, Min(OutPorts(n)), "PULL", out[n].data, TRUE)
    BY <1>7 DEF Shake
  <2>4. /\ mail' \in [Nodes -> Packet] /\ call' \in [Nodes -> Call]
        /\ round' \in [Nodes -> [port : 0..FanOut, ok : BOOLEAN]]
    BY <2>1, <2>2, <2>3, CallPortEffect
  <2>5. /\ touches' \in 0..MaxTouches
        /\ stage' \in [Nodes -> {"start", "shaken", "banged", "received"}]
        /\ UNCHANGED <<inbox, out, latch, dial, sensor, heard>>
    BY <1>1, <1>2, <1>7 DEF Shake
  <2>6. QED
    BY <1>1, <2>4, <2>5 DEF TypeOK
<1>8. ASSUME NEW n \in Nodes, ReceiveUpdate(n)
      PROVE  TypeOK'
  <2>1. mail[n].type = "UPDATE"
    BY <1>8 DEF ReceiveUpdate, Read
  <2>2. mail[n].from \in Nodes /\ mail[n].data \in Positions
    BY <1>1, <2>1, PacketFields
  <2>3. call' \in [Nodes -> Call]
    BY <1>1, <1>8, <2>2, AcknowledgeEffect DEF ReceiveUpdate
  <2>4. mail' \in [Nodes -> Packet]
    BY <1>1, <1>2, <1>8 DEF ReceiveUpdate, Read
  <2>5. [data |-> mail[n].data, new |-> TRUE] \in Item
    BY <2>2 DEF Item
  <2>6. inbox' \in [Nodes -> [Inlets -> Item]]
    BY <1>1, <1>8, <2>5 DEF ReceiveUpdate
  <2>7. heard' \in [Nodes -> [Nodes -> Positions]]
    BY <1>1, <1>8, <2>2 DEF ReceiveUpdate
  <2>8. stage' \in [Nodes -> {"start", "shaken", "banged", "received"}]
        /\ UNCHANGED <<out, latch, round, user, sensor>>
    BY <1>1, <1>8 DEF ReceiveUpdate
  <2>9. QED
    BY <1>1, <2>3, <2>4, <2>6, <2>7, <2>8 DEF TypeOK
<1>9. ASSUME NEW n \in Nodes, ReceivePull(n)
      PROVE  TypeOK'
  <2>1. mail[n].type = "PULL"
    BY <1>9 DEF ReceivePull, Read
  <2>2. mail[n].from \in Nodes
    BY <1>1, <2>1, PacketFields
  <2>3. call' \in [Nodes -> Call]
    BY <1>1, <1>9, <2>2, AcknowledgeEffect DEF ReceivePull
  <2>4. mail' \in [Nodes -> Packet]
    BY <1>1, <1>2, <1>9 DEF ReceivePull, Read
  <2>5. stage' \in [Nodes -> {"start", "shaken", "banged", "received"}]
        /\ UNCHANGED <<inbox, out, latch, round, user, sensor, heard>>
    BY <1>1, <1>9 DEF ReceivePull
  <2>6. QED
    BY <1>1, <2>3, <2>4, <2>5 DEF TypeOK
<1>10. ASSUME NEW n \in Nodes, Work(n)
       PROVE  TypeOK'
  <2> DEFINE event == n \in Dials /\ dial[n] # sensor[n]
             bang  == Bang(n, event)
             item  == IF bang THEN Compute(n, dial[n]) ELSE out[n]
  <2>1. item \in Item
    BY <1>1, ComputeEffect
  <2>2. Send(n, item)
    BY <1>10 DEF Work
  <2>3. inbox' = [inbox EXCEPT ![n] = IF bang THEN Used(n) ELSE inbox[n]]
    BY <1>10 DEF Work
  <2>4. inbox' \in [Nodes -> [Inlets -> Item]]
    BY <1>1, <2>3, UsedType
  <2>5. sensor' \in [Nodes -> Positions]
        /\ stage' \in [Nodes -> {"start", "shaken", "banged", "received"}]
        /\ UNCHANGED <<user, heard>>
    BY <1>1, <1>10 DEF Work
  <2> HIDE DEF item
  <2>6. out' \in [Nodes -> Item] /\ latch' \in [Nodes -> BOOLEAN]
    BY <2>1, <2>2, SendEffect
  <2>7. CASE UNCHANGED <<mail, call, round>>
    BY <1>1, <2>4, <2>5, <2>6, <2>7 DEF TypeOK
  <2>8. CASE /\ OutPorts(n) # {}
             /\ CallPort(n, Min(OutPorts(n)), "UPDATE", item.data, TRUE)
    <3>1. Min(OutPorts(n)) \in OutPorts(n) /\ item.data \in Positions
      BY <2>1, <2>8, FirstPort DEF Item
    <3>2. /\ mail' \in [Nodes -> Packet] /\ call' \in [Nodes -> Call]
          /\ round' \in [Nodes -> [port : 0..FanOut, ok : BOOLEAN]]
      BY <2>8, <3>1, CallPortEffect
    <3>3. QED
      BY <1>1, <2>4, <2>5, <2>6, <3>2 DEF TypeOK
  <2>9. QED
    BY <2>1, <2>2, <2>7, <2>8, SendEffect
<1>11. ASSUME NEW n \in Nodes, OpenLatch(n)
       PROVE  TypeOK'
  BY <1>1, <1>11 DEF OpenLatch, TypeOK
<1>12. ASSUME NEW n \in Nodes, Turn(n)
       PROVE  TypeOK'
  BY <1>1, <1>2, <1>12 DEF Turn, TypeOK
<1>13. ASSUME NEW n \in Nodes, ForceBang(n)
       PROVE  TypeOK'
  <2>1. Compute(n, sensor[n]) \in Item /\ Used(n) \in [Inlets -> Item]
    BY <1>1, ComputeEffect, UsedType
  <2>2. /\ out' \in [Nodes -> Item] /\ inbox' \in [Nodes -> [Inlets -> Item]]
        /\ stage' \in [Nodes -> {"start", "shaken", "banged", "received"}]
        /\ touches' \in 0..MaxTouches
        /\ UNCHANGED <<mail, call, latch, round, dial, sensor, heard>>
    BY <1>1, <1>2, <1>13, <2>1 DEF ForceBang
  <2>3. QED
    BY <1>1, <2>2 DEF TypeOK
<1>14. ASSUME NEW n \in Nodes, Overhear(n)
       PROVE  TypeOK'
  BY <1>1, <1>2, <1>14 DEF Overhear, TypeOK
<1>15. CASE UNCHANGED vars
  BY <1>1, <1>15 DEF vars, TypeOK
<1>16. QED
  BY <1>4, <1>5, <1>6, <1>7, <1>8, <1>9, <1>10, <1>11, <1>12, <1>13, <1>14, <1>15
     DEF Next

\* A gluon that is switched on has the types.
LEMMA InitType == Init => TypeOK
<1>1. NoMail \in Packet /\ NoCall \in Call
  BY DEF Packet, Call
<1>2. NoRound \in [port : 0..FanOut, ok : BOOLEAN] /\ 0 \in 0..MaxTouches
  BY FanOutAssumption, MaxTouchesAssumption DEF NoRound
<1>3. [data |-> Start, new |-> FALSE] \in Item /\ Start \in Positions
  BY StartAssumption DEF Item
<1> SUFFICES ASSUME Init
             PROVE  TypeOK
  OBVIOUS
<1>4. mail \in [Nodes -> Packet] /\ call \in [Nodes -> Call]
  BY <1>1 DEF Init
<1>5. inbox \in [Nodes -> [Inlets -> Item]] /\ out \in [Nodes -> Item]
  BY <1>3 DEF Init
<1>6. /\ round \in [Nodes -> [port : 0..FanOut, ok : BOOLEAN]]
      /\ touches \in 0..MaxTouches
  BY <1>2 DEF Init
<1>7. /\ stage \in [Nodes -> {"start", "shaken", "banged", "received"}]
      /\ latch \in [Nodes -> BOOLEAN]
      /\ dial \in [Nodes -> Positions]
      /\ sensor \in [Nodes -> Positions]
      /\ heard \in [Nodes -> [Nodes -> Positions]]
  BY <1>3 DEF Init
<1>8. QED
  BY <1>4, <1>5, <1>6, <1>7 DEF TypeOK

\* Every variable keeps the shape the code gives it, whatever the patch: no
\* round leaves the ports of the outlet, and no wait has retries it was not given.
THEOREM FlowTypes == Spec => []TypeOK
BY InitType, TypeStep, PTL DEF Spec

-----------------------------------------------------------------------------
(* The rounds of one node n, as long as no node reads its radio late.      *)

HasHeard(m, n) == heard[m][n] = out[n].data

\* A node that is in a call calls the child at the port that it serves.
CallsItsPort(n) ==
  /\ Free(n) => round[n].port = 0
  /\ ~Free(n) => /\ round[n].port \in OutPorts(n)
                 /\ call[n].to = Outlet[n][round[n].port]

\* A packet of n that nobody has read yet belongs to the call n is in: no packet
\* outlives its call.
PacketOfCall(n) ==
  \A m \in Nodes :
    mail[m].from = n => /\ call[n].to = m /\ ~call[n].acked
                        /\ mail[m].type = call[n].type
                        /\ mail[m].type = "UPDATE" => mail[m].data = out[n].data

\* In a round of data the child that acknowledged has the data, and so have all
\* children before it if the round is still answered.
ServedSoFar(n) ==
  call[n].type = "UPDATE" =>
    /\ call[n].acked => HasHeard(call[n].to, n)
    /\ round[n].ok => \A k \in OutPorts(n) :
                        k < round[n].port => HasHeard(Outlet[n][k], n)

\* Old data have arrived everywhere.
OldIsHeard(n) == ~out[n].new => \A m \in Children(n) : HasHeard(m, n)

RoundInv(n) ==
  CallsItsPort(n) /\ PacketOfCall(n) /\ ServedSoFar(n) /\ OldIsHeard(n)

FlowInv == TypeOK /\ \A n \in Nodes : RoundInv(n)

\* What a node does that concerns neither the calls, the data nor the packets of
\* c leaves its rounds alone, though packets of c may be lost.
LEMMA Bystander ==
  ASSUME TypeOK, NEW c \in Nodes, RoundInv(c),
         call'[c] = call[c], round'[c] = round[c], out'[c] = out[c],
         \A m \in Nodes : heard'[m][c] = heard[m][c],
         \A m \in Nodes : mail'[m] = mail[m] \/ mail'[m].from # c
  PROVE  RoundInv(c)'
<1>1. CallsItsPort(c)'
  BY DEF RoundInv, CallsItsPort, Free
<1>2. PacketOfCall(c)'
  BY DEF RoundInv, PacketOfCall
<1>3. \A k \in OutPorts(c) : Outlet[c][k] \in Nodes
  BY PortFields
<1>4. call[c].type = "UPDATE" => call[c].to \in Nodes
  BY CallFields DEF TypeOK, NoCall
<1>5. ServedSoFar(c)'
  BY <1>3, <1>4 DEF RoundInv, ServedSoFar, HasHeard
<1>6. OldIsHeard(c)'
  BY <1>3 DEF RoundInv, OldIsHeard, HasHeard, Children
<1>7. QED
  BY <1>1, <1>2, <1>5, <1>6 DEF RoundInv

\* No packet of n is on its way when n calls nobody, when its call was
\* acknowledged, and when the wait is over and nobody is late.
LEMMA NothingOnItsWay ==
  ASSUME FlowInv, "late" \notin Events, NEW n \in Nodes,
         Free(n) \/ call[n].acked \/ TimedOut(n)
  PROVE  \A m \in Nodes : mail[m].from # n
<1> SUFFICES ASSUME NEW m \in Nodes, mail[m].from = n
             PROVE  FALSE
  OBVIOUS
<1>1. call[n].to = m /\ ~call[n].acked
  BY DEF FlowInv, RoundInv, PacketOfCall
<1>2. CASE Free(n)
  BY <1>1, <1>2, NoNodeAssumption DEF Free, NoCall
<1>3. CASE call[n].acked
  BY <1>1, <1>3
<1>4. CASE TimedOut(n)
  BY <1>1, <1>4 DEF TimedOut
<1>5. QED
  BY <1>2, <1>3, <1>4

\* A call starts a round or goes on with it: the children before that port have
\* the data, if the round is still answered.
LEMMA NextCall ==
  ASSUME FlowInv, NEW n \in Nodes, NEW k \in OutPorts(n),
         NEW type \in {"UPDATE", "PULL"}, NEW data \in Positions,
         NEW ok \in BOOLEAN, CallPort(n, k, type, data, ok),
         heard' = heard, out'[n].data = data, OldIsHeard(n)',
         \A c \in Nodes \ {n} : out'[c] = out[c],
         \A m \in Nodes : mail[m].from # n,
         type = "UPDATE" /\ ok =>
           \A j \in OutPorts(n) : j < k => heard[Outlet[n][j]][n] = data
  PROVE  \A c \in Nodes : RoundInv(c)'
<1>1. TypeOK
  BY DEF FlowInv
<1>2. /\ \A m \in Nodes :
           \/ mail'[m] = mail[m]
           \/ mail'[m] = NoMail
           \/ m = Outlet[n][k] /\ mail'[m] = PacketOf(n, type, data)
      /\ call'[n] = CallTo(Outlet[n][k], type)
      /\ round'[n] = [port |-> k, ok |-> ok]
      /\ \A c \in Nodes \ {n} : call'[c] = call[c] /\ round'[c] = round[c]
  BY <1>1, CallPortEffect
<1>3. /\ PacketOf(n, type, data).from = n
      /\ PacketOf(n, type, data).type = type
      /\ type = "UPDATE" => PacketOf(n, type, data).data = data
  BY PacketOfType
<1>4. NoMail.from \notin Nodes
  BY NoNodeAssumption DEF NoMail
<1>5. Outlet[n][k] \in Nodes /\ k \in 1..FanOut
  BY PortFields
<1>6. ASSUME NEW c \in Nodes \ {n}
      PROVE  RoundInv(c)'
  <2>1. \A m \in Nodes : mail'[m] = mail[m] \/ mail'[m].from # c
    BY <1>2, <1>3, <1>4
  <2>2. RoundInv(c)
    BY DEF FlowInv
  <2>3. QED
    BY <1>1, <1>2, <2>1, <2>2, Bystander
<1>7. RoundInv(n)'
  <2>1. /\ call'[n].to = Outlet[n][k] /\ call'[n].type = type
        /\ ~call'[n].acked /\ ~Free(n)'
        /\ round'[n].port = k /\ round'[n].ok = ok
    BY <1>2, <1>5, NoNodeAssumption DEF CallTo, Free, NoCall
  <2>2. CallsItsPort(n)'
    BY <2>1 DEF CallsItsPort
  <2>3. PacketOfCall(n)'
    BY <1>2, <1>3, <1>4, <2>1 DEF PacketOfCall
  <2>4. ServedSoFar(n)'
    BY <2>1 DEF ServedSoFar, HasHeard
  <2>5. QED
    BY <2>2, <2>3, <2>4 DEF RoundInv
<1>8. QED
  BY <1>6, <1>7

\* After a call that was answered, or whose wait is over, the round goes on.
LEMMA RoundProceeds ==
  ASSUME FlowInv, "late" \notin Events, NEW n \in Nodes, ~Free(n),
         call[n].acked \/ TimedOut(n), NEW ok \in BOOLEAN,
         ok => round[n].ok /\ call[n].acked, Proceed(n, ok)
  PROVE  \A c \in Nodes : RoundInv(c)'
<1>1. TypeOK /\ RoundInv(n)
  BY DEF FlowInv
<1>2. \A m \in Nodes : mail[m].from # n
  BY NothingOnItsWay
<1>3. /\ call[n].type \in {"UPDATE", "PULL"} /\ call[n].to \in Nodes
      /\ out[n] \in Item /\ out[n].data \in Positions
  BY <1>1, CallFields DEF TypeOK, Free, Item
<1>4. /\ round[n].port \in OutPorts(n)
      /\ call[n].to = Outlet[n][round[n].port]
      /\ OutPorts(n) \subseteq Nat
  BY <1>1, PortFields, FanOutAssumption DEF RoundInv, CallsItsPort
<1>5. ASSUME ok, call[n].type = "UPDATE", NEW j \in OutPorts(n), j =< round[n].port
      PROVE  heard[Outlet[n][j]][n] = out[n].data
  <2>1. CASE j < round[n].port
    BY <1>1, <1>5, <2>1 DEF RoundInv, ServedSoFar, HasHeard
  <2>2. CASE j = round[n].port
    BY <1>1, <1>4, <1>5, <2>2 DEF RoundInv, ServedSoFar, HasHeard
  <2>3. QED
    BY <1>4, <1>5, <2>1, <2>2
<1>6. heard' = heard
  BY DEF Proceed
<1>7. CASE /\ UNCHANGED <<out, latch>>
           /\ \E k \in OutPorts(n) :
                /\ \A j \in OutPorts(n) : j < k => j =< round[n].port
                /\ CallPort(n, k, call[n].type, out[n].data, ok)
  <2>1. PICK k \in OutPorts(n) :
          /\ \A j \in OutPorts(n) : j < k => j =< round[n].port
          /\ CallPort(n, k, call[n].type, out[n].data, ok)
    BY <1>7
  <2>2. OldIsHeard(n)'
    BY <1>1, <1>6, <1>7 DEF RoundInv, OldIsHeard, HasHeard
  <2>3. call[n].type = "UPDATE" /\ ok =>
          \A j \in OutPorts(n) : j < k => heard[Outlet[n][j]][n] = out[n].data
    BY <1>5, <2>1
  <2>4. QED
    BY <1>2, <1>3, <1>6, <1>7, <2>1, <2>2, <2>3, NextCall
<1>8. CASE /\ \A j \in OutPorts(n) : j =< round[n].port
           /\ EndRound(n, ok)
  <2>1. /\ mail' = mail /\ call'[n] = NoCall /\ round'[n] = NoRound
        /\ out'[n].data = out[n].data
        /\ out[n].new /\ ~out'[n].new => ok /\ call[n].type = "UPDATE"
        /\ \A c \in Nodes \ {n} :
             call'[c] = call[c] /\ round'[c] = round[c] /\ out'[c] = out[c]
    BY <1>1, <1>8, EndRoundEffect
  <2>2. ASSUME NEW c \in Nodes \ {n}
        PROVE  RoundInv(c)'
    <3>1. RoundInv(c)
      BY DEF FlowInv
    <3>2. QED
      BY <1>1, <1>6, <2>1, <3>1, Bystander
  <2>3. CallsItsPort(n)'
    BY <2>1 DEF CallsItsPort, Free, NoRound
  <2>4. PacketOfCall(n)'
    BY <1>2, <2>1 DEF PacketOfCall
  <2>5. ServedSoFar(n)'
    BY <2>1 DEF ServedSoFar, NoCall
  <2>6. OldIsHeard(n)'
    <3>1. CASE out[n].new /\ ~out'[n].new
      BY <1>5, <1>6, <1>8, <2>1, <3>1 DEF OldIsHeard, HasHeard, Children
    <3>2. CASE ~out[n].new
      BY <1>1, <1>6, <2>1, <3>2 DEF RoundInv, OldIsHeard, HasHeard
    <3>3. QED
      BY <3>1, <3>2 DEF OldIsHeard
  <2>7. QED
    BY <2>2, <2>3, <2>4, <2>5, <2>6 DEF RoundInv
<1>9. QED
  BY <1>1, <1>7, <1>8, ProceedEffect

\* A packet that is read and acknowledged is the one of the call of its sender,
\* and brings the data that the sender holds.
LEMMA PacketRead ==
  ASSUME FlowInv, NEW n \in Nodes, NEW type \in {"UPDATE", "PULL"},
         Read(n, type), Acknowledge(n, mail[n].from), UNCHANGED <<out, round>>,
         type = "PULL" => heard' = heard,
         type = "UPDATE" =>
           heard' = [heard EXCEPT ![n][mail[n].from] = mail[n].data]
  PROVE  \A c \in Nodes : RoundInv(c)'
<1>1. TypeOK
  BY DEF FlowInv
<1>2. mail[n].from \in Nodes /\ mail[n].type = type
  BY <1>1, PacketFields DEF TypeOK, Read
<1>3. PICK s \in Nodes : s = mail[n].from
  BY <1>2
<1>4. RoundInv(s)
  BY <1>2 DEF FlowInv
<1>5. /\ call[s].to = n /\ call[s].type = type
      /\ type = "UPDATE" => mail[n].data = out[s].data
      /\ \A m \in Nodes \ {n} : mail[m].from # s
  BY <1>2, <1>3, <1>4 DEF RoundInv, PacketOfCall
<1>6. /\ \A c \in Nodes \ {s} : call'[c] = call[c]
      /\ call'[s].to = n /\ call'[s].type = type
      /\ call' \in [Nodes -> Call]
  BY <1>1, <1>2, <1>3, <1>5, AcknowledgeEffect DEF TypeOK
<1>7. /\ mail'[n] = NoMail /\ NoMail.from \notin Nodes
      /\ \A m \in Nodes \ {n} : mail'[m] = mail[m]
  BY <1>1, NoNodeAssumption DEF Read, TypeOK, NoMail
<1>8. /\ \A m, c \in Nodes : c # s => heard'[m][c] = heard[m][c]
      /\ \A m \in Nodes : heard'[m][s] = heard[m][s] \/ heard'[m][s] = out[s].data
      /\ type = "UPDATE" => heard'[n][s] = out[s].data
  <2>1. CASE type = "PULL"
    BY <2>1
  <2>2. CASE type = "UPDATE"
    <3>1. heard' = [heard EXCEPT ![n][s] = out[s].data]
      BY <1>3, <1>5, <2>2
    <3>2. heard \in [Nodes -> [Nodes -> Positions]]
      BY <1>1 DEF TypeOK
    <3>3. QED
      BY <2>2, <3>1, <3>2
  <2>3. QED
    BY <2>1, <2>2
<1>9. ASSUME NEW c \in Nodes \ {s}
      PROVE  RoundInv(c)'
  <2>1. RoundInv(c)
    BY DEF FlowInv
  <2>2. \A m \in Nodes : mail'[m] = mail[m] \/ mail'[m].from # c
    BY <1>7
  <2>3. QED
    BY <1>1, <1>6, <1>8, <2>1, <2>2, Bystander
<1>10. RoundInv(s)'
  <2>1. /\ ~Free(s) /\ ~Free(s)'
    BY <1>1, <1>2, <1>5, <1>6, NoNodeAssumption, CallFields DEF Free, NoCall
  <2>2. CallsItsPort(s)'
    BY <1>4, <1>5, <1>6, <2>1 DEF RoundInv, CallsItsPort
  <2>3. PacketOfCall(s)'
    BY <1>2, <1>5, <1>7 DEF PacketOfCall
  <2>4. \A k \in OutPorts(s) : Outlet[s][k] \in Nodes
    BY <1>2, PortFields
  <2>5. ServedSoFar(s)'
    BY <1>4, <1>5, <1>6, <1>8, <2>4 DEF RoundInv, ServedSoFar, HasHeard
  <2>6. OldIsHeard(s)'
    BY <1>4, <1>8, <2>4 DEF RoundInv, OldIsHeard, HasHeard, Children
  <2>7. QED
    BY <2>2, <2>3, <2>5, <2>6 DEF RoundInv
<1>11. QED
  BY <1>9, <1>10

\* A node that is in no call may change the data of its outlet, if it makes them
\* new or leaves them as they are.
LEMMA NewData ==
  ASSUME FlowInv, "late" \notin Events, NEW n \in Nodes, Free(n),
         UNCHANGED <<mail, call, round, heard>>,
         \A c \in Nodes \ {n} : out'[c] = out[c], OldIsHeard(n)'
  PROVE  \A c \in Nodes : RoundInv(c)'
<1>1. TypeOK
  BY DEF FlowInv
<1>2. ASSUME NEW c \in Nodes \ {n}
      PROVE  RoundInv(c)'
  <2>1. RoundInv(c)
    BY DEF FlowInv
  <2>2. QED
    BY <1>1, <2>1, Bystander
<1>3. \A m \in Nodes : mail[m].from # n
  BY NothingOnItsWay
<1>4. CallsItsPort(n)'
  BY DEF FlowInv, RoundInv, CallsItsPort, Free
<1>5. PacketOfCall(n)'
  BY <1>3 DEF PacketOfCall
<1>6. ServedSoFar(n)'
  BY DEF ServedSoFar, Free, NoCall
<1>7. QED
  BY <1>2, <1>4, <1>5, <1>6 DEF RoundInv

\* The steps of one node keep the rounds of all nodes.
LEMMA FlowStep == "late" \notin Events /\ FlowInv /\ [Next]_vars => FlowInv'
<1> SUFFICES ASSUME "late" \notin Events, FlowInv, [Next]_vars
             PROVE  FlowInv'
  OBVIOUS
<1> USE DEF gluon, user
<1>1. TypeOK /\ TypeOK'
  BY TypeStep DEF FlowInv
<1>2. \A n \in Nodes : RoundInv(n)
  BY DEF FlowInv
<1>3. SUFFICES \A c \in Nodes : RoundInv(c)'
  BY <1>1 DEF FlowInv
<1>4. ASSUME NEW n \in Nodes, Answered(n)
      PROVE  \A c \in Nodes : RoundInv(c)'
  <2>1. ~Free(n) /\ round[n].ok \in BOOLEAN /\ call[n].acked
    BY <1>1, <1>4, CallFields DEF Answered, Free, TypeOK
  <2>2. QED
    BY <1>4, <2>1, RoundProceeds DEF Answered
<1>5. ASSUME NEW n \in Nodes, Unanswered(n)
      PROVE  \A c \in Nodes : RoundInv(c)'
  BY <1>5, RoundProceeds DEF Unanswered, TimedOut
<1>6. ASSUME NEW n \in Nodes, Retry(n)
      PROVE  \A c \in Nodes : RoundInv(c)'
  <2>1. /\ call[n].type \in {"UPDATE", "PULL"} /\ call[n].to \in Nodes
        /\ out[n].data \in Positions /\ call[n] # NoCall /\ ~call[n].acked
    BY <1>1, <1>6, CallFields DEF TypeOK, Retry, TimedOut, Free, Item
  <2> DEFINE packet == PacketOf(n, call[n].type, out[n].data)
  <2>2. /\ packet \in Packet /\ packet.from = n /\ packet.type = call[n].type
        /\ packet.type = "UPDATE" => packet.data = out[n].data
    BY <2>1, PacketOfType
  <2>3. \A m \in Nodes : \/ mail'[m] = mail[m]
                         \/ mail'[m] = NoMail
                         \/ m = call[n].to /\ mail'[m] = packet
    BY <1>1, <1>6, <2>1, <2>2, TransmitEffect DEF TypeOK, Retry
  <2> HIDE DEF packet
  <2>4. NoMail.from \notin Nodes
    BY NoNodeAssumption DEF NoMail
  <2>5. \A m \in Nodes : mail[m].from # n
    BY <1>6, NothingOnItsWay DEF Retry
  <2>6. /\ call'[n].to = call[n].to /\ call'[n].type = call[n].type
        /\ call'[n].acked = call[n].acked
        /\ \A c \in Nodes \ {n} : call'[c] = call[c]
        /\ UNCHANGED <<out, round, heard>>
    <3>1. call[n] \in [type : {"UPDATE", "PULL"}, to : Nodes, left : 0..Retries,
                       acked : BOOLEAN]
      BY <1>1, <2>1 DEF TypeOK, Call
    <3>2. call'[n] = [call[n] EXCEPT !.left = @ - 1]
      BY <1>1, <1>6 DEF TypeOK, Retry
    <3>3. QED
      BY <1>1, <1>6, <3>1, <3>2 DEF TypeOK, Retry
  <2>7. ASSUME NEW c \in Nodes \ {n}
        PROVE  RoundInv(c)'
    <3>1. \A m \in Nodes : mail'[m] = mail[m] \/ mail'[m].from # c
      BY <2>2, <2>3, <2>4
    <3>2. QED
      BY <1>1, <1>2, <2>6, <3>1, Bystander
  <2>8. ~Free(n) /\ ~Free(n)'
    BY <2>1, <2>6, NoNodeAssumption DEF Free, NoCall
  <2>9. CallsItsPort(n)'
    BY <1>2, <2>6, <2>8 DEF RoundInv, CallsItsPort
  <2>10. PacketOfCall(n)'
    BY <2>1, <2>2, <2>3, <2>4, <2>5, <2>6 DEF PacketOfCall
  <2>11. ServedSoFar(n)' /\ OldIsHeard(n)'
    BY <1>2, <2>1, <2>6 DEF RoundInv, ServedSoFar, OldIsHeard, HasHeard
  <2>12. QED
    BY <2>7, <2>9, <2>10, <2>11 DEF RoundInv
<1>7. ASSUME NEW n \in Nodes, Shake(n)
      PROVE  \A c \in Nodes : RoundInv(c)'
  <2>1. /\ Free(n) /\ OutPorts(n) # {} /\ UNCHANGED <<out, heard>>
        /\ CallPort(n, Min(OutPorts(n)), "PULL", out[n].data, TRUE)
    BY <1>7 DEF Shake
  <2>2. Min(OutPorts(n)) \in OutPorts(n)
    BY <2>1, FirstPort
  <2>3. OldIsHeard(n)'
    BY <1>2, <2>1 DEF RoundInv, OldIsHeard, HasHeard
  <2>4. out[n].data \in Positions /\ \A m \in Nodes : mail[m].from # n
    BY <1>1, <2>1, NothingOnItsWay DEF TypeOK, Item
  <2>5. QED
    BY <2>1, <2>2, <2>3, <2>4, NextCall
<1>8. ASSUME NEW n \in Nodes, ReceiveUpdate(n)
      PROVE  \A c \in Nodes : RoundInv(c)'
  BY <1>8, PacketRead DEF ReceiveUpdate
<1>9. ASSUME NEW n \in Nodes, ReceivePull(n)
      PROVE  \A c \in Nodes : RoundInv(c)'
  BY <1>9, PacketRead DEF ReceivePull
<1>10. ASSUME NEW n \in Nodes, Work(n)
       PROVE  \A c \in Nodes : RoundInv(c)'
  <2> DEFINE event == n \in Dials /\ dial[n] # sensor[n]
             item  == IF Bang(n, event) THEN Compute(n, dial[n]) ELSE out[n]
  <2>1. item \in Item /\ (item.new \/ item = out[n])
    BY <1>1, ComputeEffect DEF TypeOK
  <2>2. Free(n) /\ Send(n, item) /\ heard' = heard
    BY <1>10 DEF Work
  <2> HIDE DEF item
  <2>3. /\ \A c \in Nodes \ {n} : out'[c] = out[c]
        /\ out'[n].data = item.data
        /\ ~out'[n].new => ~item.new \/ OutPorts(n) = {}
        /\ \/ UNCHANGED <<mail, call, round>>
           \/ /\ OutPorts(n) # {}
              /\ CallPort(n, Min(OutPorts(n)), "UPDATE", item.data, TRUE)
    BY <1>1, <2>1, <2>2, SendEffect
  <2>4. OldIsHeard(n)'
    BY <1>2, <2>1, <2>2, <2>3 DEF RoundInv, OldIsHeard, HasHeard, Children
  <2>5. CASE UNCHANGED <<mail, call, round>>
    BY <2>2, <2>3, <2>4, <2>5, NewData
  <2>6. CASE /\ OutPorts(n) # {}
             /\ CallPort(n, Min(OutPorts(n)), "UPDATE", item.data, TRUE)
    <3>1. /\ Min(OutPorts(n)) \in OutPorts(n)
          /\ \A j \in OutPorts(n) : ~(j < Min(OutPorts(n)))
      BY <2>6, FirstPort, PortFields, FanOutAssumption
    <3>2. item.data \in Positions /\ \A m \in Nodes : mail[m].from # n
      BY <2>1, <2>2, NothingOnItsWay DEF Item
    <3>3. QED
      BY <2>2, <2>3, <2>4, <2>6, <3>1, <3>2, NextCall
  <2>7. QED
    BY <2>3, <2>5, <2>6
<1>11. ASSUME NEW n \in Nodes, OpenLatch(n) \/ Turn(n)
       PROVE  \A c \in Nodes : RoundInv(c)'
  BY <1>1, <1>2, <1>11, Bystander DEF OpenLatch, Turn
<1>12. ASSUME NEW n \in Nodes, ForceBang(n)
       PROVE  \A c \in Nodes : RoundInv(c)'
  <2> DEFINE item == Compute(n, sensor[n])
  <2>1. item \in Item /\ (item.new \/ item = out[n])
    BY <1>1, ComputeEffect DEF TypeOK
  <2>2. Free(n) /\ UNCHANGED <<mail, call, round, heard>>
        /\ out' = [out EXCEPT ![n] = item]
    BY <1>12 DEF ForceBang
  <2> HIDE DEF item
  <2>3. out'[n] = item /\ \A c \in Nodes \ {n} : out'[c] = out[c]
    BY <1>1, <2>2 DEF TypeOK
  <2>4. OldIsHeard(n)'
    BY <1>2, <2>1, <2>2, <2>3 DEF RoundInv, OldIsHeard, HasHeard
  <2>5. QED
    BY <2>2, <2>3, <2>4, NewData
<1>13. ASSUME NEW n \in Nodes, Overhear(n)
       PROVE  \A c \in Nodes : RoundInv(c)'
  <2>1. /\ \A m \in Nodes : mail'[m] = mail[m] \/ mail'[m] = NoMail
        /\ UNCHANGED <<call, out, round, heard>>
    BY <1>1, <1>13 DEF TypeOK, Overhear
  <2>2. NoMail.from \notin Nodes
    BY NoNodeAssumption DEF NoMail
  <2>3. QED
    BY <1>1, <1>2, <2>1, <2>2, Bystander
<1>14. CASE UNCHANGED vars
  BY <1>1, <1>2, <1>14, Bystander DEF vars
<1>15. QED
  BY <1>4, <1>5, <1>6, <1>7, <1>8, <1>9, <1>10, <1>11, <1>12, <1>13, <1>14 DEF Next

\* A gluon that is switched on has rounds in order.
LEMMA InitFlow == Init => FlowInv
<1> SUFFICES ASSUME Init
             PROVE  FlowInv
  OBVIOUS
<1>1. ASSUME NEW n \in Nodes
      PROVE  RoundInv(n)
  <2>1. CallsItsPort(n) /\ ServedSoFar(n)
    BY DEF Init, CallsItsPort, ServedSoFar, Free, NoCall, NoRound
  <2>2. PacketOfCall(n)
    BY NoNodeAssumption DEF Init, PacketOfCall, NoMail
  <2>3. OldIsHeard(n)
    BY PortFields DEF Init, OldIsHeard, HasHeard, Children
  <2>4. QED
    BY <2>1, <2>2, <2>3 DEF RoundInv
<1>2. QED
  BY <1>1, InitType DEF FlowInv

\* A gluon with nothing new to send has brought its last data to every child, for
\* every patch and whatever packets and acknowledgements are lost, as long as no
\* gluon answers a call that is over.
THEOREM DataArrive ==
  ASSUME "late" \notin Events
  PROVE  Spec => []DeliveredWhenClear
<1>1. FlowInv /\ [Next]_vars => FlowInv'
  BY FlowStep
<1>2. FlowInv => DeliveredWhenClear
  BY DEF FlowInv, RoundInv, OldIsHeard, HasHeard, DeliveredWhenClear
<1>3. QED
  BY <1>1, <1>2, InitFlow, PTL DEF Spec

\* Under the same condition a call that is reported as sent was received; with a
\* late answer it need not be, as DataFlow's runs show.
THEOREM SentIsReceived ==
  ASSUME "late" \notin Events
  PROVE  Spec => []SentMeansReceived
<1>1. FlowInv /\ [Next]_vars => FlowInv'
  BY FlowStep
<1>2. FlowInv => SentMeansReceived
  BY DEF FlowInv, RoundInv, ServedSoFar, HasHeard, SentMeansReceived
<1>3. QED
  BY <1>1, <1>2, InitFlow, PTL DEF Spec

-----------------------------------------------------------------------------
(* What the gluons show when nothing is under way.                         *)

\* New data of an inlet are the last that some sender of it was heard to send.
Taken(n) ==
  \A i \in Inlets :
    inbox[n][i].new => \E s \in Senders[n][i] : inbox[n][i].data = heard[n][s]

\* A relay with nothing new in its inlets holds the last data of one of its senders.
Relayed(n) ==
  n \notin Dials /\ NewAt(n) = {} /\ Parents(n) # {}
    => \E s \in Parents(n) : out[n].data = heard[n][s]

\* A dial whose sensor is on holds what the sensor read.
Dialled(n) == n \in Dials /\ "sensor" \in Modes[n] => out[n].data = sensor[n]

ShownInv == \A n \in Nodes : Taken(n) /\ Relayed(n) /\ Dialled(n)

\* The step of another node changes nothing of it, nor do calls and packets.
LEMMA ShownOn ==
  ASSUME NEW n \in Nodes, Taken(n), Relayed(n), Dialled(n),
         inbox'[n] = inbox[n], heard'[n] = heard[n], sensor'[n] = sensor[n],
         out'[n].data = out[n].data
  PROVE  (Taken(n) /\ Relayed(n) /\ Dialled(n))'
BY DEF Taken, Relayed, Dialled, NewAt

\* compute() with the data of the inlets, which are used then.
LEMMA ShownComputed ==
  ASSUME TypeOK, NEW n \in Nodes, Taken(n), Relayed(n),
         NEW reading, inbox'[n] = Used(n), heard'[n] = heard[n],
         out'[n].data = Compute(n, reading).data
  PROVE  /\ Taken(n)' /\ Relayed(n)'
         /\ n \in Dials => out'[n].data = reading
<1>1. \A i \in Inlets : ~inbox'[n][i].new
  BY DEF TypeOK, Used, Item
<1>2. Taken(n)'
  BY <1>1 DEF Taken
<1>3. n \in Dials => out'[n].data = reading
  BY DEF Compute
<1>4. Relayed(n)'
  <2> SUFFICES ASSUME n \notin Dials, Parents(n) # {}
               PROVE  \E s \in Parents(n) : out'[n].data = heard'[n][s]
    BY DEF Relayed
  <2>1. CASE NewAt(n) = {}
    <3>1. out'[n].data = out[n].data
      BY <2>1 DEF Compute
    <3> QED
      BY <2>1, <3>1 DEF Relayed
  <2>2. CASE NewAt(n) # {}
    <3>1. NewAt(n) \subseteq Nat
      BY NumInletsAssumption DEF NewAt, Inlets
    <3>2. Min(NewAt(n)) \in NewAt(n)
      BY <2>2, <3>1, MinOfNaturals
    <3>3. out'[n].data = inbox[n][Min(NewAt(n))].data
      BY <2>2 DEF Compute
    <3>4. PICK s \in Senders[n][Min(NewAt(n))] : inbox[n][Min(NewAt(n))].data = heard[n][s]
      BY <3>2 DEF Taken, NewAt
    <3>5. s \in Parents(n)
      BY <3>2, <3>4 DEF Parents, NewAt
    <3> QED
      BY <3>3, <3>4, <3>5
  <2> QED
    BY <2>1, <2>2
<1> QED
  BY <1>2, <1>3, <1>4

\* A packet with data goes to the one inlet that its sender feeds.
LEMMA ShownReceived ==
  ASSUME FlowInv, NEW n \in Nodes, Taken(n), ReceiveUpdate(n)
  PROVE  Taken(n)' /\ Relayed(n)'
<1>1. TypeOK
  BY DEF FlowInv
<1>2. mail[n].type = "UPDATE" /\ mail[n].from \in Nodes
  BY <1>1, PacketFields DEF ReceiveUpdate, Read, TypeOK
<1>3. PICK s \in Nodes : s = mail[n].from
  BY <1>2
<1>4. s \in Nodes /\ call[s].to = n
  BY <1>2, <1>3 DEF FlowInv, RoundInv, PacketOfCall
<1>5. ~Free(s)
  BY <1>4, NoNodeAssumption DEF Free, NoCall
<1>6. Names(Outlet[s], n)
  <2>1. round[s].port \in OutPorts(s) /\ Outlet[s][round[s].port] = n
    BY <1>3, <1>4, <1>5 DEF FlowInv, RoundInv, CallsItsPort
  <2>2. round[s].port \in DOMAIN Outlet[s]
    BY <1>4, <2>1, PortFields, OutletAssumption DEF Images
  <2> QED
    BY <2>1, <2>2 DEF Names
<1>7. FedBy(n, s) # {} /\ \A i, j \in FedBy(n, s) : i = j
  BY <1>4, <1>6, PatchAssumption
<1>8. PICK k : FedBy(n, s) = {k}
  BY <1>7
<1>9. FedBy(n, s) \subseteq Nat
  BY NumInletsAssumption DEF FedBy, Inlets
<1>10. Min(FedBy(n, s)) = k /\ k \in Inlets /\ s \in Senders[n][k]
  BY <1>7, <1>8, <1>9, MinOfNaturals DEF FedBy
<1>11. /\ inbox' = [inbox EXCEPT ![n][k] = [data |-> mail[n].data, new |-> TRUE]]
       /\ heard' = [heard EXCEPT ![n][s] = mail[n].data]
  BY <1>3, <1>10 DEF ReceiveUpdate
<1>12. /\ inbox \in [Nodes -> [Inlets -> Item]]
       /\ heard \in [Nodes -> [Nodes -> Positions]]
  BY <1>1 DEF TypeOK
<1>13. /\ inbox'[n][k].new /\ inbox'[n][k].data = heard'[n][s]
       /\ \A i \in Inlets \ {k} : inbox'[n][i] = inbox[n][i]
       /\ \A c \in Nodes \ {s} : heard'[n][c] = heard[n][c]
  BY <1>10, <1>11, <1>12
<1>14. Taken(n)'
  <2>1. \A i \in Inlets \ {k} : s \notin Senders[n][i]
    BY <1>8 DEF FedBy
  <2>2. \A i \in Inlets : Senders[n][i] \subseteq Nodes
    BY SendersAssumption
  <2> QED
    BY <1>10, <1>13, <2>1, <2>2 DEF Taken
<1>15. Relayed(n)'
  BY <1>10, <1>13 DEF Relayed, NewAt
<1> QED
  BY <1>14, <1>15

\* Every step keeps what the gluons show.
LEMMA ShownStep == FlowInv /\ ShownInv /\ [Next]_vars => ShownInv'
<1> SUFFICES ASSUME FlowInv, ShownInv, [Next]_vars, NEW m \in Nodes
             PROVE  (Taken(m) /\ Relayed(m) /\ Dialled(m))'
  BY DEF ShownInv
<1> USE DEF gluon, user
<1>1. TypeOK /\ TypeOK'
  BY TypeStep DEF FlowInv
<1>2. Taken(m) /\ Relayed(m) /\ Dialled(m)
  BY DEF ShownInv
<1>3. UNCHANGED <<inbox, heard, sensor>> /\ out'[m].data = out[m].data
        => (Taken(m) /\ Relayed(m) /\ Dialled(m))'
  BY <1>2, ShownOn
<1>4. ASSUME NEW n \in Nodes, Answered(n) \/ Unanswered(n)
      PROVE  (Taken(m) /\ Relayed(m) /\ Dialled(m))'
  <2>1. PICK ok \in BOOLEAN : Proceed(n, ok)
    BY <1>1, <1>4 DEF Answered, Unanswered, TypeOK
  <2>2. ~Free(n)
    <3>1. ~NoCall.acked
      BY DEF NoCall
    <3>2. CASE Answered(n)
      BY <3>1, <3>2 DEF Answered, Free
    <3>3. CASE Unanswered(n)
      BY <3>3 DEF Unanswered, TimedOut, Free
    <3> QED
      BY <1>4, <3>2, <3>3
  <2>3. UNCHANGED <<inbox, heard, sensor>>
    BY <2>1 DEF Proceed
  <2>4. out'[m].data = out[m].data
    <3>1. out' = out \/ EndRound(n, ok)
      BY <1>1, <2>1, <2>2, ProceedEffect
    <3>2. EndRound(n, ok) => out'[m].data = out[m].data
      BY <1>1, EndRoundEffect
    <3> QED
      BY <3>1, <3>2
  <2> QED
    BY <1>3, <2>3, <2>4
<1>5. ASSUME NEW n \in Nodes,
             Retry(n) \/ Shake(n) \/ ReceivePull(n) \/ OpenLatch(n) \/ Turn(n) \/ Overhear(n)
      PROVE  (Taken(m) /\ Relayed(m) /\ Dialled(m))'
  BY <1>3, <1>5 DEF Retry, Shake, ReceivePull, OpenLatch, Turn, Overhear
<1>6. ASSUME NEW n \in Nodes, ReceiveUpdate(n)
      PROVE  (Taken(m) /\ Relayed(m) /\ Dialled(m))'
  <2>1. UNCHANGED <<out, sensor>>
    BY <1>6 DEF ReceiveUpdate
  <2>2. CASE m = n
    <3>1. Taken(m)' /\ Relayed(m)'
      BY <1>2, <1>6, <2>2, ShownReceived
    <3> QED
      BY <1>2, <2>1, <3>1 DEF Dialled
  <2>3. CASE m # n
    <3>1. inbox'[m] = inbox[m] /\ heard'[m] = heard[m]
      BY <1>1, <1>6, <2>3 DEF ReceiveUpdate, TypeOK
    <3> QED
      BY <1>2, <2>1, <3>1, ShownOn
  <2> QED
    BY <2>2, <2>3
<1>7. ASSUME NEW n \in Nodes, Work(n)
      PROVE  (Taken(m) /\ Relayed(m) /\ Dialled(m))'
  <2> DEFINE event == n \in Dials /\ dial[n] # sensor[n]
             item  == IF Bang(n, event) THEN Compute(n, dial[n]) ELSE out[n]
  <2>1. /\ Send(n, item) /\ heard' = heard
        /\ inbox' = [inbox EXCEPT ![n] = IF Bang(n, event) THEN Used(n) ELSE inbox[n]]
        /\ sensor' = [sensor EXCEPT ![n] = dial[n]]
    BY <1>7 DEF Work
  <2>2. item \in Item
    BY <1>1, ComputeEffect DEF TypeOK
  <2>3. /\ \A c \in Nodes \ {n} : out'[c] = out[c]
        /\ out'[n].data = item.data
    <3> HIDE DEF item
    <3> QED
      BY <1>1, <2>1, <2>2, SendEffect
  <2>4. CASE m # n
    <3>1. inbox'[m] = inbox[m] /\ heard'[m] = heard[m] /\ sensor'[m] = sensor[m]
      BY <1>1, <2>1, <2>4 DEF TypeOK
    <3> QED
      BY <1>2, <2>3, <2>4, <3>1, ShownOn
  <2>5. CASE m = n /\ Bang(n, event)
    <3>1. /\ inbox'[m] = Used(m) /\ heard'[m] = heard[m] /\ sensor'[m] = dial[m]
          /\ out'[m].data = Compute(m, dial[m]).data
      BY <1>1, <2>1, <2>3, <2>5 DEF TypeOK
    <3>2. /\ Taken(m)' /\ Relayed(m)'
          /\ m \in Dials => out'[m].data = dial[m]
      BY <1>1, <1>2, <3>1, ShownComputed
    <3> QED
      BY <3>1, <3>2 DEF Dialled
  <2>6. CASE m = n /\ ~Bang(n, event)
    <3>1. /\ inbox'[m] = inbox[m] /\ heard'[m] = heard[m] /\ sensor'[m] = dial[m]
          /\ out'[m].data = out[m].data
      BY <1>1, <2>1, <2>3, <2>6 DEF TypeOK
    <3>2. m \in Dials /\ "sensor" \in Modes[m] => dial[m] = sensor[m]
      BY <2>6 DEF Bang
    <3>3. Taken(m)' /\ Relayed(m)'
      BY <1>2, <3>1 DEF Taken, Relayed, NewAt
    <3>4. Dialled(m)'
      BY <1>2, <3>1, <3>2 DEF Dialled
    <3> QED
      BY <3>3, <3>4
  <2> QED
    BY <2>4, <2>5, <2>6
<1>8. ASSUME NEW n \in Nodes, ForceBang(n)
      PROVE  (Taken(m) /\ Relayed(m) /\ Dialled(m))'
  <2>1. /\ heard' = heard /\ sensor' = sensor
        /\ inbox' = [inbox EXCEPT ![n] = Used(n)]
        /\ out' = [out EXCEPT ![n] = Compute(n, sensor[n])]
    BY <1>8 DEF ForceBang
  <2>2. CASE m # n
    <3>1. inbox'[m] = inbox[m] /\ out'[m] = out[m]
      BY <1>1, <2>1, <2>2 DEF TypeOK
    <3> QED
      BY <1>2, <2>1, <3>1, ShownOn
  <2>3. CASE m = n
    <3>1. inbox'[m] = Used(m) /\ out'[m].data = Compute(m, sensor[m]).data
      BY <1>1, <2>1, <2>3 DEF TypeOK
    <3>2. /\ Taken(m)' /\ Relayed(m)'
          /\ m \in Dials => out'[m].data = sensor[m]
      BY <1>1, <1>2, <2>1, <3>1, ShownComputed
    <3> QED
      BY <2>1, <3>2 DEF Dialled
  <2> QED
    BY <2>2, <2>3
<1>9. CASE UNCHANGED vars
  BY <1>3, <1>9 DEF vars
<1> QED
  BY <1>4, <1>5, <1>6, <1>7, <1>8, <1>9 DEF Next

\* Gluons that are switched on show the start.
LEMMA InitShown == Init => ShownInv
<1> SUFFICES ASSUME Init, NEW n \in Nodes
             PROVE  Taken(n) /\ Relayed(n) /\ Dialled(n)
  BY DEF ShownInv
<1>1. Parents(n) \subseteq Nodes
  BY SendersAssumption DEF Parents
<1> QED
  BY <1>1 DEF Init, Taken, Relayed, Dialled

\* What the network shows when it is quiet is right, gluon by gluon: every relay
\* shows what one of the gluons that feed it shows, and a dial its position. It holds
\* for every patch, update mode and loss, as long as nobody answers too late.
THEOREM QuietRelaysAgree ==
  ASSUME "late" \notin Events
  PROVE  Spec => []QuietIsShown
<1>1. FlowInv /\ ShownInv /\ [Next]_vars => (FlowInv /\ ShownInv)'
  BY FlowStep, ShownStep
<1>2. FlowInv /\ ShownInv => QuietIsShown
  <2> SUFFICES ASSUME FlowInv, ShownInv PROVE QuietIsShown
    OBVIOUS
  <2>1. ASSUME NEW n \in Nodes \ Dials, NewAt(n) = {}, Parents(n) # {},
               \A s \in Parents(n) : ~out[s].new
        PROVE  \E s \in Parents(n) : out[n].data = out[s].data
    <3>1. PICK s \in Parents(n) : out[n].data = heard[n][s]
      BY <2>1 DEF ShownInv, Relayed
    <3>2. s \in Nodes /\ FedBy(n, s) # {}
      BY SendersAssumption DEF Parents, FedBy
    <3>3. Names(Outlet[s], n)
      BY <3>2, PatchAssumption
    <3>4. n \in Children(s)
      BY <3>2, <3>3, OutletAssumption, NoNodeAssumption
      DEF Names, Children, OutPorts, Images
    <3>5. heard[n][s] = out[s].data
      BY <2>1, <3>2, <3>4 DEF FlowInv, RoundInv, OldIsHeard, HasHeard
    <3> QED
      BY <3>1, <3>5
  <2>2. ASSUME NEW n \in Dials, "sensor" \in Modes[n]
        PROVE  out[n].data = sensor[n]
    BY <2>2, DialsAssumption DEF ShownInv, Dialled
  <2> QED
    BY <2>1, <2>2, Zenon DEF QuietIsShown
<1>3. Init => FlowInv /\ ShownInv
  BY InitFlow, InitShown
<1> QED
  BY <1>1, <1>2, <1>3, PTL DEF Spec
=============================================================================
