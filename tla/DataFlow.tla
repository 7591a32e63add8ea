------------------------------ MODULE DataFlow ------------------------------
(***************************************************************************)
(* How data go from gluon to gluon along their links (NodeClass.cpp:       *)
(* Node::update, sendNewDataMessageRF, sendMessageToChildren; Inlet.cpp:   *)
(* update; BaseLogic.cpp: update).                                         *)
(*                                                                         *)
(* In each pass of loop() a gluon may first tell its children that it was  *)
(* shaken, then reads one packet, its sensor, and computes if its update   *)
(* mode says so; if the last send is long enough ago it sends the data of  *)
(* its outlet, if they are new, to one child after the other, in a round   *)
(* of calls that block it.                                                 *)
(*                                                                         *)
(* The links do not change here.  What GluonLinks shows of them is assumed *)
(* (PatchAssumption): both ends agree, and a sender feeds one inlet.       *)
(***************************************************************************)
EXTENDS Radio

CONSTANTS
  NumInlets,   \* inlets of a gluon
  FanOut,      \* ports of the outlet, MAX_FAN_OUT
  Outlet,      \* Outlet[n]: the node at each port of the outlet of n
  Senders,     \* Senders[n][i]: the nodes with a link to inlet i of n
  Modes,       \* Modes[n]: the update modes of n that are on
  Dials,       \* the nodes that are dials (logicN3); the others relay (logicN2)
  Positions,   \* the positions of a dial, which are the data it sends
  Start,       \* the one it is in when it is switched on
  MaxTouches   \* bound: how often somebody touches some node

Inlets == 1..NumInlets

\* Besides what the radio may do:
\* "bang":   somebody presses FORCE_BANG on the IR remote control
\* "shake":  somebody shakes a node
AllEvents == RadioEvents \cup {"bang", "shake"}

AllModes == {"sensor", "first", "any", "synch", "periodic"}

ASSUME NumInletsAssumption == NumInlets \in Nat \ {0}
ASSUME FanOutAssumption == FanOut \in Nat \ {0}
ASSUME EventsAssumption == Events \subseteq AllEvents
ASSUME OutletAssumption == Outlet \in [Nodes -> Images(FanOut)]
ASSUME SendersAssumption == Senders \in [Nodes -> [Inlets -> SUBSET Nodes]]
ASSUME ModesAssumption == Modes \in [Nodes -> SUBSET AllModes]
ASSUME DialsAssumption == Dials \subseteq Nodes
ASSUME StartAssumption == Start \in Positions
ASSUME MaxTouchesAssumption == MaxTouches \in Nat

\* The inlets of n that s feeds.
FedBy(n, s) == {i \in Inlets : s \in Senders[n][i]}

\* The nodes that feed n.
Parents(n) == UNION {Senders[n][i] : i \in Inlets}

ASSUME PatchAssumption ==
  \A n \in Nodes :
    /\ ~Names(Outlet[n], n)
    /\ \A s \in Nodes : /\ Names(Outlet[s], n) <=> FedBy(n, s) # {}
                        /\ \A i, j \in FedBy(n, s) : i = j

VARIABLES
  inbox,    \* inbox[n][i]: the data of inlet i and whether they are new
  out,      \* out[n]: the same for the outlet
  stage,    \* stage[n]: how far n is in the pass of loop()
  latch,    \* latch[n]: the last send is longer ago than minPeriodLatch
  round,    \* round[n]: the port being served, and whether all before answered
  dial,     \* dial[n]: the position of the dial
  sensor,   \* sensor[n]: the position that n read last
  touches,  \* how often somebody touched a node
  heard     \* heard[n][s]: history: the data that n last took from s

gluon == <<inbox, out, stage, latch>>
user  == <<dial, touches>>
vars  == <<mail, call, gluon, round, user, sensor, heard>>

Item    == [data : Positions, new : BOOLEAN]
NoRound == [port |-> 0, ok |-> TRUE]

Packet ==
  {NoMail} \cup [type : {"UPDATE"}, from : Nodes, data : Positions]
           \cup [type : {"PULL"}, from : Nodes]

Call ==
  {NoCall} \cup [type : {"UPDATE", "PULL"}, to : Nodes, left : 0..Retries,
                 acked : BOOLEAN]

OutPorts(n) == {k \in 1..FanOut : Outlet[n][k] # NoNode}
Children(n) == {Outlet[n][k] : k \in OutPorts(n)}

-----------------------------------------------------------------------------
(* Rounds of calls: the same packet to one child after the other.          *)

PacketOf(n, type, data) ==
  IF type = "UPDATE" THEN [type |-> "UPDATE", from |-> n, data |-> data]
                     ELSE [type |-> "PULL", from |-> n]

\* A mutation: the acknowledgement of the last child is not forgotten.
CallWithOldAck(n, k, type, data, ok) ==
  /\ Transmit(n, Outlet[n][k], PacketOf(n, type, data))
  /\ call' = [call EXCEPT ![n] = [CallTo(Outlet[n][k], type) EXCEPT !.acked = call[n].acked]]
  /\ round' = [round EXCEPT ![n] = [port |-> k, ok |-> ok]]

CallPort(n, k, type, data, ok) ==
  /\ Transmit(n, Outlet[n][k], PacketOf(n, type, data))
  /\ call' = [call EXCEPT ![n] = CallTo(Outlet[n][k], type)]
  /\ round' = [round EXCEPT ![n] = [port |-> k, ok |-> ok]]

\* A mutation: the round counts as answered if its last child answers.
EndRoundByLast(n, ok) ==
  /\ call' = [call EXCEPT ![n] = NoCall]
  /\ round' = [round EXCEPT ![n] = NoRound]
  /\ LET used == call[n].type = "UPDATE" /\ call[n].acked
     IN  /\ out' = [out EXCEPT ![n].new = @ /\ ~used]
         /\ latch' = [latch EXCEPT ![n] = @ /\ ~used]
  /\ UNCHANGED mail

\* A round of data that all children answered makes the data of the outlet old
\* and shuts the latch.
EndRound(n, ok) ==
  /\ call' = [call EXCEPT ![n] = NoCall]
  /\ round' = [round EXCEPT ![n] = NoRound]
  /\ LET used == call[n].type = "UPDATE" /\ ok
     IN  /\ out' = [out EXCEPT ![n].new = @ /\ ~used]
         /\ latch' = [latch EXCEPT ![n] = @ /\ ~used]
  /\ UNCHANGED mail

\* After a call: on to the next port, or the round is over.
Proceed(n, ok) ==
  LET rest == {k \in OutPorts(n) : k > round[n].port}
  IN  /\ \/ /\ rest # {}
            /\ CallPort(n, Min(rest), call[n].type, out[n].data, ok)
            /\ UNCHANGED <<out, latch>>
         \/ /\ rest = {}
            /\ EndRound(n, ok)
      /\ UNCHANGED <<inbox, stage, user, sensor, heard>>

Answered(n) ==
  /\ call[n].acked
  /\ Proceed(n, round[n].ok)

\* A child that does not answer does not stop the round.
Unanswered(n) ==
  /\ TimedOut(n)
  /\ call[n].left = 0
  /\ Proceed(n, FALSE)

\* A mutation: the retries are not counted before one more is made.
RetryPastLast(n) ==
  /\ TimedOut(n)
  /\ Transmit(n, call[n].to, PacketOf(n, call[n].type, out[n].data))
  /\ call' = [call EXCEPT ![n].left = @ - 1]
  /\ UNCHANGED <<gluon, round, user, sensor, heard>>

Retry(n) ==
  /\ TimedOut(n)
  /\ call[n].left > 0
  /\ Transmit(n, call[n].to, PacketOf(n, call[n].type, out[n].data))
  /\ call' = [call EXCEPT ![n].left = @ - 1]
  /\ UNCHANGED <<gluon, round, user, sensor, heard>>

-----------------------------------------------------------------------------
(* One pass of loop().                                                     *)

\* The tilt sensor noticed shakes: PULL_INLET_PATCH_CHORD to all children.
Shake(n) ==
  /\ "shake" \in Events
  /\ touches < MaxTouches
  /\ touches' = touches + 1
  /\ Free(n)
  /\ stage[n] = "start"
  /\ OutPorts(n) # {}
  /\ CallPort(n, Min(OutPorts(n)), "PULL", out[n].data, TRUE)
  /\ stage' = [stage EXCEPT ![n] = "shaken"]
  /\ UNCHANGED <<inbox, out, latch, dial, sensor, heard>>

\* The data go to the first inlet with a link from the sender, whatever is
\* there.
ReceiveUpdate(n) ==
  /\ stage[n] # "received"
  /\ Read(n, "UPDATE")
  /\ Acknowledge(n, mail[n].from)
  /\ LET s == mail[n].from
     IN  /\ inbox' = [inbox EXCEPT ![n][Min(FedBy(n, s))] =
                        [data |-> mail[n].data, new |-> TRUE]]
         /\ heard' = [heard EXCEPT ![n][s] = mail[n].data]
  /\ stage' = [stage EXCEPT ![n] = "received"]
  /\ UNCHANGED <<out, latch, round, user, sensor>>

\* The node shows which inlet was pulled; nothing else depends on it.
ReceivePull(n) ==
  /\ stage[n] # "received"
  /\ Read(n, "PULL")
  /\ Acknowledge(n, mail[n].from)
  /\ stage' = [stage EXCEPT ![n] = "received"]
  /\ UNCHANGED <<inbox, out, latch, round, user, sensor, heard>>

NewAt(n) == {i \in Inlets : inbox[n][i].new}

\* All the data of the inlets are used.
Used(n) == [i \in Inlets |-> [inbox[n][i] EXCEPT !.new = FALSE]]

\* A mutation: a relay waits with new data until the ones before are sent.
ComputeWhenSent(n, reading) ==
  IF n \in Dials
    THEN [data |-> reading, new |-> TRUE]
    ELSE IF NewAt(n) = {} \/ out[n].new
           THEN out[n]
           ELSE [data |-> inbox[n][Min(NewAt(n))].data, new |-> TRUE]

\* compute() of a dial sends what the sensor reads, that of a relay the data of
\* the first inlet that has new ones.
Compute(n, reading) ==
  IF n \in Dials
    THEN [data |-> reading, new |-> TRUE]
    ELSE IF NewAt(n) = {}
           THEN out[n]
           ELSE [data |-> inbox[n][Min(NewAt(n))].data, new |-> TRUE]

\* Whether update() computes.  The ages of the data, which isSynchData compares,
\* are never set, so that it looks at nothing but the flags.
Bang(n, event) ==
  \/ "sensor" \in Modes[n] /\ event
  \/ "first" \in Modes[n] /\ 1 \in NewAt(n)
  \/ "any" \in Modes[n] /\ NewAt(n) # {}
  \/ "synch" \in Modes[n] /\ NewAt(n) = Inlets
  \/ "periodic" \in Modes[n]

\* A mutation: data that meet a shut latch are dropped.
SendOnce(n, item) ==
  \/ /\ ~latch[n]
     /\ out' = [out EXCEPT ![n] = [item EXCEPT !.new = FALSE]]
     /\ UNCHANGED <<mail, call, round, latch>>
  \/ /\ latch[n]
     /\ ~item.new \/ OutPorts(n) = {}
     /\ out' = [out EXCEPT ![n] = [item EXCEPT !.new = FALSE]]
     /\ latch' = [latch EXCEPT ![n] = FALSE]
     /\ UNCHANGED <<mail, call, round>>
  \/ /\ latch[n]
     /\ item.new /\ OutPorts(n) # {}
     /\ out' = [out EXCEPT ![n] = item]
     /\ CallPort(n, Min(OutPorts(n)), "UPDATE", item.data, TRUE)
     /\ UNCHANGED latch

\* The outlet holds that item.  While the latch is shut it waits there; to send
\* nothing, or to nobody, succeeds and shuts the latch like a send.
Send(n, item) ==
  \/ /\ ~latch[n]
     /\ out' = [out EXCEPT ![n] = item]
     /\ UNCHANGED <<mail, call, round, latch>>
  \/ /\ latch[n]
     /\ ~item.new \/ OutPorts(n) = {}
     /\ out' = [out EXCEPT ![n] = [item EXCEPT !.new = FALSE]]
     /\ latch' = [latch EXCEPT ![n] = FALSE]
     /\ UNCHANGED <<mail, call, round>>
  \/ /\ latch[n]
     /\ item.new /\ OutPorts(n) # {}
     /\ out' = [out EXCEPT ![n] = item]
     /\ CallPort(n, Min(OutPorts(n)), "UPDATE", item.data, TRUE)
     /\ UNCHANGED latch

\* The rest of the pass: sensor, logic and outlet.
Work(n) ==
  /\ Free(n)
  /\ stage[n] = "received" \/ mail[n] = NoMail
  /\ stage' = [stage EXCEPT ![n] = "start"]
  /\ sensor' = [sensor EXCEPT ![n] = dial[n]]
  /\ LET event == n \in Dials /\ dial[n] # sensor[n]
         bang  == Bang(n, event)
     IN  /\ inbox' = [inbox EXCEPT ![n] = IF bang THEN Used(n) ELSE @]
         /\ Send(n, IF bang THEN Compute(n, dial[n]) ELSE out[n])
  /\ UNCHANGED <<user, heard>>

\* minPeriodLatch has passed.
OpenLatch(n) ==
  /\ ~latch[n]
  /\ latch' = [latch EXCEPT ![n] = TRUE]
  /\ UNCHANGED <<mail, call, inbox, out, stage, round, user, sensor, heard>>

-----------------------------------------------------------------------------
(* The environment.                                                        *)

\* Somebody turns the dial.
Turn(n) ==
  /\ n \in Dials
  /\ touches < MaxTouches
  /\ touches' = touches + 1
  /\ \E position \in Positions \ {dial[n]} : dial' = [dial EXCEPT ![n] = position]
  /\ UNCHANGED <<mail, call, gluon, round, sensor, heard>>

\* forceUpdate, whatever the update mode.
ForceBang(n) ==
  /\ "bang" \in Events
  /\ touches < MaxTouches
  /\ touches' = touches + 1
  /\ Free(n)
  /\ stage[n] \in {"start", "shaken"}
  /\ stage' = [stage EXCEPT ![n] = "banged"]
  /\ out' = [out EXCEPT ![n] = Compute(n, sensor[n])]
  /\ inbox' = [inbox EXCEPT ![n] = Used(n)]
  /\ UNCHANGED <<mail, call, latch, round, dial, sensor, heard>>

\* Traffic for others erases the packet that n has not read.
Overhear(n) ==
  /\ mail[n] # NoMail
  /\ mail' = [mail EXCEPT ![n] = NoMail]
  /\ UNCHANGED <<call, gluon, round, user, sensor, heard>>

-----------------------------------------------------------------------------

Init ==
  /\ mail = [n \in Nodes |-> NoMail]
  /\ call = [n \in Nodes |-> NoCall]
  /\ inbox = [n \in Nodes |-> [i \in Inlets |-> [data |-> Start, new |-> FALSE]]]
  /\ out = [n \in Nodes |-> [data |-> Start, new |-> FALSE]]
  /\ stage = [n \in Nodes |-> "start"]
  /\ latch = [n \in Nodes |-> FALSE]
  /\ round = [n \in Nodes |-> NoRound]
  /\ dial = [n \in Nodes |-> Start]
  /\ sensor = [n \in Nodes |-> Start]
  /\ touches = 0
  /\ heard = [n \in Nodes |-> [s \in Nodes |-> Start]]

Next ==
  \E n \in Nodes :
    \/ Answered(n)
    \/ Unanswered(n)
    \/ Retry(n)
    \/ Shake(n)
    \/ ReceiveUpdate(n)
    \/ ReceivePull(n)
    \/ Work(n)
    \/ OpenLatch(n)
    \/ Turn(n)
    \/ ForceBang(n)
    \/ Overhear(n)

Spec == Init /\ [][Next]_vars

\* The node answers a call of s over and over if s calls it over and over.
Answers(n, s) ==
  []<>(call[s].to = n /\ call[s].type = "UPDATE")
    => []<>(call[s].to = n /\ call[s].type = "UPDATE" /\ call[s].acked)

\* loop() goes on, a wait ends, the clock runs, and the radio does not lose
\* everything.
Fairness ==
  \A n \in Nodes :
    /\ WF_vars(Retry(n))
    /\ WF_vars(Answered(n))
    /\ WF_vars(Unanswered(n))
    /\ WF_vars(ReceiveUpdate(n) \/ ReceivePull(n) \/ Work(n))
    /\ WF_vars(OpenLatch(n))
    /\ \A m \in Children(n) : Answers(m, n)

FairSpec == Spec /\ Fairness
-----------------------------------------------------------------------------
(* Properties.                                                             *)

\* Every variable holds values of the shape the code gives it.
TypeOK ==
  /\ mail \in [Nodes -> Packet]
  /\ call \in [Nodes -> Call]
  /\ inbox \in [Nodes -> [Inlets -> Item]]
  /\ out \in [Nodes -> Item]
  /\ stage \in [Nodes -> {"start", "shaken", "banged", "received"}]
  /\ latch \in [Nodes -> BOOLEAN]
  /\ round \in [Nodes -> [port : 0..FanOut, ok : BOOLEAN]]
  /\ dial \in [Nodes -> Positions]
  /\ sensor \in [Nodes -> Positions]
  /\ touches \in 0..MaxTouches
  /\ heard \in [Nodes -> [Nodes -> Positions]]

\* A gluon that has nothing new to send has brought its last data to every
\* child: the flag that sendNewDataMessageRF clears (NodeClass.cpp:429) after a
\* round of calls with losses, retries and failed children tells the truth.
DeliveredWhenClear ==
  \A n \in Nodes :
    ~out[n].new => \A m \in Children(n) : heard[m][n] = out[n].data

\* A relay that has used what came, while the gluons that feed it have nothing to
\* send, holds the data of one of them, whichever data the latch, the radio and its
\* inlets dropped before; a dial with its sensor on holds the last reading.
QuietIsShown ==
  /\ \A n \in Nodes \ Dials :
       NewAt(n) = {} /\ Parents(n) # {} /\ (\A s \in Parents(n) : ~out[s].new)
         => \E s \in Parents(n) : out[n].data = out[s].data
  /\ \A n \in Dials : "sensor" \in Modes[n] => out[n].data = sensor[n]

\* When the only dial of a patch is left alone, every relay that it feeds shows
\* its position in the end and keeps it, though the latch, the radio and full
\* inlets drop any number of the data before the last.
EventuallyShown ==
  \A d \in Dials : \A m \in Nodes \ Dials : <>[](out[m].data = dial[d])

\* A call that the program reports with "sent: OK" has brought its packet to the
\* child: moduleRF.cpp:54 says of it that "we could send the packet, perhaps
\* after several retries (we did receive an acknowledgment...)".
SentMeansReceived ==
  \A n \in Nodes :
    call[n].type = "UPDATE" /\ call[n].acked => heard[call[n].to][n] = out[n].data
=============================================================================
