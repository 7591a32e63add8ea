----------------------------- MODULE GluonLinks -----------------------------
(***************************************************************************)
(* How gluons make, move and delete the links between them                 *)
(* (NodeClass.cpp: processIRMessage, processRequest, processRFMessage).    *)
(*                                                                         *)
(* A gluon s whose IR beacon is heard by gluon r asks r for a link from    *)
(* the outlet of s to an inlet of r.  r changes its inlets and tells s by  *)
(* radio, in a call that blocks r until s acknowledges the packet or the   *)
(* retries are used up: then r saves its links to EEPROM, or goes back to  *)
(* those in EEPROM.  s changes its outlet when it processes the packet.    *)
(***************************************************************************)
EXTENDS InletArray, Radio

CONSTANTS
  FanOut,   \* ports of the outlet, MAX_FAN_OUT
  Facing    \* the pairs <<r, s>> such that r can receive the IR beacon of s

\* Besides what the radio may do:
\* "clear":  somebody uses the clear keys of the IR remote control
\* "reset":  somebody has the sniffer broadcast RESET_CON
\* "power":  a node is switched off and on
\* "data":   a node sends new data, or PULL, along the links of its outlet
AllEvents == RadioEvents \cup {"clear", "reset", "power", "data"}

ASSUME FanOutAssumption == FanOut \in Nat \ {0}
ASSUME FacingAssumption ==
  Facing \subseteq {pair \in Nodes \X Nodes : pair[1] # pair[2]}
ASSUME EventsAssumption == Events \subseteq AllEvents

VARIABLES
  inlets,    \* inlets[n]: the inlets of node n, in RAM
  outlet,    \* outlet[n]: the ports of its outlet, in RAM
  eeIn,      \* eeIn[n], eeOut[n]: the images of both in its EEPROM
  eeOut

ram    == <<inlets, outlet>>
eeprom == <<eeIn, eeOut>>
vars   == <<inlets, outlet, eeIn, eeOut, mail, call>>

LinkType == {"ACK_LINK", "ACK_LINK_DELETED"}

\* UPDATE stands for every packet along a link that changes no link.
Packet == [type : LinkType \cup {"UPDATE", "RESET_CON", "none"}, from : Id]
Call   == [type : LinkType \cup {"UPDATE", "none"}, to : Id, left : 0..Retries,
           acked : BOOLEAN]

\* n is in a call about a link that it has made or deleted.
Linking(n) == call[n].type \in LinkType

-----------------------------------------------------------------------------
(* Images of the whole set of links, and what a node reads back from them. *)

SaveOutlet(p)     == Image(p)
LoadOutlet(image) == Load(image)

\* A mutation: only the outlet is written.
SaveOnlyOutlet(n, ins, out) ==
  /\ UNCHANGED eeIn
  /\ eeOut' = [eeOut EXCEPT ![n] = SaveOutlet(out)]

SaveConnexions(n, ins, out) ==
  /\ eeIn'  = [eeIn EXCEPT ![n] = SaveInlets(ins)]
  /\ eeOut' = [eeOut EXCEPT ![n] = SaveOutlet(out)]

LoadConnexions(n) ==
  /\ inlets' = [inlets EXCEPT ![n] = LoadInlets(eeIn[n])]
  /\ outlet' = [outlet EXCEPT ![n] = LoadOutlet(eeOut[n])]

-----------------------------------------------------------------------------
(* What the radio does on its own.                                        *)

\* Traffic for others erases the packet that n has not read.
Overhear(n) ==
  /\ mail[n] # NoMail
  /\ mail' = [mail EXCEPT ![n] = NoMail]
  /\ UNCHANGED <<ram, eeprom, call>>

-----------------------------------------------------------------------------
(* The node that hears a beacon.                                           *)

LinkPacket(from, type) == [type |-> type, from |-> from]

ReplyTo(action) == IF action = "added" THEN "ACK_LINK" ELSE "ACK_LINK_DELETED"

\* processRequest: a link that was added or deleted is announced to s and not
\* saved before s acknowledges; a move is saved at once and s is not told.
ProcessRequest(r, s) ==
  /\ <<r, s>> \in Facing
  /\ Free(r)
  /\ LET result == RequestForConnexion(inlets[r], s)
     IN  /\ inlets' = [inlets EXCEPT ![r] = result.inlets]
         /\ UNCHANGED outlet
         /\ \/ /\ result.action \in {"added", "deleted"}
               /\ Transmit(r, s, LinkPacket(r, ReplyTo(result.action)))
               /\ call' = [call EXCEPT ![r] = CallTo(s, ReplyTo(result.action))]
               /\ UNCHANGED eeprom
            \/ /\ result.action = "moved"
               /\ SaveConnexions(r, result.inlets, outlet[r])
               /\ UNCHANGED <<mail, call>>
            \/ /\ result.action = "none"
               /\ UNCHANGED <<eeprom, mail, call>>

\* A mutation: the retries are not counted.
RetryForever(r) ==
  /\ TimedOut(r)
  /\ call[r].left > 0
  /\ Transmit(r, call[r].to, LinkPacket(r, call[r].type))
  /\ UNCHANGED <<ram, eeprom, call>>

Retry(r) ==
  /\ TimedOut(r)
  /\ call[r].left > 0
  /\ Transmit(r, call[r].to, LinkPacket(r, call[r].type))
  /\ call' = [call EXCEPT ![r].left = @ - 1]
  /\ UNCHANGED <<ram, eeprom>>

\* The call succeeded: the links are saved.
Commit(r) ==
  /\ Linking(r)
  /\ call[r].acked
  /\ SaveConnexions(r, inlets[r], outlet[r])
  /\ call' = [call EXCEPT ![r] = NoCall]
  /\ UNCHANGED <<ram, mail>>

\* A mutation: the failed call leaves the links as it changed them.
GiveUpInPlace(r) ==
  /\ Linking(r)
  /\ TimedOut(r)
  /\ call[r].left = 0
  /\ call' = [call EXCEPT ![r] = NoCall]
  /\ UNCHANGED <<ram, eeprom, mail>>

\* The call failed: back to the links in EEPROM.
GiveUp(r) ==
  /\ Linking(r)
  /\ TimedOut(r)
  /\ call[r].left = 0
  /\ LoadConnexions(r)
  /\ call' = [call EXCEPT ![r] = NoCall]
  /\ UNCHANGED <<eeprom, mail>>

-----------------------------------------------------------------------------
(* The node that sends along its links (sendMessageToChildren).  A round   *)
(* to several children is as many calls; that no packet is read between    *)
(* two of them is left out.                                                *)

SendData(n, s) ==
  /\ "data" \in Events
  /\ Free(n)
  /\ HasLink(outlet[n], s)
  /\ Transmit(n, s, LinkPacket(n, "UPDATE"))
  /\ call' = [call EXCEPT ![n] = CallTo(s, "UPDATE")]
  /\ UNCHANGED <<ram, eeprom>>

\* Acknowledged or not, the links stay as they are.
DataSent(n) ==
  /\ call[n].type = "UPDATE"
  /\ call[n].acked \/ (TimedOut(n) /\ call[n].left = 0)
  /\ call' = [call EXCEPT ![n] = NoCall]
  /\ UNCHANGED <<ram, eeprom, mail>>

-----------------------------------------------------------------------------
(* The node that reads a packet (processRFMessage).                        *)

ReceiveData(n) ==
  /\ Read(n, "UPDATE")
  /\ Acknowledge(n, mail[n].from)
  /\ UNCHANGED <<ram, eeprom>>

\* A mutation: the packet is acknowledged and the link is not made.
IgnoreAckLink(n) ==
  /\ Read(n, "ACK_LINK")
  /\ Acknowledge(n, mail[n].from)
  /\ UNCHANGED <<ram, eeprom>>

\* The sender has a new link from this outlet.  A full outlet ignores it.  The
\* age of a link of an outlet is never looked at.
ReceiveAckLink(n) ==
  /\ Read(n, "ACK_LINK")
  /\ Acknowledge(n, mail[n].from)
  /\ UNCHANGED inlets
  /\ LET linked == Connect(outlet[n], Fixed(mail[n].from))
     IN  /\ outlet' = [outlet EXCEPT ![n] = linked]
         /\ \/ /\ linked = outlet[n]
               /\ UNCHANGED eeprom
            \/ /\ linked # outlet[n]
               /\ SaveConnexions(n, inlets[n], linked)

\* A mutation: the link is removed in EEPROM only.
KeepUnlinked(n) ==
  /\ Read(n, "ACK_LINK_DELETED")
  /\ Acknowledge(n, mail[n].from)
  /\ SaveConnexions(n, inlets[n], Disconnect(outlet[n], mail[n].from))
  /\ UNCHANGED ram

\* The sender has deleted its links from this outlet.
ReceiveAckLinkDeleted(n) ==
  /\ Read(n, "ACK_LINK_DELETED")
  /\ Acknowledge(n, mail[n].from)
  /\ UNCHANGED inlets
  /\ LET unlinked == Disconnect(outlet[n], mail[n].from)
     IN  /\ outlet' = [outlet EXCEPT ![n] = unlinked]
         /\ \/ /\ unlinked = outlet[n]
               /\ UNCHANGED eeprom
            \/ /\ unlinked # outlet[n]
               /\ SaveConnexions(n, inlets[n], unlinked)

\* RESET_CON clears the links in RAM and, of those in EEPROM, the ones of the
\* outlet only.  It is a broadcast: nobody acknowledges it.
ReceiveResetCon(n) ==
  /\ Read(n, "RESET_CON")
  /\ inlets' = [inlets EXCEPT ![n] = BareInlets]
  /\ outlet' = [outlet EXCEPT ![n] = AllIdle(FanOut)]
  /\ eeOut'  = [eeOut EXCEPT ![n] = SaveOutlet(AllIdle(FanOut))]
  /\ UNCHANGED <<eeIn, call>>

-----------------------------------------------------------------------------
(* The environment: the sniffer, the remote control, the power switch and  *)
(* the clock.                                                              *)

\* The broadcast of the sniffer reaches n.
SnifferResets(n) ==
  /\ "reset" \in Events
  /\ Free(n)
  /\ mail' = [mail EXCEPT ![n] = [type |-> "RESET_CON", from |-> NoNode]]
  /\ UNCHANGED <<ram, eeprom, call>>

ClearAllConnexions(n) ==
  /\ "clear" \in Events
  /\ Free(n)
  /\ inlets' = [inlets EXCEPT ![n] = BareInlets]
  /\ outlet' = [outlet EXCEPT ![n] = AllIdle(FanOut)]
  /\ SaveConnexions(n, BareInlets, AllIdle(FanOut))
  /\ UNCHANGED <<mail, call>>

ClearInletLinks(n) ==
  /\ "clear" \in Events
  /\ Free(n)
  /\ inlets' = [inlets EXCEPT ![n] = BareInlets]
  /\ eeIn'   = [eeIn EXCEPT ![n] = SaveInlets(BareInlets)]
  /\ UNCHANGED <<outlet, eeOut, mail, call>>

ClearOutletLinks(n) ==
  /\ "clear" \in Events
  /\ Free(n)
  /\ outlet' = [outlet EXCEPT ![n] = AllIdle(FanOut)]
  /\ eeOut'  = [eeOut EXCEPT ![n] = SaveOutlet(AllIdle(FanOut))]
  /\ UNCHANGED <<inlets, eeIn, mail, call>>

\* RAM and the radio forget everything, whatever the node was doing.
PowerCycle(n) ==
  /\ "power" \in Events
  /\ LoadConnexions(n)
  /\ mail' = [mail EXCEPT ![n] = NoMail]
  /\ call' = [call EXCEPT ![n] = NoCall]
  /\ UNCHANGED eeprom

\* A packet is acknowledged before it is processed (moduleRF.cpp:100): a node
\* that is switched off in between has acknowledged what it never did.
DieAfterAcknowledge(n) ==
  /\ "power" \in Events
  /\ \E type \in LinkType \cup {"UPDATE"} : Read(n, type)
  /\ Acknowledge(n, mail[n].from)
  /\ LoadConnexions(n)
  /\ UNCHANGED eeprom

Tick(n) ==
  /\ inlets' = [inlets EXCEPT ![n] = OlderInlets(@)]
  /\ UNCHANGED <<outlet, eeprom, mail, call>>

-----------------------------------------------------------------------------

\* A gluon built for the first time: no links, in RAM or in EEPROM.
Init ==
  /\ inlets = [n \in Nodes |-> BareInlets]
  /\ outlet = [n \in Nodes |-> AllIdle(FanOut)]
  /\ eeIn   = [n \in Nodes |-> SaveInlets(BareInlets)]
  /\ eeOut  = [n \in Nodes |-> SaveOutlet(AllIdle(FanOut))]
  /\ mail   = [n \in Nodes |-> NoMail]
  /\ call   = [n \in Nodes |-> NoCall]

Next ==
  \E n \in Nodes :
    \/ \E s \in Nodes : ProcessRequest(n, s)
    \/ Retry(n)
    \/ Commit(n)
    \/ GiveUp(n)
    \/ \E s \in Nodes : SendData(n, s)
    \/ DataSent(n)
    \/ ReceiveData(n)
    \/ ReceiveAckLink(n)
    \/ ReceiveAckLinkDeleted(n)
    \/ ReceiveResetCon(n)
    \/ Overhear(n)
    \/ SnifferResets(n)
    \/ ClearAllConnexions(n)
    \/ ClearInletLinks(n)
    \/ ClearOutletLinks(n)
    \/ PowerCycle(n)
    \/ DieAfterAcknowledge(n)
    \/ Tick(n)

Spec == Init /\ [][Next]_vars

\* loop() goes on: a wait ends when its time is over, and a node reads its
\* radio unless it is blocked in a call.
Fairness ==
  \A n \in Nodes :
    /\ WF_vars(Retry(n))
    /\ WF_vars(Commit(n))
    /\ WF_vars(GiveUp(n))
    /\ WF_vars(DataSent(n))
    /\ WF_vars(ReceiveData(n))
    /\ WF_vars(ReceiveAckLink(n))
    /\ WF_vars(ReceiveAckLinkDeleted(n))

FairSpec == Spec /\ Fairness
-----------------------------------------------------------------------------
(* Properties.                                                             *)

\* Every variable holds values of the shape the code gives it.
TypeOK ==
  /\ inlets \in [Nodes -> InletState]
  /\ outlet \in [Nodes -> Ports(FanOut)]
  /\ eeIn \in [Nodes -> InletImages]
  /\ eeOut \in [Nodes -> Images(FanOut)]
  /\ mail \in [Nodes -> Packet]
  /\ call \in [Nodes -> Call]

\* The nodes whose beacon n can hear, and those that can hear the beacon of n.
Heard(n)   == {a \in Nodes : <<n, a>> \in Facing}
Hearers(n) == {a \in Nodes : <<a, n>> \in Facing}

Parents(n)  == {a \in Nodes : InletsOf(inlets[n], a) # {}}
Children(n) == {a \in Nodes : HasLink(outlet[n], a)}

\* The links of one sender never spread over two inlets of a node.  Updating
\* the data of the first inlet that matches the sender, as requestForUpdate
\* does (Inlet.cpp:158), reaches every inlet the sender is patched to only if
\* no sequence of requests, failed calls, clears and restarts can break this.
OneInletPerNode ==
  \A n \in Nodes : \A a \in Nodes :
    \A i, j \in InletsOf(inlets[n], a) : i = j

\* Unless it is making or deleting one, a node that is switched off comes back
\* with the links it had: EEPROM names the nodes of the ports in RAM.  Only RESET_CON, which
\* clears the inlets in RAM alone, is an exception (NodeClass.cpp:317-344,
\* 536-553, 612-670).
RestartKeepsLinks ==
  \A n \in Nodes :
    /\ \A a \in Nodes : Names(eeOut[n], a) <=> HasLink(outlet[n], a)
    /\ \/ Linking(n)
       \/ "reset" \in Events /\ inlets[n] = BareInlets
       \/ \A i \in Inlets : \A a \in Nodes :
            Names(eeIn[n][i], a) <=> HasLink(inlets[n][i], a)

\* A call that ends, whichever way, leaves the links with every other node as
\* they were: the rollback of a failed call (NodeClass.cpp:618, 649) undoes
\* that call and nothing else.
CallConcernsPeerOnly ==
  [][\A n \in Nodes : ~Free(n) /\ Free(n)' =>
       \A a \in Nodes \ {call[n].to} : \A i \in Inlets :
         HasLink(inlets[n][i], a) <=> HasLink(inlets'[n][i], a)]_vars

\* Whenever r is not in a call about a link, r has a link from s exactly when
\* s has one to r.  True as long as every packet that is read is acknowledged
\* in time, nobody clears, resets or restarts a node, an outlet has a port for
\* each listener, and no node hears so many others that they could fill all its
\* inlets but one: with a single inlet of several ports, a LOOSE link that is
\* requested again is made twice (Inlet.cpp:87-104), at both ends.
LinkedAtBothEnds ==
  \A r, s \in Nodes :
    ~Linking(r) => (s \in Parents(r) <=> r \in Children(s))

\* A caller that sees its call about a link acknowledged was understood: the
\* called node did what the call asked for, or its outlet is full, although an
\* acknowledgement does not say which packet it answers (RFM69.cpp:252).  What
\* makes it true is that the packets of a node about its link from another one
\* all ask for the opposite of what is saved, as long as it makes no link twice.
\* It says nothing of a caller that has a link to the called node as well and
\* may have sent data along it: where answers are late, the answer to those data
\* passes for that of the call.
AcknowledgedMeansDone ==
  [][\A r \in Nodes : Linking(r) /\ ~call[r].acked /\ call'[r].acked =>
       LET s == call[r].to
       IN  \/ HasLink(outlet[r], s)
           \/ IF call[r].type = "ACK_LINK"
                THEN HasLink(outlet'[s], r) \/ IsFull(outlet[s])
                ELSE ~HasLink(outlet'[s], r)]_vars

\* Two nodes that call each other do not block each other for ever, nor does a
\* ring of them: whatever is lost, every call comes to its end.
EveryCallEnds == \A n \in Nodes : ~Free(n) ~> Free(n)

\* A node that reads ACK_LINK has room for the link: its outlet is full only
\* if messages were lost, says NodeClass.cpp:303.  It holds, even with lost
\* packets and retries, as long as no more nodes hear the beacon of n than its
\* outlet has ports, what is read is acknowledged in time, and no listener makes
\* a link twice (see LinkedAtBothEnds): then no link of the outlet is there
\* twice, or after its listener gave it up.
AckLinkFindsRoom ==
  \A n \in Nodes : Free(n) /\ mail[n].type = "ACK_LINK" => ~IsFull(outlet[n])

\* No outlet holds two links to one node, which Outlet.cpp:13 says connect()
\* checks.
NoConflictingOutletLinks ==
  \A n \in Nodes : \A k, l \in Active(outlet[n]) :
    outlet[n][k].node = outlet[n][l].node => k = l

-----------------------------------------------------------------------------
(* The links a node has saved are a table of patch cords: a call that is   *)
(* under way is not seen in it, a call that succeeds is one step of it.    *)

SavedTable(n) == [i \in Inlets |-> {a \in Nodes : Names(eeIn[n][i], a)}]

Patches(n) == INSTANCE PatchTable WITH table <- SavedTable(n)

\* Every step of the links that a node has in EEPROM plugs, unplugs or moves
\* one cord, or drops all of them: no call, no failure and no restart changes
\* two at a time or makes a sender feed two inlets.
ImplementsPatchTable ==
  /\ \A n \in Nodes : Patches(n)!Init
  /\ [][\A n \in Nodes : UNCHANGED SavedTable(n) \/ Patches(n)!Next]_eeIn

-----------------------------------------------------------------------------
(* The tables a node saves, and what one save changes in them.             *)

InletIds(n)  == [i \in Inlets |-> IdsIn(eeIn[n][i])]
OutletIds(n) == IdsIn(eeOut[n])
BareIds      == [i \in Inlets |-> <<>>]

OneLink(old, new) == Table!Plugged(old, new) \/ Table!Unplugged(old, new)

\* The links of the outlet change, or one of them does.
OutletChange(old, new) == new \in {old, <<>>} \/ OneLink(old, new)

\* A link of an inlet is made, deleted, or moved to another inlet.
InletChange(old, new) ==
  \/ \E i \in Inlets :
       /\ \A k \in Inlets \ {i} : new[k] = old[k]
       /\ OneLink(old[i], new[i])
  \/ \E i, j \in Inlets :
       /\ i # j
       /\ \A k \in Inlets \ {i, j} : new[k] = old[k]
       /\ Table!Unplugged(old[i], new[i])
       /\ Table!Plugged(old[j], new[j])

\* A save changes one link of the outlet or one of the inlets, or clears either
\* of them, or both, and then may add a link.
SmallSave(ins, out, newIns, newOut) ==
  \/ newIns = ins /\ OutletChange(out, newOut)
  \/ newIns = BareIds /\ OutletChange(<<>>, newOut)
  \/ newIns = BareIds /\ newOut = out
  \/ newOut = out /\ InletChange(ins, newIns)
  \/ newOut = out /\ InletChange(BareIds, newIns)

\* However many requests, packets, failures and restarts lie between two saves,
\* the second differs from the first by one small change: this is what LinkStore
\* takes for granted when it says how much a loss of power can tear.
SavesAreSmall ==
  [][\A n \in Nodes :
       SmallSave(InletIds(n), OutletIds(n), InletIds(n)', OutletIds(n)')]_eeprom
=============================================================================
