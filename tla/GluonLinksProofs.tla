-------------------------- MODULE GluonLinksProofs --------------------------
(***************************************************************************)
(* Proofs of the properties of GluonLinks that hold for every set of nodes *)
(* and every size of the inlets and the outlet.                            *)
(***************************************************************************)
EXTENDS GluonLinks, InletArrayProofs

\* A packet that is sent is a packet, wherever it ends up.
LEMMA TransmitType ==
  ASSUME mail \in [Nodes -> Packet], NEW from \in Nodes, NEW to,
         NEW type \in LinkType \cup {"UPDATE", "none"},
         Transmit(from, to, LinkPacket(from, type))
  PROVE  mail' \in [Nodes -> Packet]
<1>1. NoMail \in Packet /\ LinkPacket(from, type) \in Packet
  BY DEF NoMail, LinkPacket, Packet, Id
<1>2. QED
  BY <1>1 DEF Transmit

\* An acknowledgement changes nothing of a call but that it is acknowledged.
LEMMA AcknowledgeType ==
  ASSUME call \in [Nodes -> Call], NEW n \in Nodes, NEW from, Acknowledge(n, from)
  PROVE  /\ call' \in [Nodes -> Call]
         /\ \A m \in Nodes : /\ call'[m].type = call[m].type
                             /\ call'[m].to = call[m].to
                             /\ Free(m)' <=> Free(m)
                             /\ Linking(m)' <=> Linking(m)
<1>1. CASE /\ from \in Nodes
           /\ call[from].to = n
           /\ call' = [call EXCEPT ![from].acked = TRUE]
  <2>1. call[from] \in Call /\ [call[from] EXCEPT !.acked = TRUE] \in Call
    BY <1>1 DEF Call
  <2>2. call' = [call EXCEPT ![from] = [call[from] EXCEPT !.acked = TRUE]]
    BY <1>1
  <2>3. call' \in [Nodes -> Call]
    BY <2>1, <2>2
  <2>4. call'[from].to # NoNode /\ call[from].to # NoNode
    BY <1>1, <2>1, <2>2, NoNodeAssumption DEF Call
  <2>5. /\ call'[from].type = call[from].type
        /\ call'[from].to = call[from].to
        /\ ~Free(from) /\ ~Free(from)'
    BY <1>1, <2>1, <2>2, <2>4 DEF Free, NoCall, Call
  <2>6. \A m \in Nodes \ {from} : call'[m] = call[m]
    BY <2>2
  <2>7. \A m \in Nodes \ {from} : Free(m)' <=> Free(m)
    BY <2>6 DEF Free
  <2>8. QED
    BY <2>3, <2>5, <2>6, <2>7 DEF Linking
<1>2. CASE UNCHANGED call
  BY <1>2 DEF Free, Linking
<1>3. QED
  BY <1>1, <1>2 DEF Acknowledge

\* A node that is in no call is in none about a link.
LEMMA FreeIsNotLinking ==
  ASSUME NEW n
  PROVE  /\ Free(n) => ~Linking(n)
         /\ Free(n)' => ~Linking(n)'
BY DEF Free, NoCall, Linking, LinkType

-----------------------------------------------------------------------------
(* Saving and loading.                                                     *)

\* The senders of each inlet, as a table of patch cords.
TableOf(ins) == [i \in Inlets |-> {a \in Nodes : HasLink(ins[i], a)}]
RamTable(n) == TableOf(inlets[n])
BareTable == [i \in Inlets |-> {}]

\* EEPROM names the nodes of the outlet.
OutletSaved(n) == \A a \in Nodes : Names(eeOut[n], a) <=> HasLink(outlet[n], a)

\* What is saved is what was to be saved, and it is saved for n alone.
LEMMA SaveConnexionsLinks ==
  ASSUME TypeOK, NEW n \in Nodes, NEW ins \in InletState, NEW out \in Ports(FanOut),
         SaveConnexions(n, ins, out)
  PROVE  /\ eeIn' \in [Nodes -> InletImages]
         /\ eeOut' \in [Nodes -> Images(FanOut)]
         /\ SavedTable(n)' = TableOf(ins)
         /\ \A a \in Nodes : Names(eeOut'[n], a) <=> HasLink(out, a)
         /\ \A m \in Nodes \ {n} : eeIn'[m] = eeIn[m] /\ eeOut'[m] = eeOut[m]
<1>1. FanOut \in Nat
  BY FanOutAssumption
<1>2. SaveOutlet(out) \in Images(FanOut)
  BY <1>1, ImageType DEF SaveOutlet
<1>3. \A a \in Nodes : Names(SaveOutlet(out), a) <=> HasLink(out, a)
  BY <1>1, ImageLinks DEF SaveOutlet
<1>4. eeIn' = [eeIn EXCEPT ![n] = SaveInlets(ins)]
  BY DEF SaveConnexions
<1>5. eeOut' = [eeOut EXCEPT ![n] = SaveOutlet(out)]
  BY DEF SaveConnexions
<1>6. eeIn'[n] = SaveInlets(ins) /\ eeOut'[n] = SaveOutlet(out)
  BY <1>4, <1>5 DEF TypeOK
<1>7. SavedTable(n)' = TableOf(ins)
  BY <1>6, SaveInletsLinks DEF SavedTable, TableOf
<1>8. eeIn' \in [Nodes -> InletImages] /\ eeOut' \in [Nodes -> Images(FanOut)]
  BY <1>2, <1>4, <1>5, SaveInletsLinks DEF TypeOK
<1>9. QED
  BY <1>3, <1>4, <1>5, <1>6, <1>7, <1>8

\* What is loaded is what was saved.
LEMMA LoadConnexionsLinks ==
  ASSUME TypeOK, NEW n \in Nodes, LoadConnexions(n)
  PROVE  /\ inlets' \in [Nodes -> InletState]
         /\ outlet' \in [Nodes -> Ports(FanOut)]
         /\ RamTable(n)' = SavedTable(n)
         /\ \A a \in Nodes : Names(eeOut[n], a) <=> HasLink(outlet'[n], a)
         /\ \A m \in Nodes \ {n} : inlets'[m] = inlets[m] /\ outlet'[m] = outlet[m]
<1>1. FanOut \in Nat /\ eeIn[n] \in InletImages /\ eeOut[n] \in Images(FanOut)
  BY FanOutAssumption DEF TypeOK
<1>2. LoadOutlet(eeOut[n]) \in Ports(FanOut)
  BY <1>1, LoadType DEF LoadOutlet
<1>3. \A a \in Nodes : HasLink(LoadOutlet(eeOut[n]), a) <=> Names(eeOut[n], a)
  BY <1>1, LoadLinks DEF LoadOutlet
<1>4. inlets' = [inlets EXCEPT ![n] = LoadInlets(eeIn[n])]
  BY DEF LoadConnexions
<1>5. outlet' = [outlet EXCEPT ![n] = LoadOutlet(eeOut[n])]
  BY DEF LoadConnexions
<1>6. inlets'[n] = LoadInlets(eeIn[n]) /\ outlet'[n] = LoadOutlet(eeOut[n])
  BY <1>4, <1>5 DEF TypeOK
<1>7. RamTable(n)' = SavedTable(n)
  BY <1>1, <1>6, LoadInletsLinks DEF SavedTable, RamTable, TableOf
<1>8. inlets' \in [Nodes -> InletState] /\ outlet' \in [Nodes -> Ports(FanOut)]
  BY <1>1, <1>2, <1>4, <1>5, LoadInletsLinks DEF TypeOK
<1>9. QED
  BY <1>3, <1>4, <1>5, <1>6, <1>7, <1>8

-----------------------------------------------------------------------------
(* Types.                                                                  *)

\* No mail, no call and an outlet without links have the types of the variables.
LEMMA NothingType ==
  /\ NoMail \in Packet
  /\ NoCall \in Call
  /\ AllIdle(FanOut) \in Ports(FanOut)
BY RetriesAssumption, FanOutAssumption, LinkTypes DEF NoMail, Packet, Id, NoCall, Call

\* Every variable keeps the shape the code gives it: no array is written outside
\* its bounds, by any handler.
THEOREM TypeCorrect == Spec => []TypeOK
<1>1. Init => TypeOK
  <2>1. FanOut \in Nat
    BY FanOutAssumption
  <2>2. SaveInlets(BareInlets) \in InletImages /\ BareInlets \in InletState
    BY BareInletsLinks, SaveInletsLinks
  <2>3. SaveOutlet(AllIdle(FanOut)) \in Images(FanOut)
    BY <2>1, NothingType, ImageType DEF SaveOutlet
  <2>4. QED
    BY <2>2, <2>3, NothingType DEF Init, TypeOK
<1>2. TypeOK /\ [Next]_vars => TypeOK'
  <2> SUFFICES ASSUME TypeOK, [Next]_vars
               PROVE  TypeOK'
    OBVIOUS
  <2> USE DEF TypeOK, ram, eeprom
  <2>1. ASSUME NEW n \in Nodes, NEW s \in Nodes, ProcessRequest(n, s)
        PROVE  TypeOK'
    <3> DEFINE result == RequestForConnexion(inlets[n], s)
               reply  == ReplyTo(result.action)
    <3>1. result.inlets \in InletState
      BY RequestType
    <3>2. inlets' \in [Nodes -> InletState] /\ UNCHANGED outlet
      BY <2>1, <3>1 DEF ProcessRequest
    <3>3. reply \in LinkType
      BY DEF ReplyTo, LinkType
    <3> HIDE DEF reply
    <3>4. CASE /\ Transmit(n, s, LinkPacket(n, reply))
               /\ call' = [call EXCEPT ![n] = CallTo(s, reply)]
               /\ UNCHANGED eeprom
      <4>1. CallTo(s, reply) \in Call
        BY <3>3, RetriesAssumption DEF CallTo, Call, Id
      <4>2. call' \in [Nodes -> Call]
        BY <3>4, <4>1
      <4>3. mail' \in [Nodes -> Packet]
        BY <3>3, <3>4, TransmitType
      <4>4. QED
        BY <3>2, <3>4, <4>2, <4>3
    <3>5. CASE SaveConnexions(n, result.inlets, outlet[n]) /\ UNCHANGED <<mail, call>>
      BY <3>1, <3>2, <3>5, SaveConnexionsLinks
    <3>6. CASE UNCHANGED <<eeprom, mail, call>>
      BY <3>2, <3>6
    <3>7. QED
      BY <2>1, <3>4, <3>5, <3>6 DEF ProcessRequest, reply
  <2>2. ASSUME NEW n \in Nodes, Retry(n)
        PROVE  TypeOK'
    <3>1. call[n] \in Call /\ call[n].left > 0 /\ call[n].left \in 0..Retries
      BY <2>2 DEF Retry, Call
    <3>2. call[n].type \in LinkType \cup {"UPDATE", "none"}
      BY <3>1 DEF Call
    <3>3. [call[n] EXCEPT !.left = @ - 1] \in Call
      BY <3>1, RetriesAssumption DEF Call
    <3>4. call' \in [Nodes -> Call]
      BY <2>2, <3>3 DEF Retry
    <3>5. mail' \in [Nodes -> Packet]
      BY <2>2, <3>2, TransmitType DEF Retry
    <3>6. QED
      BY <2>2, <3>4, <3>5 DEF Retry
  <2>3. ASSUME NEW n \in Nodes, Commit(n)
        PROVE  TypeOK'
    <3>1. inlets[n] \in InletState /\ outlet[n] \in Ports(FanOut)
      OBVIOUS
    <3>2. eeIn' \in [Nodes -> InletImages] /\ eeOut' \in [Nodes -> Images(FanOut)]
      BY <2>3, <3>1, SaveConnexionsLinks DEF Commit
    <3>3. QED
      BY <2>3, <3>2, NothingType DEF Commit
  <2>4. ASSUME NEW n \in Nodes, GiveUp(n)
        PROVE  TypeOK'
    <3>1. inlets' \in [Nodes -> InletState] /\ outlet' \in [Nodes -> Ports(FanOut)]
      BY <2>4, LoadConnexionsLinks DEF GiveUp
    <3>2. QED
      BY <2>4, <3>1, NothingType DEF GiveUp
  <2>5. ASSUME NEW n \in Nodes, ReceiveAckLink(n)
        PROVE  TypeOK'
    <3> DEFINE linked == Connect(outlet[n], Fixed(mail[n].from))
    <3>1. linked \in Ports(FanOut)
      <4>1. Fixed(mail[n].from) \in Port
        BY LoosePeriodAssumption DEF Fixed, Port, Packet
      <4>2. QED
        BY <4>1, FanOutAssumption, ConnectType
    <3>2. mail' \in [Nodes -> Packet] /\ call' \in [Nodes -> Call]
      BY <2>5, NothingType, AcknowledgeType DEF ReceiveAckLink, Read
    <3>3. inlets[n] \in InletState
      OBVIOUS
    <3>4. /\ outlet' = [outlet EXCEPT ![n] = linked]
          /\ UNCHANGED inlets
          /\ UNCHANGED eeprom \/ SaveConnexions(n, inlets[n], linked)
      BY <2>5 DEF ReceiveAckLink
    <3> HIDE DEF linked
    <3>5. eeIn' \in [Nodes -> InletImages] /\ eeOut' \in [Nodes -> Images(FanOut)]
      BY <3>1, <3>3, <3>4, SaveConnexionsLinks
    <3>6. QED
      BY <3>1, <3>2, <3>4, <3>5
  <2>6. ASSUME NEW n \in Nodes, ReceiveAckLinkDeleted(n)
        PROVE  TypeOK'
    <3> DEFINE unlinked == Disconnect(outlet[n], mail[n].from)
    <3>1. unlinked \in Ports(FanOut)
      BY FanOutAssumption, DisconnectType
    <3>2. mail' \in [Nodes -> Packet] /\ call' \in [Nodes -> Call]
      BY <2>6, NothingType, AcknowledgeType DEF ReceiveAckLinkDeleted, Read
    <3>3. inlets[n] \in InletState
      OBVIOUS
    <3>4. /\ outlet' = [outlet EXCEPT ![n] = unlinked]
          /\ UNCHANGED inlets
          /\ UNCHANGED eeprom \/ SaveConnexions(n, inlets[n], unlinked)
      BY <2>6 DEF ReceiveAckLinkDeleted
    <3> HIDE DEF unlinked
    <3>5. eeIn' \in [Nodes -> InletImages] /\ eeOut' \in [Nodes -> Images(FanOut)]
      BY <3>1, <3>3, <3>4, SaveConnexionsLinks
    <3>6. QED
      BY <3>1, <3>2, <3>4, <3>5
  <2>7. SaveOutlet(AllIdle(FanOut)) \in Images(FanOut)
    BY FanOutAssumption, NothingType, ImageType DEF SaveOutlet
  <2>8. ASSUME NEW n \in Nodes, ReceiveResetCon(n)
        PROVE  TypeOK'
    BY <2>7, <2>8, NothingType, BareInletsLinks DEF ReceiveResetCon, Read
  <2>9. ASSUME NEW n \in Nodes, Overhear(n)
        PROVE  TypeOK'
    BY <2>9, NothingType DEF Overhear
  <2>10. ASSUME NEW n \in Nodes, SnifferResets(n)
         PROVE  TypeOK'
    <3>1. [type |-> "RESET_CON", from |-> NoNode] \in Packet
      BY DEF Packet, Id
    <3>2. QED
      BY <2>10, <3>1 DEF SnifferResets
  <2>11. ASSUME NEW n \in Nodes, ClearAllConnexions(n)
         PROVE  TypeOK'
    BY <2>11, NothingType, BareInletsLinks, SaveConnexionsLinks DEF ClearAllConnexions
  <2>12. ASSUME NEW n \in Nodes, ClearInletLinks(n)
         PROVE  TypeOK'
    BY <2>12, BareInletsLinks, SaveInletsLinks DEF ClearInletLinks
  <2>13. ASSUME NEW n \in Nodes, ClearOutletLinks(n)
         PROVE  TypeOK'
    BY <2>7, <2>13, NothingType DEF ClearOutletLinks
  <2>14. ASSUME NEW n \in Nodes, PowerCycle(n)
         PROVE  TypeOK'
    <3>1. inlets' \in [Nodes -> InletState] /\ outlet' \in [Nodes -> Ports(FanOut)]
      BY <2>14, LoadConnexionsLinks DEF PowerCycle
    <3>2. QED
      BY <2>14, <3>1, NothingType DEF PowerCycle
  <2>15. ASSUME NEW n \in Nodes, Tick(n)
         PROVE  TypeOK'
    BY <2>15, OlderInletsLinks DEF Tick
  <2>16. ASSUME NEW n \in Nodes, DieAfterAcknowledge(n)
         PROVE  TypeOK'
    <3>1. inlets' \in [Nodes -> InletState] /\ outlet' \in [Nodes -> Ports(FanOut)]
      BY <2>16, LoadConnexionsLinks DEF DieAfterAcknowledge
    <3>2. mail' \in [Nodes -> Packet] /\ call' \in [Nodes -> Call]
      BY <2>16, NothingType, AcknowledgeType DEF DieAfterAcknowledge, Read
    <3>3. QED
      BY <2>16, <3>1, <3>2 DEF DieAfterAcknowledge
  <2>17. ASSUME NEW n \in Nodes, NEW s \in Nodes, SendData(n, s)
         PROVE  TypeOK'
    <3>1. CallTo(s, "UPDATE") \in Call
      BY RetriesAssumption DEF CallTo, Call, Id
    <3>2. mail' \in [Nodes -> Packet]
      BY <2>17, TransmitType DEF SendData
    <3>3. QED
      BY <2>17, <3>1, <3>2 DEF SendData
  <2>18. ASSUME NEW n \in Nodes, DataSent(n)
         PROVE  TypeOK'
    BY <2>18, NothingType DEF DataSent
  <2>19. ASSUME NEW n \in Nodes, ReceiveData(n)
         PROVE  TypeOK'
    BY <2>19, NothingType, AcknowledgeType DEF ReceiveData, Read
  <2>20. CASE UNCHANGED vars
    BY <2>20 DEF vars
  <2>21. QED
    BY <2>1, <2>2, <2>3, <2>4, <2>5, <2>6, <2>8, <2>9, <2>10, <2>11, <2>12, <2>13,
       <2>14, <2>15, <2>16, <2>17, <2>18, <2>19, <2>20 DEF Next
<1>3. QED
  BY <1>1, <1>2, PTL DEF Spec

-----------------------------------------------------------------------------
(* The inductive invariant.  OneInletPerNode and RestartKeepsLinks are not *)
(* inductive: what a failed call goes back to, and what a successful one   *)
(* saves, is known only if one also says how far RAM and EEPROM are apart  *)
(* while the call is under way, by one cord, and that no sender feeds two  *)
(* inlets of what is saved.                                                *)

\* The inlets of a table that node a feeds, and a table with one cord more, or
\* one less.
FedIn(table, a) == {i \in Inlets : a \in table[i]}
PlugIn(table, i, a) == [table EXCEPT ![i] = @ \cup {a}]
PullOut(table, i, a) == [table EXCEPT ![i] = @ \ {a}]

\* No node feeds two inlets of a table.
OneEach(table) == \A a \in Nodes : \A i, j \in FedIn(table, a) : i = j

\* Outside a call about a link, RAM and EEPROM agree on the inlets, or RESET_CON
\* has cleared those in RAM.
Settled(n) ==
  ~Linking(n) => \/ RamTable(n) = SavedTable(n)
                 \/ "reset" \in Events /\ inlets[n] = BareInlets

\* The tables that RAM may have had when a call began.
Bases(n) == {SavedTable(n)} \cup {t \in {BareTable} : "reset" \in Events}

\* Such a call is about one cord, of the called node, that was plugged in or
\* pulled out since then.
UnderWay(n) ==
  Linking(n) =>
    /\ call[n].to \in Nodes
    /\ \E base \in Bases(n) : \E i \in Inlets :
         \/ /\ FedIn(base, call[n].to) \subseteq {i}
            /\ RamTable(n) = PlugIn(base, i, call[n].to)
         \/ /\ FedIn(base, call[n].to) = {i}
            /\ RamTable(n) = PullOut(base, i, call[n].to)

NodeInv(n) ==
  /\ OneEach(RamTable(n))
  /\ OneEach(SavedTable(n))
  /\ OutletSaved(n)
  /\ Settled(n)
  /\ UnderWay(n)

\* RESET_CON is heard only where somebody uses the sniffer.
ResetsHaveCause == \A n \in Nodes : mail[n].type = "RESET_CON" => "reset" \in Events

IInv == TypeOK /\ ResetsHaveCause /\ \A n \in Nodes : NodeInv(n)

\* The steps of a table of patch cords, as PatchTable has them, or a stutter.
CordStep(t, u) ==
  \/ u = t
  \/ u = BareTable
  \/ \E i \in Inlets, a \in Nodes :
       \/ FedIn(t, a) \subseteq {i} /\ u = PlugIn(t, i, a)
       \/ FedIn(t, a) = {i} /\ u = PullOut(t, i, a)
       \/ u = PlugIn(BareTable, i, a)
       \/ \E j \in Inlets \ {i} :
            FedIn(t, a) = {i} /\ u = PlugIn(PullOut(t, i, a), j, a)

-----------------------------------------------------------------------------
(* Lemmas about tables.                                                    *)

Tables == [Inlets -> SUBSET Nodes]

\* Two tables in which every node feeds the same inlets are the same.
LEMMA SameTable ==
  ASSUME NEW t \in Tables, NEW u \in Tables,
         \A a \in Nodes : FedIn(t, a) = FedIn(u, a)
  PROVE  t = u
<1>1. \A i \in Inlets : t[i] = u[i]
  <2>1. ASSUME NEW i \in Inlets
        PROVE  \A a \in Nodes : a \in t[i] <=> a \in u[i]
    BY DEF FedIn
  <2>2. \A i \in Inlets : t[i] \subseteq Nodes /\ u[i] \subseteq Nodes
    BY DEF Tables
  <2>3. QED
    BY <2>1, <2>2
<1>2. QED
  BY <1>1 DEF Tables

\* A cord changes what its node feeds and nothing else.
LEMMA OneCord ==
  ASSUME NEW t \in Tables, NEW i \in Inlets, NEW a \in Nodes
  PROVE  /\ PlugIn(t, i, a) \in Tables
         /\ PullOut(t, i, a) \in Tables
         /\ FedIn(PlugIn(t, i, a), a) = FedIn(t, a) \cup {i}
         /\ FedIn(PullOut(t, i, a), a) = FedIn(t, a) \ {i}
         /\ \A b \in Nodes \ {a} : /\ FedIn(PlugIn(t, i, a), b) = FedIn(t, b)
                                   /\ FedIn(PullOut(t, i, a), b) = FedIn(t, b)
<1>1. /\ PlugIn(t, i, a) \in Tables
      /\ \A j \in Inlets : PlugIn(t, i, a)[j] = IF j = i THEN t[i] \cup {a} ELSE t[j]
  BY DEF Tables, PlugIn
<1>2. /\ PullOut(t, i, a) \in Tables
      /\ \A j \in Inlets : PullOut(t, i, a)[j] = IF j = i THEN t[i] \ {a} ELSE t[j]
  BY DEF Tables, PullOut
<1>3. QED
  BY <1>1, <1>2 DEF FedIn

\* The senders of the inlets are a table, whatever the ports hold.
LEMMA TableType ==
  ASSUME NEW ins
  PROVE  TableOf(ins) \in Tables
BY DEF TableOf, Tables

\* A request is one cord: it is plugged in, pulled out, or both.
LEMMA RequestTable ==
  ASSUME NEW ins \in InletState, NEW a \in Nodes, OneEach(TableOf(ins))
  PROVE  LET result == RequestForConnexion(ins, a)
             t      == TableOf(ins)
             u      == TableOf(result.inlets)
         IN  /\ result.inlets \in InletState
             /\ OneEach(u)
             /\ \/ result = Result("none", ins)
                \/ /\ result.action = "added"
                   /\ \E i \in Inlets : FedIn(t, a) \subseteq {i} /\ u = PlugIn(t, i, a)
                \/ /\ result.action = "deleted"
                   /\ \E i \in Inlets : FedIn(t, a) = {i} /\ u = PullOut(t, i, a)
                \/ /\ result.action = "moved"
                   /\ \E i \in Inlets : \E j \in Inlets \ {i} :
                        FedIn(t, a) = {i} /\ u = PlugIn(PullOut(t, i, a), j, a)
<1> DEFINE result == RequestForConnexion(ins, a)
           t      == TableOf(ins)
           u      == TableOf(result.inlets)
<1>1. \A new \in InletState : \A b \in Nodes : FedIn(TableOf(new), b) = InletsOf(new, b)
  BY DEF FedIn, TableOf, InletsOf
<1>2. \A i, j \in InletsOf(ins, a) : i = j
  BY <1>1 DEF OneEach
<1>3. /\ result.inlets \in InletState
      /\ \A b \in Nodes \ {a} : InletsOf(result.inlets, b) = InletsOf(ins, b)
  BY <1>2, RequestLinks
<1>4. Served(ins, a, result)
  BY <1>2, RequestLinks
<1> HIDE DEF result
<1>5. t \in Tables /\ u \in Tables
  BY TableType
<1>6. /\ \A b \in Nodes : FedIn(t, b) = InletsOf(ins, b)
      /\ \A b \in Nodes : FedIn(u, b) = InletsOf(result.inlets, b)
      /\ \A b \in Nodes \ {a} : FedIn(u, b) = FedIn(t, b)
  BY <1>1, <1>3
<1> HIDE DEF t, u
<1>7. ASSUME NEW i \in Inlets, FedIn(t, a) \subseteq {i}, FedIn(u, a) = {i}
      PROVE  u = PlugIn(t, i, a)
  <2>1. PlugIn(t, i, a) \in Tables
    BY <1>5, OneCord
  <2>2. \A b \in Nodes : FedIn(PlugIn(t, i, a), b) = FedIn(u, b)
    <3>1. FedIn(PlugIn(t, i, a), a) = {i}
      BY <1>5, <1>6, <1>7, OneCord
    <3>2. \A b \in Nodes \ {a} : FedIn(PlugIn(t, i, a), b) = FedIn(u, b)
      BY <1>5, <1>6, <1>7, OneCord
    <3>3. QED
      BY <1>5, <1>6, <1>7, <3>1, <3>2
  <2>3. QED
    BY <1>5, <2>1, <2>2, SameTable
<1>8. ASSUME NEW i \in Inlets, FedIn(t, a) = {i}, FedIn(u, a) = {}
      PROVE  u = PullOut(t, i, a)
  <2>1. PullOut(t, i, a) \in Tables
    BY <1>5, OneCord
  <2>2. \A b \in Nodes : FedIn(PullOut(t, i, a), b) = FedIn(u, b)
    <3>1. FedIn(PullOut(t, i, a), a) = {}
      BY <1>5, <1>6, <1>8, OneCord
    <3>2. \A b \in Nodes \ {a} : FedIn(PullOut(t, i, a), b) = FedIn(u, b)
      BY <1>5, <1>6, <1>8, OneCord
    <3>3. QED
      BY <1>5, <1>6, <1>8, <3>1, <3>2
  <2>3. QED
    BY <1>5, <2>1, <2>2, SameTable
<1>9. ASSUME NEW i \in Inlets, NEW j \in Inlets \ {i}, FedIn(t, a) = {i}, FedIn(u, a) = {j}
      PROVE  u = PlugIn(PullOut(t, i, a), j, a)
  <2> DEFINE pulled == PullOut(t, i, a)
  <2>1. /\ pulled \in Tables
        /\ FedIn(pulled, a) = {}
        /\ \A b \in Nodes \ {a} : FedIn(pulled, b) = FedIn(u, b)
    BY <1>5, <1>6, <1>9, OneCord
  <2> HIDE DEF pulled
  <2>2. PlugIn(pulled, j, a) \in Tables
    BY <2>1, OneCord
  <2>3. \A b \in Nodes : FedIn(PlugIn(pulled, j, a), b) = FedIn(u, b)
    <3>1. FedIn(PlugIn(pulled, j, a), a) = {j}
      BY <1>9, <2>1, OneCord
    <3>2. \A b \in Nodes \ {a} : FedIn(PlugIn(pulled, j, a), b) = FedIn(u, b)
      BY <1>9, <2>1, OneCord
    <3>3. QED
      BY <1>9, <2>1, <3>1, <3>2
  <2>4. u = PlugIn(pulled, j, a)
    BY <1>5, <2>2, <2>3, SameTable
  <2>5. QED
    BY <2>4 DEF pulled
<1>10. OneEach(u)
  <2>1. \A i, j \in FedIn(u, a) : i = j
    BY <1>2, <1>4, <1>6 DEF Served, Result
  <2>2. OneEach(t)
    BY DEF t
  <2>3. QED
    BY <1>6, <2>1, <2>2 DEF OneEach
<1>11. QED
  BY <1>3, <1>4, <1>6, <1>7, <1>8, <1>9, <1>10 DEF Served, result, t, u

-----------------------------------------------------------------------------
(* Lemmas about steps.                                                     *)

\* A step that leaves the links of a node and the peer of its call alone keeps
\* the invariant of that node.
LEMMA Untouched ==
  ASSUME NEW n \in Nodes, NodeInv(n),
         inlets'[n] = inlets[n], outlet'[n] = outlet[n],
         eeIn'[n] = eeIn[n], eeOut'[n] = eeOut[n],
         Linking(n)' <=> Linking(n), Linking(n) => call'[n].to = call[n].to
  PROVE  NodeInv(n)' /\ SavedTable(n)' = SavedTable(n)
<1>1. RamTable(n)' = RamTable(n) /\ SavedTable(n)' = SavedTable(n)
  BY DEF RamTable, TableOf, SavedTable
<1>2. OutletSaved(n)'
  BY DEF NodeInv, OutletSaved
<1>3. Settled(n)'
  BY <1>1 DEF NodeInv, Settled
<1>4. UnderWay(n)'
  BY <1>1 DEF NodeInv, UnderWay, Bases
<1>5. QED
  BY <1>1, <1>2, <1>3, <1>4 DEF NodeInv

\* A node that is free and has saved its links satisfies the invariant.
LEMMA JustSaved ==
  ASSUME TypeOK, NEW n \in Nodes, NEW ins \in InletState, NEW out \in Ports(FanOut),
         SaveConnexions(n, ins, out), inlets'[n] = ins, outlet'[n] = out,
         Free(n)', OneEach(TableOf(ins))
  PROVE  NodeInv(n)' /\ SavedTable(n)' = TableOf(ins)
<1>1. SavedTable(n)' = TableOf(ins) /\ \A a \in Nodes : Names(eeOut'[n], a) <=> HasLink(out, a)
  BY SaveConnexionsLinks
<1>2. RamTable(n)' = TableOf(ins)
  BY DEF RamTable, TableOf
<1>3. OutletSaved(n)'
  BY <1>1 DEF OutletSaved
<1>4. Settled(n)' /\ UnderWay(n)'
  BY <1>1, <1>2, FreeIsNotLinking DEF Settled, UnderWay
<1>5. QED
  BY <1>1, <1>2, <1>3, <1>4 DEF NodeInv

\* A node that is free and has loaded its links satisfies the invariant.
LEMMA JustLoaded ==
  ASSUME TypeOK, NEW n \in Nodes, NodeInv(n), LoadConnexions(n),
         UNCHANGED eeprom, Free(n)'
  PROVE  NodeInv(n)' /\ SavedTable(n)' = SavedTable(n)
<1>1. /\ RamTable(n)' = SavedTable(n)
      /\ \A a \in Nodes : Names(eeOut[n], a) <=> HasLink(outlet'[n], a)
  BY LoadConnexionsLinks
<1>2. SavedTable(n)' = SavedTable(n)
  BY DEF SavedTable, eeprom
<1>3. OutletSaved(n)'
  BY <1>1 DEF OutletSaved, eeprom
<1>4. Settled(n)' /\ UnderWay(n)'
  BY <1>1, <1>2, FreeIsNotLinking DEF Settled, UnderWay
<1>5. QED
  BY <1>1, <1>2, <1>3, <1>4 DEF NodeInv

\* What a step has to do for each node: keep its invariant, and move one cord of
\* what it has saved at most.
Kept(n) == NodeInv(n)' /\ CordStep(SavedTable(n), SavedTable(n)')

\* A step leaves node m alone, but for acknowledging its call, or a call of it
\* that is not about a link.
Apart(m) ==
  /\ inlets'[m] = inlets[m] /\ outlet'[m] = outlet[m]
  /\ eeIn'[m] = eeIn[m] /\ eeOut'[m] = eeOut[m]
  /\ Linking(m)' <=> Linking(m)
  /\ Linking(m) => call'[m].to = call[m].to

\* A step that leaves a node alone does for it what a step has to do.
LEMMA ApartKeeps ==
  ASSUME NEW m \in Nodes, NodeInv(m), Apart(m)
  PROVE  Kept(m)
BY Untouched DEF Apart, Kept, CordStep

\* A node that is free has saved the table it has in RAM, or its inlets are bare.
LEMMA FreeTable ==
  ASSUME NEW n \in Nodes, NodeInv(n), Free(n)
  PROVE  RamTable(n) \in Bases(n)
<1>1. TableOf(BareInlets) = BareTable
  BY BareInletsLinks DEF TableOf, BareTable
<1>2. QED
  BY <1>1, FreeIsNotLinking DEF NodeInv, Settled, RamTable, Bases

\* Nobody feeds a bare table.
LEMMA NobodyFeedsBare ==
  /\ \A a \in Nodes : FedIn(BareTable, a) = {}
  /\ OneEach(BareTable)
  /\ TableOf(BareInlets) = BareTable
BY BareInletsLinks DEF FedIn, OneEach, BareTable, TableOf

-----------------------------------------------------------------------------
(* What each step of a node does to its own links.                         *)

\* A request that is accepted moves a cord of the table in RAM; the table in
\* EEPROM follows at once if it is a move, and waits for the call otherwise.
LEMMA ProcessRequestKeeps ==
  ASSUME IInv, NEW n \in Nodes, NEW s \in Nodes, ProcessRequest(n, s)
  PROVE  Kept(n)
<1> DEFINE result == RequestForConnexion(inlets[n], s)
           t      == RamTable(n)
           u      == TableOf(result.inlets)
<1>1. TypeOK /\ NodeInv(n) /\ inlets[n] \in InletState /\ outlet[n] \in Ports(FanOut)
  BY DEF IInv, TypeOK
<1>2. Free(n) /\ t \in Bases(n)
  BY <1>1, FreeTable DEF ProcessRequest
<1>3. /\ result.inlets \in InletState
      /\ OneEach(u)
      /\ \/ result = Result("none", inlets[n])
         \/ /\ result.action = "added"
            /\ \E i \in Inlets : FedIn(t, s) \subseteq {i} /\ u = PlugIn(t, i, s)
         \/ /\ result.action = "deleted"
            /\ \E i \in Inlets : FedIn(t, s) = {i} /\ u = PullOut(t, i, s)
         \/ /\ result.action = "moved"
            /\ \E i \in Inlets : \E j \in Inlets \ {i} :
                 FedIn(t, s) = {i} /\ u = PlugIn(PullOut(t, i, s), j, s)
  BY <1>1, RequestTable DEF NodeInv, RamTable
<1>4. inlets'[n] = result.inlets /\ outlet' = outlet
  BY <1>1 DEF ProcessRequest, TypeOK
<1>5. /\ result.action \in {"added", "deleted", "moved", "none"}
      /\ \/ /\ result.action \in {"added", "deleted"}
            /\ call' = [call EXCEPT ![n] = CallTo(s, ReplyTo(result.action))]
            /\ UNCHANGED eeprom
         \/ /\ result.action = "moved"
            /\ SaveConnexions(n, result.inlets, outlet[n])
            /\ UNCHANGED call
         \/ /\ result.action = "none"
            /\ UNCHANGED eeprom
            /\ UNCHANGED call
  BY DEF ProcessRequest
<1>6. result.action = "none" => result = Result("none", inlets[n])
  BY <1>3
<1>7. RamTable(n)' = u
  BY <1>4 DEF RamTable, TableOf
<1> HIDE DEF result, t, u
<1>8. CASE result.action \in {"added", "deleted"}
  <2>1. call'[n] = CallTo(s, ReplyTo(result.action)) /\ UNCHANGED eeprom
    BY <1>1, <1>5, <1>8 DEF TypeOK
  <2>2. Linking(n)' /\ call'[n].to = s
    BY <2>1 DEF Linking, LinkType, CallTo, ReplyTo
  <2>3. SavedTable(n)' = SavedTable(n)
    BY <2>1 DEF SavedTable, eeprom
  <2>4. \E i \in Inlets : \/ FedIn(t, s) \subseteq {i} /\ u = PlugIn(t, i, s)
                          \/ FedIn(t, s) = {i} /\ u = PullOut(t, i, s)
    BY <1>3, <1>8 DEF Result
  <2>5. UnderWay(n)'
    BY <1>2, <1>7, <2>2, <2>3, <2>4 DEF UnderWay, Bases, BareTable
  <2>6. OutletSaved(n)'
    BY <1>1, <1>4, <2>1 DEF NodeInv, OutletSaved, eeprom
  <2>7. NodeInv(n)'
    BY <1>1, <1>3, <1>7, <2>2, <2>3, <2>5, <2>6 DEF NodeInv, Settled
  <2>8. QED
    BY <2>3, <2>7 DEF Kept, CordStep
<1>9. CASE result.action = "moved"
  <2>1. SaveConnexions(n, result.inlets, outlet[n]) /\ Free(n)'
    BY <1>2, <1>5, <1>9 DEF Free
  <2>2. NodeInv(n)' /\ SavedTable(n)' = u
    BY <1>1, <1>3, <1>4, <2>1, JustSaved DEF u
  <2>3. PICK i \in Inlets : \E j \in Inlets \ {i} :
          FedIn(t, s) = {i} /\ u = PlugIn(PullOut(t, i, s), j, s)
    BY <1>3, <1>9 DEF Result
  <2>4. t = SavedTable(n)
    BY <1>2, <2>3, NobodyFeedsBare DEF Bases
  <2>5. CordStep(SavedTable(n), u)
    BY <2>3, <2>4 DEF CordStep
  <2>6. QED
    BY <2>2, <2>5 DEF Kept
<1>10. CASE result.action = "none"
  <2>1. result.inlets = inlets[n]
    BY <1>6, <1>10 DEF Result
  <2>2. UNCHANGED <<eeIn, eeOut, call>>
    BY <1>5, <1>10 DEF eeprom
  <2>3. Apart(n)
    BY <1>4, <2>1, <2>2 DEF Apart, Linking
  <2>4. QED
    BY <1>1, <2>3, ApartKeeps
<1>11. QED
  BY <1>5, <1>8, <1>9, <1>10

\* A call that succeeds saves the one cord it was about.
LEMMA CommitKeeps ==
  ASSUME IInv, NEW n \in Nodes, Commit(n)
  PROVE  Kept(n)
<1>1. TypeOK /\ NodeInv(n) /\ inlets[n] \in InletState /\ outlet[n] \in Ports(FanOut)
  BY DEF IInv, TypeOK
<1>2. Linking(n)
  BY DEF Commit
<1>3. Free(n)' /\ inlets'[n] = inlets[n] /\ outlet'[n] = outlet[n]
  BY <1>1 DEF Commit, Free, TypeOK, ram
<1>4. SaveConnexions(n, inlets[n], outlet[n]) /\ OneEach(TableOf(inlets[n]))
  BY <1>1 DEF Commit, NodeInv, RamTable
<1>5. NodeInv(n)' /\ SavedTable(n)' = RamTable(n)
  BY <1>1, <1>3, <1>4, JustSaved DEF RamTable
<1> DEFINE a == call[n].to
<1>6. a \in Nodes
  BY <1>1, <1>2 DEF NodeInv, UnderWay
<1>7. PICK base \in Bases(n), i \in Inlets :
        \/ FedIn(base, a) \subseteq {i} /\ RamTable(n) = PlugIn(base, i, a)
        \/ FedIn(base, a) = {i} /\ RamTable(n) = PullOut(base, i, a)
  BY <1>1, <1>2 DEF NodeInv, UnderWay
<1>8. CordStep(SavedTable(n), RamTable(n))
  <2>1. CASE base = SavedTable(n)
    BY <1>6, <1>7, <2>1 DEF CordStep
  <2>2. CASE base = BareTable
    <3>1. RamTable(n) = PlugIn(BareTable, i, a)
      BY <1>6, <1>7, <2>2, NobodyFeedsBare
    <3>2. QED
      BY <1>6, <3>1 DEF CordStep
  <2>3. QED
    BY <2>1, <2>2 DEF Bases
<1>9. QED
  BY <1>5, <1>8 DEF Kept

\* A node that is free and saves its inlets as they are drops all the cords or
\* none.
LEMMA SaveSameKeeps ==
  ASSUME IInv, NEW n \in Nodes, NEW out \in Ports(FanOut), Free(n), Free(n)',
         SaveConnexions(n, inlets[n], out), UNCHANGED inlets, outlet'[n] = out
  PROVE  Kept(n)
<1>1. TypeOK /\ NodeInv(n) /\ inlets[n] \in InletState
  BY DEF IInv, TypeOK
<1>2. OneEach(TableOf(inlets[n])) /\ inlets'[n] = inlets[n]
  BY <1>1 DEF NodeInv, RamTable
<1>3. NodeInv(n)' /\ SavedTable(n)' = RamTable(n)
  BY <1>1, <1>2, JustSaved DEF RamTable
<1>4. QED
  BY <1>1, <1>3, FreeTable DEF Kept, CordStep, Bases

\* Clearing the links drops all the cords.
LEMMA ClearKeeps ==
  ASSUME IInv, NEW n \in Nodes,
         ClearAllConnexions(n) \/ ClearInletLinks(n) \/ ClearOutletLinks(n)
  PROVE  Kept(n)
<1>1. TypeOK /\ NodeInv(n) /\ BareInlets \in InletState /\ AllIdle(FanOut) \in Ports(FanOut)
  BY BareInletsLinks, NothingType DEF IInv
<1>2. Free(n)' /\ ~Linking(n) /\ ~Linking(n)'
  BY FreeIsNotLinking DEF ClearAllConnexions, ClearInletLinks, ClearOutletLinks, Free
<1>3. CASE ClearAllConnexions(n)
  <2>1. inlets'[n] = BareInlets /\ outlet'[n] = AllIdle(FanOut)
    BY <1>1, <1>3 DEF ClearAllConnexions, TypeOK
  <2>2. NodeInv(n)' /\ SavedTable(n)' = BareTable
    BY <1>1, <1>2, <1>3, <2>1, JustSaved, NobodyFeedsBare DEF ClearAllConnexions
  <2>3. QED
    BY <2>2 DEF Kept, CordStep
<1>4. CASE ClearInletLinks(n)
  <2>1. inlets'[n] = BareInlets /\ eeIn'[n] = SaveInlets(BareInlets)
    BY <1>1, <1>4 DEF ClearInletLinks, TypeOK
  <2>2. RamTable(n)' = BareTable
    BY <2>1, NobodyFeedsBare DEF RamTable, TableOf
  <2>3. SavedTable(n)' = BareTable
    BY <2>1, BareInletsLinks, SaveInletsLinks DEF SavedTable, BareTable
  <2>4. OutletSaved(n)'
    BY <1>1, <1>4 DEF NodeInv, OutletSaved, ClearInletLinks
  <2>5. Settled(n)' /\ UnderWay(n)'
    BY <1>2, <2>2, <2>3 DEF Settled, UnderWay
  <2>6. QED
    BY <2>2, <2>3, <2>4, <2>5, NobodyFeedsBare DEF Kept, NodeInv, CordStep
<1>5. CASE ClearOutletLinks(n)
  <2>1. outlet'[n] = AllIdle(FanOut) /\ eeOut'[n] = SaveOutlet(AllIdle(FanOut))
    BY <1>1, <1>5 DEF ClearOutletLinks, TypeOK
  <2>2. OutletSaved(n)'
    BY <1>1, <2>1, FanOutAssumption, ImageLinks DEF OutletSaved, SaveOutlet
  <2>3. RamTable(n)' = RamTable(n) /\ SavedTable(n)' = SavedTable(n)
    BY <1>5 DEF ClearOutletLinks, RamTable, TableOf, SavedTable
  <2>4. Settled(n)' /\ UnderWay(n)'
    BY <1>1, <1>2, <1>5, <2>3 DEF NodeInv, Settled, UnderWay, ClearOutletLinks
  <2>5. QED
    BY <1>1, <2>2, <2>3, <2>4 DEF Kept, NodeInv, CordStep
<1>6. QED
  BY <1>3, <1>4, <1>5

\* RESET_CON leaves the saved table and bares the inlets in RAM.
LEMMA ResetKeeps ==
  ASSUME IInv, NEW n \in Nodes, ReceiveResetCon(n)
  PROVE  Kept(n)
<1>1. TypeOK /\ NodeInv(n) /\ Free(n) /\ Free(n)' /\ "reset" \in Events
  BY DEF IInv, ResetsHaveCause, ReceiveResetCon, Read, Free
<1>2. /\ inlets'[n] = BareInlets
      /\ outlet'[n] = AllIdle(FanOut)
      /\ eeOut'[n] = SaveOutlet(AllIdle(FanOut))
  BY <1>1 DEF ReceiveResetCon, TypeOK
<1>3. OutletSaved(n)'
  BY <1>2, FanOutAssumption, NothingType, ImageLinks DEF OutletSaved, SaveOutlet
<1>4. RamTable(n)' = BareTable
  BY <1>2, NobodyFeedsBare DEF RamTable, TableOf
<1>5. SavedTable(n)' = SavedTable(n)
  BY DEF ReceiveResetCon, SavedTable
<1>6. Settled(n)' /\ UnderWay(n)'
  BY <1>1, <1>2, FreeIsNotLinking DEF Settled, UnderWay
<1>7. QED
  BY <1>1, <1>3, <1>4, <1>5, <1>6, NobodyFeedsBare DEF Kept, NodeInv, CordStep

\* Time makes links FIXED and changes no table.
LEMMA TickKeeps ==
  ASSUME IInv, NEW n \in Nodes, Tick(n)
  PROVE  Kept(n)
<1>1. TypeOK /\ NodeInv(n) /\ inlets[n] \in InletState
  BY DEF IInv, TypeOK
<1>2. inlets'[n] = OlderInlets(inlets[n]) /\ UNCHANGED <<outlet, eeIn, eeOut, call>>
  BY <1>1 DEF Tick, TypeOK, eeprom
<1>3. RamTable(n)' = RamTable(n)
  BY <1>1, <1>2, OlderInletsLinks DEF RamTable, TableOf
<1>4. inlets[n] = BareInlets => inlets'[n] = BareInlets
  <2>1. OlderInlets(BareInlets) = BareInlets
    BY DEF OlderInlets, Older, BareInlets, AllIdle, Idle
  <2>2. QED
    BY <1>2, <2>1
<1>5. SavedTable(n)' = SavedTable(n) /\ (Linking(n)' <=> Linking(n))
  BY <1>2 DEF SavedTable, Linking
<1>6. OutletSaved(n)'
  BY <1>1, <1>2 DEF NodeInv, OutletSaved
<1>7. Settled(n)' /\ UnderWay(n)'
  BY <1>1, <1>2, <1>3, <1>4, <1>5 DEF NodeInv, Settled, UnderWay, Bases
<1>8. QED
  BY <1>1, <1>3, <1>5, <1>6, <1>7 DEF Kept, NodeInv, CordStep

\* A packet that is read changes the outlet, which is saved if it did change.
LEMMA ReceiveKeeps ==
  ASSUME IInv, TypeOK', NEW n \in Nodes, ReceiveAckLink(n) \/ ReceiveAckLinkDeleted(n)
  PROVE  /\ Kept(n)
         /\ \A m \in Nodes \ {n} : Apart(m)
<1>1. TypeOK /\ NodeInv(n)
  BY DEF IInv
<1>2. /\ Free(n) /\ Free(n)'
      /\ \A m \in Nodes : (Linking(m)' <=> Linking(m)) /\ call'[m].to = call[m].to
  BY <1>1, AcknowledgeType DEF ReceiveAckLink, ReceiveAckLinkDeleted, Read, TypeOK
<1>3. PICK new :
        /\ outlet' = [outlet EXCEPT ![n] = new]
        /\ UNCHANGED inlets
        /\ \/ new = outlet[n] /\ UNCHANGED eeprom
           \/ SaveConnexions(n, inlets[n], new)
  BY DEF ReceiveAckLink, ReceiveAckLinkDeleted
<1>4. outlet'[n] = new /\ new \in Ports(FanOut)
  BY <1>1, <1>3 DEF TypeOK
<1>5. CASE new = outlet[n] /\ UNCHANGED eeprom
  <2>1. \A m \in Nodes : Apart(m)
    BY <1>1, <1>2, <1>3, <1>4, <1>5 DEF Apart, eeprom, TypeOK
  <2>2. QED
    BY <1>1, <2>1, ApartKeeps
<1>6. CASE SaveConnexions(n, inlets[n], new)
  <2>1. Kept(n)
    BY <1>2, <1>3, <1>4, <1>6, SaveSameKeeps
  <2>2. inlets[n] \in InletState
    BY <1>1 DEF TypeOK
  <2>3. \A m \in Nodes \ {n} : eeIn'[m] = eeIn[m] /\ eeOut'[m] = eeOut[m]
    BY <1>1, <1>4, <1>6, <2>2, SaveConnexionsLinks
  <2>4. \A m \in Nodes \ {n} : Apart(m)
    BY <1>1, <1>2, <1>3, <2>3 DEF Apart, TypeOK
  <2>5. QED
    BY <2>1, <2>4
<1>7. QED
  BY <1>3, <1>5, <1>6

-----------------------------------------------------------------------------
(* Every step, for every node.                                             *)

\* What a node may do to links of its own.
Acts(n) ==
  \/ \E s \in Nodes : ProcessRequest(n, s)
  \/ Commit(n)
  \/ Free(n)' /\ LoadConnexions(n) /\ UNCHANGED eeprom
  \/ ReceiveAckLink(n)
  \/ ReceiveAckLinkDeleted(n)
  \/ ReceiveResetCon(n)
  \/ ClearAllConnexions(n)
  \/ ClearInletLinks(n)
  \/ ClearOutletLinks(n)
  \/ Tick(n)

\* A step changes the links of one node at most.
Local ==
  \/ \A m \in Nodes : Apart(m)
  \/ \E n \in Nodes : Acts(n) /\ \A m \in Nodes \ {n} : Apart(m)

LEMMA StepIsLocal ==
  ASSUME IInv, TypeOK', [Next]_vars
  PROVE  Local
<1> USE DEF Local
<1>1. TypeOK /\ \A m \in Nodes : NodeInv(m)
  BY DEF IInv
<1>2. ASSUME NEW n \in Nodes, NEW s \in Nodes, ProcessRequest(n, s)
      PROVE  Local
  <2> DEFINE result == RequestForConnexion(inlets[n], s)
  <2>1. result.inlets \in InletState /\ outlet[n] \in Ports(FanOut)
    BY <1>1, RequestType DEF TypeOK
  <2>2. \/ UNCHANGED eeprom
        \/ SaveConnexions(n, result.inlets, outlet[n])
    BY <1>2 DEF ProcessRequest
  <2>3. \A m \in Nodes \ {n} : inlets'[m] = inlets[m] /\ outlet'[m] = outlet[m]
    BY <1>1, <1>2 DEF ProcessRequest, TypeOK
  <2>4. \A m \in Nodes \ {n} : call'[m] = call[m]
    BY <1>1, <1>2 DEF ProcessRequest, TypeOK
  <2> HIDE DEF result
  <2>5. \A m \in Nodes \ {n} : eeIn'[m] = eeIn[m] /\ eeOut'[m] = eeOut[m]
    BY <1>1, <2>1, <2>2, SaveConnexionsLinks DEF eeprom
  <2>6. \A m \in Nodes \ {n} : Apart(m)
    BY <2>3, <2>4, <2>5 DEF Apart, Linking
  <2>7. QED
    BY <1>2, <2>6 DEF Acts
<1>3. ASSUME NEW n \in Nodes, Retry(n)
      PROVE  Local
  <2>1. call[n] \in Call /\ call'[n] = [call[n] EXCEPT !.left = @ - 1]
    BY <1>1, <1>3 DEF Retry, TypeOK
  <2>2. call'[n].to = call[n].to /\ call'[n].type = call[n].type
    BY <2>1 DEF Call
  <2>3. \A m \in Nodes \ {n} : call'[m] = call[m]
    BY <1>1, <1>3 DEF Retry, TypeOK
  <2>4. \A m \in Nodes : Apart(m)
    BY <1>3, <2>2, <2>3 DEF Retry, Apart, Linking, ram, eeprom
  <2>5. QED
    BY <2>4
<1>4. ASSUME NEW n \in Nodes, Commit(n)
      PROVE  Local
  <2>1. inlets[n] \in InletState /\ outlet[n] \in Ports(FanOut)
    BY <1>1, BareInletsLinks, NothingType DEF TypeOK
  <2>2. \A m \in Nodes \ {n} : eeIn'[m] = eeIn[m] /\ eeOut'[m] = eeOut[m]
    BY <1>1, <1>4, <2>1, SaveConnexionsLinks DEF Commit
  <2>3. \A m \in Nodes \ {n} : Apart(m)
    BY <1>1, <1>4, <2>2 DEF Commit, Apart, Linking, TypeOK, ram
  <2>4. QED
    BY <1>4, <2>3 DEF Acts
<1>5. ASSUME NEW n \in Nodes, GiveUp(n)
      PROVE  Local
  <2>1. Free(n)' /\ LoadConnexions(n) /\ UNCHANGED eeprom
    BY <1>1, <1>5 DEF GiveUp, Free, TypeOK
  <2>2. \A m \in Nodes \ {n} : inlets'[m] = inlets[m] /\ outlet'[m] = outlet[m]
    BY <1>1, <2>1, LoadConnexionsLinks
  <2>3. \A m \in Nodes \ {n} : Apart(m)
    BY <1>1, <1>5, <2>1, <2>2 DEF GiveUp, Apart, Linking, TypeOK, eeprom
  <2>4. QED
    BY <2>1, <2>3 DEF Acts
<1>6. ASSUME NEW n \in Nodes, ReceiveAckLink(n)
      PROVE  Local
  BY <1>6, ReceiveKeeps DEF Acts
<1>7. ASSUME NEW n \in Nodes, ReceiveAckLinkDeleted(n)
      PROVE  Local
  BY <1>7, ReceiveKeeps DEF Acts
<1>8. ASSUME NEW n \in Nodes, ReceiveResetCon(n)
      PROVE  Local
  <2>1. \A m \in Nodes \ {n} : Apart(m)
    BY <1>1, <1>8 DEF ReceiveResetCon, Apart, Linking, TypeOK, ram, eeprom
  <2>2. QED
    BY <1>8, <2>1 DEF Acts
<1>9. ASSUME NEW n \in Nodes, Overhear(n)
      PROVE  Local
  <2>1. \A m \in Nodes : Apart(m)
    BY <1>9 DEF Overhear, Apart, Linking, ram, eeprom
  <2>2. QED
    BY <2>1
<1>10. ASSUME NEW n \in Nodes, SnifferResets(n)
      PROVE  Local
  <2>1. \A m \in Nodes : Apart(m)
    BY <1>10 DEF SnifferResets, Apart, Linking, ram, eeprom
  <2>2. QED
    BY <2>1
<1>11. ASSUME NEW n \in Nodes, ClearAllConnexions(n)
      PROVE  Local
  <2>1. BareInlets \in InletState /\ AllIdle(FanOut) \in Ports(FanOut)
    BY <1>1, BareInletsLinks, NothingType DEF TypeOK
  <2>2. \A m \in Nodes \ {n} : eeIn'[m] = eeIn[m] /\ eeOut'[m] = eeOut[m]
    BY <1>1, <1>11, <2>1, SaveConnexionsLinks DEF ClearAllConnexions
  <2>3. \A m \in Nodes \ {n} : Apart(m)
    BY <1>1, <1>11, <2>2 DEF ClearAllConnexions, Apart, Linking, TypeOK, ram
  <2>4. QED
    BY <1>11, <2>3 DEF Acts
<1>12. ASSUME NEW n \in Nodes, ClearInletLinks(n)
      PROVE  Local
  <2>1. \A m \in Nodes \ {n} : Apart(m)
    BY <1>1, <1>12 DEF ClearInletLinks, Apart, Linking, TypeOK, ram, eeprom
  <2>2. QED
    BY <1>12, <2>1 DEF Acts
<1>13. ASSUME NEW n \in Nodes, ClearOutletLinks(n)
      PROVE  Local
  <2>1. \A m \in Nodes \ {n} : Apart(m)
    BY <1>1, <1>13 DEF ClearOutletLinks, Apart, Linking, TypeOK, ram, eeprom
  <2>2. QED
    BY <1>13, <2>1 DEF Acts
<1>14. ASSUME NEW n \in Nodes, PowerCycle(n)
      PROVE  Local
  <2>1. Free(n)' /\ LoadConnexions(n) /\ UNCHANGED eeprom
    BY <1>1, <1>14 DEF PowerCycle, Free, TypeOK
  <2>2. \A m \in Nodes \ {n} : inlets'[m] = inlets[m] /\ outlet'[m] = outlet[m]
    BY <1>1, <2>1, LoadConnexionsLinks
  <2>3. \A m \in Nodes \ {n} : Apart(m)
    BY <1>1, <1>14, <2>1, <2>2 DEF PowerCycle, Apart, Linking, TypeOK, eeprom
  <2>4. QED
    BY <2>1, <2>3 DEF Acts
<1>15. ASSUME NEW n \in Nodes, Tick(n)
      PROVE  Local
  <2>1. \A m \in Nodes \ {n} : Apart(m)
    BY <1>1, <1>15 DEF Tick, Apart, Linking, TypeOK, ram, eeprom
  <2>2. QED
    BY <1>15, <2>1 DEF Acts
<1>16. ASSUME NEW n \in Nodes, DieAfterAcknowledge(n)
      PROVE  Local
  <2>1. /\ \A m \in Nodes : (Linking(m)' <=> Linking(m)) /\ call'[m].to = call[m].to
        /\ Free(n)' /\ LoadConnexions(n) /\ UNCHANGED eeprom
    BY <1>1, <1>16, AcknowledgeType DEF DieAfterAcknowledge, Read, TypeOK
  <2>2. \A m \in Nodes \ {n} : inlets'[m] = inlets[m] /\ outlet'[m] = outlet[m]
    BY <1>1, <2>1, LoadConnexionsLinks
  <2>3. \A m \in Nodes \ {n} : Apart(m)
    BY <2>1, <2>2 DEF Apart, eeprom
  <2>4. QED
    BY <2>1, <2>3 DEF Acts
<1>17. ASSUME NEW n \in Nodes, NEW s \in Nodes, SendData(n, s)
       PROVE  Local
  <2>1. ~Linking(n) /\ call'[n].type = "UPDATE" /\ \A m \in Nodes \ {n} : call'[m] = call[m]
    BY <1>1, <1>17, FreeIsNotLinking DEF SendData, CallTo, TypeOK
  <2>2. \A m \in Nodes : Apart(m)
    BY <1>17, <2>1 DEF SendData, Apart, Linking, LinkType, ram, eeprom
  <2>3. QED
    BY <2>2
<1>18. ASSUME NEW n \in Nodes, DataSent(n)
       PROVE  Local
  <2>1. /\ call[n].type = "UPDATE" /\ call'[n].type = "none"
        /\ \A m \in Nodes \ {n} : call'[m] = call[m]
    BY <1>1, <1>18 DEF DataSent, NoCall, TypeOK
  <2>2. \A m \in Nodes : Apart(m)
    BY <1>18, <2>1 DEF DataSent, Apart, Linking, LinkType, ram, eeprom
  <2>3. QED
    BY <2>2
<1>19. ASSUME NEW n \in Nodes, ReceiveData(n)
       PROVE  Local
  <2>1. \A m \in Nodes : (Linking(m)' <=> Linking(m)) /\ call'[m].to = call[m].to
    BY <1>1, <1>19, AcknowledgeType DEF ReceiveData, TypeOK
  <2>2. \A m \in Nodes : Apart(m)
    BY <1>19, <2>1 DEF ReceiveData, Apart, ram, eeprom
  <2>3. QED
    BY <2>2
<1>20. CASE UNCHANGED vars
  <2>1. \A m \in Nodes : Apart(m)
    BY <1>20 DEF vars, Apart, Linking
  <2>2. QED
    BY <2>1
<1>21. QED
  BY <1>2, <1>3, <1>4, <1>5, <1>6, <1>7, <1>8, <1>9, <1>10, <1>11, <1>12, <1>13,
     <1>14, <1>15, <1>16, <1>17, <1>18, <1>19, <1>20 DEF Next

\* Each step keeps the invariant of every node and moves one cord of what the
\* node has saved at most.
LEMMA StepKeeps ==
  ASSUME IInv, TypeOK', [Next]_vars
  PROVE  \A m \in Nodes : Kept(m)
<1>1. TypeOK /\ \A m \in Nodes : NodeInv(m)
  BY DEF IInv
<1>2. ASSUME NEW n \in Nodes, Acts(n)
      PROVE  Kept(n)
  <2>1. CASE Free(n)' /\ LoadConnexions(n) /\ UNCHANGED eeprom
    BY <1>1, <2>1, JustLoaded DEF Kept, CordStep
  <2>2. QED
    BY <1>2, <2>1, ProcessRequestKeeps, CommitKeeps, ReceiveKeeps, ResetKeeps,
       ClearKeeps, TickKeeps DEF Acts
<1>3. QED
  BY <1>1, <1>2, StepIsLocal, ApartKeeps DEF Local

\* No step invents a RESET_CON.
LEMMA ResetsKeepCause ==
  ASSUME TypeOK, ResetsHaveCause, [Next]_vars
  PROVE  ResetsHaveCause'
<1>1. ASSUME NEW from \in Nodes, NEW to, NEW type, type # "RESET_CON",
             Transmit(from, to, LinkPacket(from, type))
      PROVE  ResetsHaveCause'
  BY <1>1 DEF TypeOK, ResetsHaveCause, Transmit, LinkPacket, NoMail
<1>2. ASSUME NEW n \in Nodes, NEW s \in Nodes, ProcessRequest(n, s)
      PROVE  ResetsHaveCause'
  <2>1. \/ UNCHANGED mail
        \/ LET reply == ReplyTo(RequestForConnexion(inlets[n], s).action)
           IN  Transmit(n, s, LinkPacket(n, reply))
    BY <1>2 DEF ProcessRequest
  <2>2. \A action : ReplyTo(action) # "RESET_CON"
    BY DEF ReplyTo
  <2>3. QED
    BY <1>1, <2>1, <2>2 DEF ResetsHaveCause
<1>3. ASSUME NEW n \in Nodes, Retry(n)
      PROVE  ResetsHaveCause'
  <2>1. call[n].type # "RESET_CON"
    BY DEF TypeOK, Call, LinkType
  <2>2. QED
    BY <1>1, <1>3, <2>1 DEF Retry
<1>4. ASSUME NEW n \in Nodes,
             \/ Commit(n) \/ GiveUp(n) \/ DataSent(n) \/ ClearAllConnexions(n)
             \/ ClearInletLinks(n) \/ ClearOutletLinks(n) \/ Tick(n)
      PROVE  ResetsHaveCause'
  BY <1>4 DEF ResetsHaveCause, Commit, GiveUp, DataSent, ClearAllConnexions,
              ClearInletLinks, ClearOutletLinks, Tick
<1>5. ASSUME NEW n \in Nodes,
             \/ ReceiveAckLink(n) \/ ReceiveAckLinkDeleted(n) \/ ReceiveResetCon(n)
             \/ ReceiveData(n) \/ Overhear(n) \/ PowerCycle(n) \/ DieAfterAcknowledge(n)
      PROVE  ResetsHaveCause'
  <2>1. mail' = [mail EXCEPT ![n] = NoMail]
    BY <1>5 DEF ReceiveAckLink, ReceiveAckLinkDeleted, ReceiveResetCon, ReceiveData, Read,
                Overhear, PowerCycle, DieAfterAcknowledge
  <2>2. QED
    BY <2>1 DEF TypeOK, ResetsHaveCause, NoMail
<1>6. ASSUME NEW n \in Nodes, SnifferResets(n)
      PROVE  ResetsHaveCause'
  BY <1>6 DEF SnifferResets, ResetsHaveCause
<1>7. ASSUME NEW n \in Nodes, NEW s \in Nodes, SendData(n, s)
      PROVE  ResetsHaveCause'
  BY <1>1, <1>7 DEF SendData
<1>8. CASE UNCHANGED vars
  BY <1>8 DEF vars, ResetsHaveCause
<1>9. QED
  BY <1>2, <1>3, <1>4, <1>5, <1>6, <1>7, <1>8 DEF Next

-----------------------------------------------------------------------------
(* The theorems.                                                           *)

\* The inductive invariant holds.
THEOREM Invariance == Spec => []IInv
<1>1. Init => ResetsHaveCause /\ \A n \in Nodes : NodeInv(n)
  <2> SUFFICES ASSUME Init
               PROVE  ResetsHaveCause /\ \A n \in Nodes : NodeInv(n)
    OBVIOUS
  <2>1. ResetsHaveCause
    BY DEF Init, ResetsHaveCause, NoMail
  <2>2. ASSUME NEW n \in Nodes
        PROVE  NodeInv(n)
    <3>1. RamTable(n) = BareTable /\ Free(n)
      BY NobodyFeedsBare DEF Init, RamTable, Free
    <3>2. SavedTable(n) = BareTable
      BY BareInletsLinks, SaveInletsLinks DEF Init, SavedTable, BareTable
    <3>3. OutletSaved(n)
      BY FanOutAssumption, NothingType, ImageLinks DEF Init, OutletSaved, SaveOutlet
    <3>4. QED
      BY <3>1, <3>2, <3>3, NobodyFeedsBare, FreeIsNotLinking DEF NodeInv, Settled, UnderWay
  <2>3. QED
    BY <2>1, <2>2
<1>2. IInv /\ TypeOK' /\ [Next]_vars => IInv'
  BY StepKeeps, ResetsKeepCause DEF IInv, Kept
<1>3. Init /\ TypeOK => IInv
  BY <1>1 DEF IInv
<1>4. QED
  BY <1>2, <1>3, TypeCorrect, PTL DEF Spec

\* The links of one sender never spread over two inlets of a node, however many
\* inlets and ports there are.
THEOREM LinksStayOnOneInlet == Spec => []OneInletPerNode
<1>1. IInv => OneInletPerNode
  BY DEF IInv, NodeInv, OneEach, FedIn, RamTable, TableOf, OneInletPerNode, InletsOf
<1>2. QED
  BY <1>1, Invariance, PTL

\* A node that is switched off, in a call that sends data too, comes back with the
\* links it had, unless it is making or deleting one or RESET_CON cleared its
\* inlets.
THEOREM RestartIsSafe == Spec => []RestartKeepsLinks
<1>1. IInv => RestartKeepsLinks
  <2> SUFFICES ASSUME IInv, NEW n \in Nodes
               PROVE  /\ \A a \in Nodes : Names(eeOut[n], a) <=> HasLink(outlet[n], a)
                      /\ \/ Linking(n)
                         \/ "reset" \in Events /\ inlets[n] = BareInlets
                         \/ \A i \in Inlets : \A a \in Nodes :
                              Names(eeIn[n][i], a) <=> HasLink(inlets[n][i], a)
    BY DEF RestartKeepsLinks
  <2>1. NodeInv(n)
    BY DEF IInv
  <2>2. ASSUME RamTable(n) = SavedTable(n), NEW i \in Inlets, NEW a \in Nodes
        PROVE  Names(eeIn[n][i], a) <=> HasLink(inlets[n][i], a)
    <3>1. RamTable(n)[i] = SavedTable(n)[i]
      BY <2>2
    <3>2. QED
      BY <3>1 DEF RamTable, TableOf, SavedTable
  <2>3. QED
    BY <2>1, <2>2 DEF NodeInv, OutletSaved, Settled
<1>2. QED
  BY <1>1, Invariance, PTL

\* The steps of tables are those of PatchTable.
LEMMA CordStepIsPatch ==
  ASSUME NEW n \in Nodes, CordStep(SavedTable(n), SavedTable(n)')
  PROVE  UNCHANGED SavedTable(n) \/ Patches(n)!Next
<1> USE DEF Patches!Inlets, Inlets
<1>1. CASE SavedTable(n)' = BareTable
  <2>1. Patches(n)!Drop
    BY <1>1 DEF BareTable, Patches!Drop, Patches!Bare
  <2>2. QED
    BY <2>1 DEF Patches!Next
<1>2. ASSUME NEW i \in Inlets, NEW a \in Nodes,
             FedIn(SavedTable(n), a) \subseteq {i},
             SavedTable(n)' = PlugIn(SavedTable(n), i, a)
      PROVE  Patches(n)!Next
  <2>1. Patches(n)!Plug(i, a)
    BY <1>2 DEF FedIn, PlugIn, Patches!Plug, Patches!FedBy
  <2>2. QED
    BY <2>1 DEF Patches!Next
<1>3. ASSUME NEW i \in Inlets, NEW a \in Nodes,
             FedIn(SavedTable(n), a) = {i},
             SavedTable(n)' = PullOut(SavedTable(n), i, a)
      PROVE  Patches(n)!Next
  <2>1. Patches(n)!Unplug(i, a)
    BY <1>3 DEF FedIn, PullOut, Patches!Unplug, Patches!FedBy
  <2>2. QED
    BY <2>1 DEF Patches!Next
<1>4. ASSUME NEW i \in Inlets, NEW a \in Nodes,
             SavedTable(n)' = PlugIn(BareTable, i, a)
      PROVE  Patches(n)!Next
  <2>1. Patches(n)!Replug(i, a)
    BY <1>4 DEF PlugIn, BareTable, Patches!Replug, Patches!Bare
  <2>2. QED
    BY <2>1 DEF Patches!Next
<1>5. ASSUME NEW i \in Inlets, NEW a \in Nodes, NEW j \in Inlets \ {i},
             FedIn(SavedTable(n), a) = {i},
             SavedTable(n)' = PlugIn(PullOut(SavedTable(n), i, a), j, a)
      PROVE  Patches(n)!Next
  <2>1. PlugIn(PullOut(SavedTable(n), i, a), j, a) =
          [SavedTable(n) EXCEPT ![i] = @ \ {a}, ![j] = @ \cup {a}]
    BY DEF PlugIn, PullOut
  <2>2. Patches(n)!Move(i, j, a)
    BY <1>5, <2>1 DEF FedIn, Patches!Move, Patches!FedBy
  <2>3. QED
    BY <2>2 DEF Patches!Next
<1>6. QED
  BY <1>1, <1>2, <1>3, <1>4, <1>5 DEF CordStep

\* Every step of the links a node has saved is one of a table of patch cords,
\* whatever fails: what the run links_faulty checks on three nodes.
THEOREM SavesAreOneCord == Spec => ImplementsPatchTable
<1>1. Init => \A n \in Nodes : Patches(n)!Init
  <2> SUFFICES ASSUME Init, NEW n \in Nodes
               PROVE  Patches(n)!Init
    OBVIOUS
  <2>1. SavedTable(n) = BareTable
    BY BareInletsLinks, SaveInletsLinks DEF Init, SavedTable, BareTable
  <2>2. QED
    BY <2>1 DEF BareTable, Patches!Init, Patches!Bare, Patches!Inlets, Inlets
<1>2. IInv /\ TypeOK' /\ [Next]_vars =>
        [\A n \in Nodes : UNCHANGED SavedTable(n) \/ Patches(n)!Next]_eeIn
  BY StepKeeps, CordStepIsPatch DEF Kept
<1>3. QED
  BY <1>1, <1>2, Invariance, TypeCorrect, PTL DEF Spec, ImplementsPatchTable

\* A node that is in a call keeps its table in RAM or goes back to the saved one.
LEMMA CallerLoads ==
  ASSUME TypeOK, [Next]_vars, NEW n \in Nodes, ~Free(n)
  PROVE  RamTable(n)' \in {RamTable(n), SavedTable(n)}
<1>1. ASSUME inlets'[n] = inlets[n]
      PROVE  RamTable(n)' = RamTable(n)
  BY <1>1 DEF RamTable, TableOf
<1>2. ASSUME NEW k \in Nodes, GiveUp(k) \/ PowerCycle(k) \/ DieAfterAcknowledge(k)
      PROVE  RamTable(n)' \in {RamTable(n), SavedTable(n)}
  <2>1. LoadConnexions(k)
    BY <1>2 DEF GiveUp, PowerCycle, DieAfterAcknowledge
  <2>2. CASE k = n
    BY <2>1, <2>2, LoadConnexionsLinks
  <2>3. CASE k # n
    BY <1>1, <2>1, <2>3, LoadConnexionsLinks
  <2>4. QED
    BY <2>2, <2>3
<1>3. ASSUME NEW k \in Nodes, Tick(k)
      PROVE  RamTable(n)' = RamTable(n)
  <2>1. CASE k = n
    <3>1. inlets[n] \in InletState /\ inlets'[n] = OlderInlets(inlets[n])
      BY <1>3, <2>1 DEF Tick, TypeOK
    <3>2. QED
      BY <3>1, OlderInletsLinks DEF RamTable, TableOf
  <2>2. CASE k # n
    BY <1>1, <1>3, <2>2 DEF Tick, TypeOK
  <2>3. QED
    BY <2>1, <2>2
<1>4. ASSUME NEW k \in Nodes,
             \/ \E s \in Nodes : ProcessRequest(k, s)
             \/ ReceiveResetCon(k) \/ ClearAllConnexions(k) \/ ClearInletLinks(k)
      PROVE  RamTable(n)' = RamTable(n)
  <2>1. k # n
    BY <1>4 DEF ProcessRequest, ReceiveResetCon, Read, ClearAllConnexions, ClearInletLinks
  <2>2. inlets'[n] = inlets[n]
    BY <1>4, <2>1 DEF TypeOK, ProcessRequest, ReceiveResetCon, ClearAllConnexions,
                      ClearInletLinks
  <2>3. QED
    BY <1>1, <2>2
<1>5. ASSUME NEW k \in Nodes,
             \/ Retry(k) \/ Commit(k) \/ ReceiveAckLink(k) \/ ReceiveAckLinkDeleted(k)
             \/ (\E s \in Nodes : SendData(k, s)) \/ DataSent(k) \/ ReceiveData(k)
             \/ Overhear(k) \/ SnifferResets(k) \/ ClearOutletLinks(k)
      PROVE  RamTable(n)' = RamTable(n)
  <2>1. UNCHANGED inlets
    BY <1>5 DEF Retry, Commit, ReceiveAckLink, ReceiveAckLinkDeleted, SendData, DataSent,
                ReceiveData, Overhear, SnifferResets, ClearOutletLinks, ram
  <2>2. QED
    BY <1>1, <2>1
<1>6. CASE UNCHANGED vars
  BY <1>1, <1>6 DEF vars
<1>7. QED
  BY <1>2, <1>3, <1>4, <1>5, <1>6 DEF Next

\* Without RESET_CON, a call that ends, whichever way, leaves the links with
\* every node but the called one as they were.
THEOREM CallsConcernPeer ==
  ASSUME "reset" \notin Events
  PROVE  Spec => CallConcernsPeerOnly
<1>1. ASSUME IInv, [Next]_vars, NEW n \in Nodes, ~Free(n),
             NEW a \in Nodes \ {call[n].to}, NEW i \in Inlets
      PROVE  HasLink(inlets[n][i], a) <=> HasLink(inlets'[n][i], a)
  <2>1. TypeOK /\ Settled(n) /\ UnderWay(n)
    BY <1>1 DEF IInv, NodeInv
  <2>2. ASSUME Linking(n)
        PROVE  FedIn(RamTable(n), a) = FedIn(SavedTable(n), a)
    <3>1. call[n].to \in Nodes
      BY <2>1, <2>2 DEF UnderWay
    <3>2. PICK j \in Inlets :
            \/ RamTable(n) = PlugIn(SavedTable(n), j, call[n].to)
            \/ RamTable(n) = PullOut(SavedTable(n), j, call[n].to)
      BY <2>1, <2>2 DEF UnderWay, Bases
    <3>3. SavedTable(n) \in Tables
      BY DEF SavedTable, Tables
    <3>4. QED
      BY <1>1, <3>1, <3>2, <3>3, OneCord
  <2>3. ASSUME ~Linking(n)
        PROVE  FedIn(RamTable(n), a) = FedIn(SavedTable(n), a)
    BY <2>1, <2>3 DEF Settled
  <2>4. FedIn(RamTable(n), a) = FedIn(SavedTable(n), a)
    BY <2>2, <2>3
  <2>5. RamTable(n)' \in {RamTable(n), SavedTable(n)}
    BY <1>1, <2>1, CallerLoads
  <2>6. FedIn(RamTable(n)', a) = FedIn(RamTable(n), a)
    BY <2>4, <2>5
  <2>7. /\ i \in FedIn(RamTable(n), a) <=> HasLink(inlets[n][i], a)
        /\ i \in FedIn(RamTable(n)', a) <=> HasLink(inlets'[n][i], a)
    BY <1>1 DEF FedIn, RamTable, TableOf
  <2>8. QED
    BY <2>6, <2>7
<1>2. IInv /\ [Next]_vars =>
        [\A n \in Nodes : ~Free(n) /\ Free(n)' =>
           \A a \in Nodes \ {call[n].to} : \A i \in Inlets :
             HasLink(inlets[n][i], a) <=> HasLink(inlets'[n][i], a)]_vars
  BY <1>1
<1>3. QED
  BY <1>2, Invariance, PTL DEF Spec, CallConcernsPeerOnly

-----------------------------------------------------------------------------
(* What a save changes.  A table of links, unlike a table of patch cords,  *)
(* has an order, and may hold a node twice: what is known of it is how the *)
(* rows in RAM differ from those in EEPROM, in and outside a call.         *)

RowsInv(n) ==
  /\ \A i \in Inlets : Packed(eeIn[n][i])
  /\ Packed(eeOut[n])
  /\ Row(outlet[n]) = OutletIds(n)
  /\ ~Linking(n) => \/ Rows(inlets[n]) = InletIds(n)
                    \/ Rows(inlets[n]) = BareIds /\ Row(outlet[n]) = <<>>
  /\ Linking(n) => \/ OneRow(InletIds(n), Rows(inlets[n]))
                   \/ OneRow(BareIds, Rows(inlets[n]))

\* Who makes or deletes a link says who it is.
Signed == \A n \in Nodes : mail[n].type \in LinkType => mail[n].from \in Nodes

RowsIInv == IInv /\ Signed /\ \A n \in Nodes : RowsInv(n)

SaveIsSmall(n) == SmallSave(InletIds(n), OutletIds(n), InletIds(n)', OutletIds(n)')

RowsKept(n) == RowsInv(n)' /\ SaveIsSmall(n)

\* A step that leaves a node alone, or its EEPROM, makes no large save.
LEMMA NoSave ==
  ASSUME NEW n \in Nodes, eeIn'[n] = eeIn[n], eeOut'[n] = eeOut[n]
  PROVE  SaveIsSmall(n) /\ InletIds(n)' = InletIds(n) /\ OutletIds(n)' = OutletIds(n)
<1>1. InletIds(n)' = InletIds(n) /\ OutletIds(n)' = OutletIds(n)
  BY DEF InletIds, OutletIds
<1>2. QED
  BY <1>1 DEF SaveIsSmall, SmallSave, OutletChange

LEMMA ApartRows ==
  ASSUME NEW m \in Nodes, RowsInv(m), Apart(m)
  PROVE  RowsKept(m)
BY NoSave DEF Apart, RowsKept, RowsInv

\* What is saved are the rows that were to be saved.
LEMMA SavedIds ==
  ASSUME TypeOK, NEW n \in Nodes, NEW ins \in InletState, NEW out \in Ports(FanOut),
         SaveConnexions(n, ins, out)
  PROVE  /\ \A i \in Inlets : Packed(eeIn'[n][i])
         /\ Packed(eeOut'[n])
         /\ InletIds(n)' = Rows(ins)
         /\ OutletIds(n)' = Row(out)
<1>1. eeIn'[n] = SaveInlets(ins) /\ eeOut'[n] = Image(out)
  BY DEF SaveConnexions, SaveOutlet, TypeOK
<1>2. /\ \A i \in Inlets : Packed(SaveInlets(ins)[i])
      /\ [i \in Inlets |-> IdsIn(SaveInlets(ins)[i])] = Rows(ins)
  BY SavedRows
<1>3. Packed(Image(out))
  BY ImagePacked, FanOutAssumption
<1>4. QED
  BY <1>1, <1>2, <1>3 DEF InletIds, OutletIds, Row

\* A node that is free and has saved its links satisfies the invariant, and the
\* save was small if those links were.
LEMMA SavedRowsKept ==
  ASSUME TypeOK, NEW n \in Nodes, NEW ins \in InletState, NEW out \in Ports(FanOut),
         SaveConnexions(n, ins, out), inlets'[n] = ins, outlet'[n] = out, Free(n)',
         SmallSave(InletIds(n), OutletIds(n), Rows(ins), Row(out))
  PROVE  RowsKept(n)
BY SavedIds, FreeIsNotLinking DEF RowsKept, RowsInv, SaveIsSmall

\* A node that is free and has loaded its links satisfies the invariant.
LEMMA LoadedRowsKept ==
  ASSUME TypeOK, NEW n \in Nodes, RowsInv(n), LoadConnexions(n), UNCHANGED eeprom, Free(n)'
  PROVE  RowsKept(n)
<1>1. inlets'[n] = LoadInlets(eeIn[n]) /\ outlet'[n] = Load(eeOut[n])
  BY DEF LoadConnexions, LoadOutlet, TypeOK
<1>2. eeIn[n] \in InletImages /\ eeOut[n] \in Images(FanOut) /\ FanOut \in Nat
  BY FanOutAssumption DEF TypeOK
<1>3. Rows(inlets'[n]) = InletIds(n)
  BY <1>1, <1>2, LoadedRows DEF RowsInv, InletIds
<1>4. Row(outlet'[n]) = OutletIds(n)
  BY <1>1, <1>2, LoadRow DEF RowsInv, OutletIds
<1>5. eeIn'[n] = eeIn[n] /\ eeOut'[n] = eeOut[n]
  BY DEF eeprom
<1>6. SaveIsSmall(n) /\ InletIds(n)' = InletIds(n) /\ OutletIds(n)' = OutletIds(n)
  BY <1>5, NoSave
<1>7. QED
  BY <1>3, <1>4, <1>5, <1>6, FreeIsNotLinking DEF RowsKept, RowsInv

\* A request changes one row in RAM and waits for the call, or moves a link
\* between two rows and saves them.
LEMMA ProcessRequestRows ==
  ASSUME TypeOK, NEW n \in Nodes, NEW s \in Nodes, RowsInv(n), ProcessRequest(n, s)
  PROVE  RowsKept(n)
<1> DEFINE result == RequestForConnexion(inlets[n], s)
           old    == Rows(inlets[n])
           new    == Rows(result.inlets)
<1>1. inlets[n] \in InletState /\ outlet[n] \in Ports(FanOut) /\ Free(n)
  BY DEF TypeOK, ProcessRequest
<1>2. /\ result.inlets \in InletState
      /\ \/ result = Result("none", inlets[n])
         \/ result.action \in {"added", "deleted"} /\ OneRow(old, new)
         \/ result.action = "moved" /\ TwoRows(old, new)
  BY <1>1, RequestRows, RequestType
<1>3. inlets'[n] = result.inlets /\ outlet' = outlet
  BY <1>1 DEF ProcessRequest, TypeOK
<1>4. \/ /\ result.action \in {"added", "deleted"}
         /\ call' = [call EXCEPT ![n] = CallTo(s, ReplyTo(result.action))]
         /\ UNCHANGED eeprom
      \/ /\ result.action = "moved"
         /\ SaveConnexions(n, result.inlets, outlet[n])
         /\ UNCHANGED call
      \/ /\ result.action = "none"
         /\ UNCHANGED eeprom
         /\ UNCHANGED call
  BY DEF ProcessRequest
<1>5. result.action = "none" => result.inlets = inlets[n]
  BY <1>2 DEF Result
<1>6. result.action \in {"added", "deleted"} => OneRow(old, new)
  BY <1>2 DEF Result
<1>7. result.action = "moved" => TwoRows(old, new)
  BY <1>2 DEF Result
<1>8. old = InletIds(n) \/ old = BareIds
  BY <1>1, FreeIsNotLinking DEF RowsInv
<1> HIDE DEF result, old
<1>9. CASE /\ result.action \in {"added", "deleted"}
           /\ call' = [call EXCEPT ![n] = CallTo(s, ReplyTo(result.action))]
           /\ UNCHANGED eeprom
  <2>1. call'[n] = CallTo(s, ReplyTo(result.action))
    BY <1>9 DEF TypeOK
  <2>2. Linking(n)'
    BY <2>1 DEF Linking, LinkType, CallTo, ReplyTo
  <2>3. SaveIsSmall(n) /\ InletIds(n)' = InletIds(n) /\ OutletIds(n)' = OutletIds(n)
    BY <1>9, NoSave DEF eeprom
  <2>4. QED
    BY <1>3, <1>6, <1>8, <1>9, <2>2, <2>3 DEF RowsKept, RowsInv, eeprom
<1>10. CASE /\ result.action = "moved"
            /\ SaveConnexions(n, result.inlets, outlet[n])
            /\ UNCHANGED call
  <2>1. Row(outlet[n]) = OutletIds(n) /\ Free(n)' /\ outlet'[n] = outlet[n]
    BY <1>1, <1>3, <1>10 DEF RowsInv, Free
  <2>2. InletChange(old, new)
    BY <1>7, <1>10 DEF InletChange, TwoRows
  <2>3. SmallSave(InletIds(n), OutletIds(n), new, Row(outlet[n]))
    BY <1>8, <2>1, <2>2 DEF SmallSave
  <2>4. QED
    BY <1>1, <1>2, <1>3, <1>10, <2>1, <2>3, SavedRowsKept
<1>11. CASE /\ result.action = "none"
            /\ UNCHANGED eeprom
            /\ UNCHANGED call
  <2>1. Apart(n)
    BY <1>3, <1>5, <1>11 DEF Apart, Linking, eeprom
  <2>2. QED
    BY <2>1, ApartRows
<1>12. QED
  BY <1>4, <1>9, <1>10, <1>11

\* A call that succeeds saves the one row it has changed.
LEMMA CommitRows ==
  ASSUME TypeOK, NEW n \in Nodes, RowsInv(n), Commit(n)
  PROVE  RowsKept(n)
<1>1. inlets[n] \in InletState /\ outlet[n] \in Ports(FanOut) /\ Linking(n)
  BY DEF TypeOK, Commit
<1>2. Free(n)' /\ inlets'[n] = inlets[n] /\ outlet'[n] = outlet[n]
  BY DEF Commit, Free, TypeOK, ram
<1>3. /\ Row(outlet[n]) = OutletIds(n)
      /\ \/ InletChange(InletIds(n), Rows(inlets[n]))
         \/ InletChange(BareIds, Rows(inlets[n]))
  BY <1>1 DEF RowsInv, OneRow, InletChange, OneLink
<1>4. SmallSave(InletIds(n), OutletIds(n), Rows(inlets[n]), Row(outlet[n]))
  BY <1>3 DEF SmallSave
<1>5. QED
  BY <1>1, <1>2, <1>4, SavedRowsKept DEF Commit

\* A packet that is read changes the table of the outlet by one link; the inlets
\* are saved with it, bare ones too.
LEMMA ReceiveRows ==
  ASSUME TypeOK, TypeOK', Signed, NEW n \in Nodes, RowsInv(n),
         ReceiveAckLink(n) \/ ReceiveAckLinkDeleted(n)
  PROVE  RowsKept(n)
<1>1. /\ ~Linking(n) /\ Free(n)'
      /\ \A m \in Nodes : (Linking(m)' <=> Linking(m)) /\ call'[m].to = call[m].to
  BY AcknowledgeType, FreeIsNotLinking DEF ReceiveAckLink, ReceiveAckLinkDeleted, Read, TypeOK
<1>2. inlets[n] \in InletState /\ outlet[n] \in Ports(FanOut) /\ FanOut \in Nat
  BY FanOutAssumption DEF TypeOK
<1>3. mail[n].from \in Nodes
  BY DEF Signed, ReceiveAckLink, ReceiveAckLinkDeleted, Read, LinkType
<1>4. PICK new :
        /\ outlet' = [outlet EXCEPT ![n] = new]
        /\ UNCHANGED inlets
        /\ \/ new = outlet[n] /\ UNCHANGED eeprom
           \/ new # outlet[n] /\ SaveConnexions(n, inlets[n], new)
        /\ \/ new = Connect(outlet[n], Fixed(mail[n].from))
           \/ new = Disconnect(outlet[n], mail[n].from)
  BY DEF ReceiveAckLink, ReceiveAckLinkDeleted
<1>5. outlet'[n] = new /\ new \in Ports(FanOut) /\ inlets'[n] = inlets[n]
  BY <1>4 DEF TypeOK
<1>6. CASE new = outlet[n] /\ UNCHANGED eeprom
  <2>1. Apart(n)
    BY <1>1, <1>4, <1>5, <1>6 DEF Apart, eeprom
  <2>2. QED
    BY <2>1, ApartRows
<1>7. CASE new # outlet[n] /\ SaveConnexions(n, inlets[n], new)
  <2>1. ASSUME new = Connect(outlet[n], Fixed(mail[n].from))
        PROVE  OneLink(Row(outlet[n]), Row(new))
    <3>1. ~IsFull(outlet[n])
      BY <1>7, <2>1 DEF Connect
    <3>2. Fixed(mail[n].from) \in Port /\ Fixed(mail[n].from).node = mail[n].from
      BY <1>3, LinkTypes DEF Fixed
    <3>3. Table!Plugged(Row(outlet[n]), Row(new))
      BY <1>2, <1>3, <2>1, <3>1, <3>2, ConnectRow
    <3>4. QED
      BY <3>3 DEF OneLink
  <2>2. ASSUME new = Disconnect(outlet[n], mail[n].from)
        PROVE  OneLink(Row(outlet[n]), Row(new))
    <3>1. outlet[n] = [k \in DOMAIN outlet[n] |-> outlet[n][k]]
      BY <1>2 DEF Ports
    <3>2. HasLink(outlet[n], mail[n].from)
      BY <1>7, <2>2, <3>1 DEF Disconnect, HasLink, PortsOf
    <3>3. Table!Unplugged(Row(outlet[n]), Row(new))
      BY <1>2, <1>3, <2>2, <3>2, DisconnectRow
    <3>4. QED
      BY <3>3 DEF OneLink
  <2>3. OneLink(Row(outlet[n]), Row(new))
    BY <1>4, <2>1, <2>2
  <2>4. SmallSave(InletIds(n), OutletIds(n), Rows(inlets[n]), Row(new))
    BY <1>1, <2>3 DEF RowsInv, SmallSave, OutletChange
  <2>5. QED
    BY <1>1, <1>2, <1>5, <1>7, <2>4, SavedRowsKept
<1>8. QED
  BY <1>4, <1>6, <1>7

\* RESET_CON and the clear keys empty rows, in RAM and in EEPROM or in RAM alone.
LEMMA EmptyRows ==
  ASSUME TypeOK, NEW n \in Nodes, RowsInv(n),
         \/ ReceiveResetCon(n) \/ ClearAllConnexions(n)
         \/ ClearInletLinks(n) \/ ClearOutletLinks(n)
  PROVE  RowsKept(n)
<1>1. /\ BareInlets \in InletState /\ Rows(BareInlets) = BareIds
      /\ AllIdle(FanOut) \in Ports(FanOut) /\ Row(AllIdle(FanOut)) = <<>>
  BY BareInletsLinks, BareRows, NothingType, AllIdleRow, FanOutAssumption DEF BareIds
<1>2. Free(n)' /\ ~Linking(n) /\ ~Linking(n)'
  BY FreeIsNotLinking DEF ReceiveResetCon, Read, ClearAllConnexions, ClearInletLinks,
     ClearOutletLinks, Free
<1>3. /\ \A i \in Inlets : Packed(SaveInlets(BareInlets)[i])
      /\ [i \in Inlets |-> IdsIn(SaveInlets(BareInlets)[i])] = BareIds
      /\ Packed(Image(AllIdle(FanOut))) /\ IdsIn(Image(AllIdle(FanOut))) = <<>>
  BY <1>1, SavedRows, ImagePacked, FanOutAssumption DEF Row
<1>4. CASE ClearAllConnexions(n)
  <2>1. inlets'[n] = BareInlets /\ outlet'[n] = AllIdle(FanOut)
    BY <1>4 DEF ClearAllConnexions, TypeOK
  <2>2. SmallSave(InletIds(n), OutletIds(n), BareIds, <<>>)
    BY DEF SmallSave, OutletChange
  <2>3. QED
    BY <1>1, <1>2, <1>4, <2>1, <2>2, SavedRowsKept DEF ClearAllConnexions
<1>5. CASE ClearInletLinks(n)
  <2>1. /\ inlets'[n] = BareInlets /\ eeIn'[n] = SaveInlets(BareInlets)
        /\ outlet'[n] = outlet[n] /\ eeOut'[n] = eeOut[n]
    BY <1>5 DEF ClearInletLinks, TypeOK
  <2>2. InletIds(n)' = BareIds /\ OutletIds(n)' = OutletIds(n)
    BY <1>3, <2>1 DEF InletIds, OutletIds
  <2>3. SaveIsSmall(n)
    BY <2>2 DEF SaveIsSmall, SmallSave
  <2>4. QED
    BY <1>1, <1>2, <1>3, <2>1, <2>2, <2>3 DEF RowsKept, RowsInv
<1>6. CASE ClearOutletLinks(n) \/ ReceiveResetCon(n)
  <2>1. /\ outlet'[n] = AllIdle(FanOut) /\ eeOut'[n] = Image(AllIdle(FanOut))
        /\ inlets'[n] \in {inlets[n], BareInlets} /\ eeIn'[n] = eeIn[n]
    BY <1>6 DEF ClearOutletLinks, ReceiveResetCon, SaveOutlet, TypeOK
  <2>2. OutletIds(n)' = <<>> /\ InletIds(n)' = InletIds(n)
    BY <1>3, <2>1 DEF InletIds, OutletIds
  <2>3. SaveIsSmall(n)
    BY <2>2 DEF SaveIsSmall, SmallSave, OutletChange
  <2>4. Rows(inlets[n]) = InletIds(n) \/ Rows(inlets[n]) = BareIds
    BY <1>2 DEF RowsInv
  <2>5. QED
    BY <1>1, <1>2, <1>3, <2>1, <2>2, <2>3, <2>4 DEF RowsKept, RowsInv
<1>7. QED
  BY <1>4, <1>5, <1>6

\* Time changes no row.
LEMMA TickRows ==
  ASSUME TypeOK, NEW n \in Nodes, RowsInv(n), Tick(n)
  PROVE  RowsKept(n)
<1>1. inlets'[n] = OlderInlets(inlets[n]) /\ UNCHANGED <<outlet, eeIn, eeOut, call>>
  BY DEF Tick, TypeOK, eeprom
<1>2. Rows(inlets'[n]) = Rows(inlets[n])
  BY <1>1, OlderRows DEF TypeOK
<1>3. SaveIsSmall(n) /\ InletIds(n)' = InletIds(n) /\ OutletIds(n)' = OutletIds(n)
  BY <1>1, NoSave
<1>4. QED
  BY <1>1, <1>2, <1>3 DEF RowsKept, RowsInv, Linking

\* Nobody sends an unsigned packet about a link.
LEMMA StaysSigned ==
  ASSUME TypeOK, Signed, [Next]_vars
  PROVE  Signed'
<1>1. ASSUME NEW from \in Nodes, NEW to, NEW type, Transmit(from, to, LinkPacket(from, type))
      PROVE  Signed'
  BY <1>1 DEF TypeOK, Signed, Transmit, LinkPacket, NoMail, LinkType
<1>2. ASSUME NEW n \in Nodes, NEW s \in Nodes, ProcessRequest(n, s)
      PROVE  Signed'
  <2>1. \/ UNCHANGED mail
        \/ LET reply == ReplyTo(RequestForConnexion(inlets[n], s).action)
           IN  Transmit(n, s, LinkPacket(n, reply))
    BY <1>2 DEF ProcessRequest
  <2>2. QED
    BY <1>1, <2>1 DEF Signed
<1>3. ASSUME NEW n \in Nodes, Retry(n)
      PROVE  Signed'
  BY <1>1, <1>3 DEF Retry
<1>4. ASSUME NEW n \in Nodes,
             \/ Commit(n) \/ GiveUp(n) \/ DataSent(n) \/ ClearAllConnexions(n)
             \/ ClearInletLinks(n) \/ ClearOutletLinks(n) \/ Tick(n)
      PROVE  Signed'
  BY <1>4 DEF Signed, Commit, GiveUp, DataSent, ClearAllConnexions, ClearInletLinks,
              ClearOutletLinks, Tick
<1>5. ASSUME NEW n \in Nodes,
             \/ ReceiveAckLink(n) \/ ReceiveAckLinkDeleted(n) \/ ReceiveResetCon(n)
             \/ ReceiveData(n) \/ Overhear(n) \/ PowerCycle(n) \/ DieAfterAcknowledge(n)
      PROVE  Signed'
  <2>1. mail' = [mail EXCEPT ![n] = NoMail]
    BY <1>5 DEF ReceiveAckLink, ReceiveAckLinkDeleted, ReceiveResetCon, ReceiveData, Read,
                Overhear, PowerCycle, DieAfterAcknowledge
  <2>2. QED
    BY <2>1 DEF TypeOK, Signed, NoMail, LinkType
<1>6. ASSUME NEW n \in Nodes, SnifferResets(n)
      PROVE  Signed'
  BY <1>6 DEF SnifferResets, Signed, TypeOK, LinkType
<1>7. ASSUME NEW n \in Nodes, NEW s \in Nodes, SendData(n, s)
      PROVE  Signed'
  BY <1>1, <1>7 DEF SendData
<1>8. CASE UNCHANGED vars
  BY <1>8 DEF vars, Signed
<1>9. QED
  BY <1>2, <1>3, <1>4, <1>5, <1>6, <1>7, <1>8 DEF Next

\* Each step keeps the rows of every node as the invariant has them, and saves
\* no more than a small change of them.
LEMMA StepRows ==
  ASSUME RowsIInv, TypeOK', [Next]_vars
  PROVE  \A m \in Nodes : RowsKept(m)
<1>1. IInv /\ TypeOK /\ Signed /\ \A m \in Nodes : RowsInv(m)
  BY DEF RowsIInv, IInv
<1>2. ASSUME NEW n \in Nodes, Acts(n)
      PROVE  RowsKept(n)
  <2>1. CASE Free(n)' /\ LoadConnexions(n) /\ UNCHANGED eeprom
    BY <1>1, <2>1, LoadedRowsKept
  <2>2. QED
    BY <1>1, <1>2, <2>1, ProcessRequestRows, CommitRows, ReceiveRows, EmptyRows,
       TickRows DEF Acts
<1>3. QED
  BY <1>1, <1>2, StepIsLocal, ApartRows DEF Local

LEMMA InitRows ==
  ASSUME Init
  PROVE  Signed /\ \A n \in Nodes : RowsInv(n)
<1>1. /\ Rows(BareInlets) = BareIds /\ BareInlets \in InletState
      /\ AllIdle(FanOut) \in Ports(FanOut)
  BY BareInletsLinks, BareRows, NothingType DEF BareIds
<1>2. /\ \A i \in Inlets : Packed(SaveInlets(BareInlets)[i])
      /\ [i \in Inlets |-> IdsIn(SaveInlets(BareInlets)[i])] = Rows(BareInlets)
      /\ Packed(Image(AllIdle(FanOut)))
  BY <1>1, SavedRows, ImagePacked, FanOutAssumption
<1>3. Signed
  BY DEF Init, Signed, NoMail, LinkType
<1>4. ASSUME NEW n \in Nodes
      PROVE  RowsInv(n)
  <2>1. /\ inlets[n] = BareInlets /\ outlet[n] = AllIdle(FanOut) /\ ~Linking(n)
        /\ eeIn[n] = SaveInlets(BareInlets) /\ eeOut[n] = Image(AllIdle(FanOut))
    BY FreeIsNotLinking DEF Init, SaveOutlet, Free
  <2>2. QED
    BY <1>2, <2>1 DEF RowsInv, InletIds, OutletIds, Row
<1>5. QED
  BY <1>3, <1>4

\* What a node saves differs from what it saved before by one small change: what
\* LinkStore assumes of the saves is what the links between gluons make of them.
THEOREM SavesMakeSmallChanges == Spec => SavesAreSmall
<1>1. Init /\ IInv => RowsIInv
  BY InitRows DEF RowsIInv
<1>2. RowsIInv /\ TypeOK' /\ IInv' /\ [Next]_vars => RowsIInv'
  BY StepRows, StaysSigned DEF RowsIInv, RowsKept, IInv
<1>3. RowsIInv /\ TypeOK' /\ [Next]_vars =>
        [\A n \in Nodes : SmallSave(InletIds(n), OutletIds(n), InletIds(n)', OutletIds(n)')]_eeprom
  BY StepRows DEF RowsKept, SaveIsSmall
<1>4. QED
  BY <1>1, <1>2, <1>3, TypeCorrect, Invariance, PTL DEF Spec, SavesAreSmall

-----------------------------------------------------------------------------
(* Both ends of a link.  What a call about a link asks for is known at every *)
(* moment from what the caller has saved; so any packet about it, of this    *)
(* call or of one that was given up, asks the same, and an answer that comes *)
(* late or belongs to an older one of these packets does no harm.            *)

\* No more nodes hear a beacon than an outlet has ports, and no node hears so many
\* that they could fill all its inlets but one.
HaveRoom ==
  \A n \in Nodes : /\ HaveSpace(Heard(n))
                   /\ IsFiniteSet(Hearers(n))
                   /\ Cardinality(Hearers(n)) <= FanOut

\* Whether n has a link from a, in RAM and in EEPROM, and what a call to a is
\* about then.
Linked(n, a)    == FedIn(RamTable(n), a) # {}
LinkSaved(n, a) == FedIn(SavedTable(n), a) # {}
Asked(n, a)     == IF LinkSaved(n, a) THEN "ACK_LINK_DELETED" ELSE "ACK_LINK"

\* The links of a node and its packets about them: its inlets hold each sender
\* once, its call and every packet of it, however old, ask for the opposite of
\* what is saved, and a call that is acknowledged has no packet left that somebody
\* could read.
AsksFor(n) ==
  /\ AllOnce(inlets[n])
  /\ \A i \in Inlets : NamedOnce(eeIn[n][i])
  /\ \A a \in Nodes : Linked(n, a) \/ LinkSaved(n, a) => a \in Heard(n)
  /\ Linking(n) => /\ call[n].to \in Heard(n)
                   /\ call[n].type = Asked(n, call[n].to)
                   /\ Linked(n, call[n].to) <=> ~LinkSaved(n, call[n].to)
                   /\ call[n].acked => mail[call[n].to].from # n
  /\ \A s \in Nodes : mail[s].from = n /\ mail[s].type \in LinkType =>
                       s \in Heard(n) /\ mail[s].type = Asked(n, s)

\* What an acknowledgement does to each call.
LEMMA AcknowledgeCalls ==
  ASSUME call \in [Nodes -> Call], NEW n \in Nodes, NEW from, Acknowledge(n, from)
  PROVE  \A m \in Nodes :
           /\ call'[m].type = call[m].type /\ call'[m].to = call[m].to
           /\ Linking(m)' <=> Linking(m)
           /\ m # from => call'[m] = call[m]
           /\ call'[m].acked => call[m].acked \/ (m = from /\ call[m].to = n)
           /\ m = from /\ call[m].to = n /\ "noack" \notin Events => call'[m].acked
<1>1. \A m \in Nodes : /\ call'[m].type = call[m].type /\ call'[m].to = call[m].to
                       /\ Linking(m)' <=> Linking(m)
  BY AcknowledgeType
<1>2. \A m \in Nodes : DOMAIN call[m] = {"type", "to", "left", "acked"}
  BY DEF Call
<1>3. ASSUME NEW m \in Nodes
      PROVE  /\ m # from => call'[m] = call[m]
             /\ call'[m].acked => call[m].acked \/ (m = from /\ call[m].to = n)
             /\ m = from /\ call[m].to = n /\ "noack" \notin Events => call'[m].acked
  <2>1. CASE UNCHANGED call /\ ("noack" \in Events \/ ~(from \in Nodes /\ call[from].to = n))
    BY <2>1
  <2>2. CASE /\ from \in Nodes /\ call[from].to = n
             /\ call' = [call EXCEPT ![from].acked = TRUE]
    <3>1. call[from] \in Call
      BY <2>2
    <3>2. call'[from] = [call[from] EXCEPT !.acked = TRUE]
      BY <2>2
    <3>3. call'[from].acked
      BY <3>1, <3>2 DEF Call
    <3>4. \A k \in Nodes \ {from} : call'[k] = call[k]
      BY <2>2
    <3>5. QED
      BY <2>2, <3>3, <3>4
  <2>3. QED
    BY <2>1, <2>2 DEF Acknowledge
<1>4. QED
  BY <1>1, <1>3

\* A step that leaves the inlets of a node alone, and its packets and calls about
\* links but for what others read of them.
Bystander(n) ==
  /\ inlets'[n] = inlets[n] /\ eeIn'[n] = eeIn[n]
  /\ Linking(n)' <=> Linking(n)
  /\ Linking(n) => /\ call'[n].type = call[n].type /\ call'[n].to = call[n].to
                   /\ call'[n].acked => call[n].acked \/ mail'[call[n].to].from # n
  /\ \A s \in Nodes : mail'[s].from = n /\ mail'[s] # mail[s] =>
                       mail'[s].type \notin LinkType /\ ~Linking(n)

\* A step that leaves the tables of a node alone leaves what it would ask for.
LEMMA SameLinks ==
  ASSUME NEW n \in Nodes, RamTable(n)' = RamTable(n), SavedTable(n)' = SavedTable(n)
  PROVE  \A a \in Nodes : /\ Linked(n, a)' <=> Linked(n, a)
                          /\ LinkSaved(n, a)' <=> LinkSaved(n, a)
                          /\ Asked(n, a)' = Asked(n, a)
BY DEF Linked, LinkSaved, Asked

\* A node that stands by still asks for the opposite of what it has saved.
LEMMA BystanderAsks ==
  ASSUME NEW n \in Nodes, AsksFor(n), Bystander(n)
  PROVE  AsksFor(n)' /\ \A a \in Nodes : LinkSaved(n, a)' <=> LinkSaved(n, a)
<1>1. RamTable(n)' = RamTable(n) /\ SavedTable(n)' = SavedTable(n)
  BY DEF Bystander, RamTable, TableOf, SavedTable
<1>2. \A a \in Nodes : /\ Linked(n, a)' <=> Linked(n, a)
                       /\ LinkSaved(n, a)' <=> LinkSaved(n, a)
                       /\ Asked(n, a)' = Asked(n, a)
  BY <1>1, SameLinks
<1>3. Heard(n)' = Heard(n) /\ Heard(n) \subseteq Nodes
  BY DEF Heard
<1>4. AllOnce(inlets'[n]) /\ \A i \in Inlets : NamedOnce(eeIn'[n][i])
  BY DEF AsksFor, Bystander
<1>5. \A a \in Nodes : Linked(n, a)' \/ LinkSaved(n, a)' => a \in Heard(n)
  BY <1>2 DEF AsksFor
<1>6. ASSUME Linking(n)'
      PROVE  /\ call'[n].to \in Heard(n)
             /\ call'[n].type = Asked(n, call[n].to)'
             /\ Linked(n, call[n].to)' <=> ~LinkSaved(n, call[n].to)'
             /\ call'[n].acked => mail'[call[n].to].from # n
  <2>1. call[n].to \in Heard(n) /\ call[n].to \in Nodes /\ Linking(n)
    BY <1>3, <1>6 DEF AsksFor, Bystander
  <2>2. call'[n].acked => mail'[call[n].to].from # n
    BY <2>1 DEF AsksFor, Bystander
  <2>3. QED
    BY <1>2, <2>1, <2>2 DEF AsksFor, Bystander
<1>7. \A s \in Nodes : mail'[s].from = n /\ mail'[s].type \in LinkType =>
                         s \in Heard(n) /\ mail'[s].type = Asked(n, s)'
  BY <1>2 DEF AsksFor, Bystander
<1>8. QED
  BY <1>2, <1>3, <1>4, <1>5, <1>6, <1>7 DEF AsksFor, Bystander

-----------------------------------------------------------------------------
(* What each step of a node does to what it asks for.                      *)

\* Outside a call about a link, a node that nobody resets has saved its links; in
\* one, it has saved those with every node but the called one.
LEMMA SavedIsLinked ==
  ASSUME "reset" \notin Events, NEW n \in Nodes, NodeInv(n)
  PROVE  /\ ~Linking(n) => RamTable(n) = SavedTable(n)
         /\ \A a \in Nodes \ {call[n].to} : Linking(n) => (Linked(n, a) <=> LinkSaved(n, a))
<1>1. Bases(n) = {SavedTable(n)}
  BY DEF Bases
<1>2. ASSUME Linking(n), NEW a \in Nodes \ {call[n].to}
      PROVE  Linked(n, a) <=> LinkSaved(n, a)
  <2>1. SavedTable(n) \in Tables
    BY DEF SavedTable, Tables
  <2>2. PICK i \in Inlets : \/ RamTable(n) = PlugIn(SavedTable(n), i, call[n].to)
                            \/ RamTable(n) = PullOut(SavedTable(n), i, call[n].to)
    BY <1>1, <1>2 DEF NodeInv, UnderWay
  <2>3. call[n].to \in Nodes
    BY <1>2 DEF NodeInv, UnderWay
  <2>4. FedIn(RamTable(n), a) = FedIn(SavedTable(n), a)
    BY <1>2, <2>1, <2>2, <2>3, OneCord
  <2>5. QED
    BY <2>4 DEF Linked, LinkSaved
<1>3. ~Linking(n) => RamTable(n) = SavedTable(n)
  BY DEF NodeInv, Settled
<1>4. QED
  BY <1>2, <1>3

\* A packet that is sent reaches the called node at most.
LEMMA TransmitMail ==
  ASSUME mail \in [Nodes -> Packet], NEW n \in Nodes, NEW to, NEW packet,
         Transmit(n, to, packet)
  PROVE  \A s \in Nodes : \/ mail'[s] \in {mail[s], NoMail}
                          \/ s = to /\ mail'[s] = packet
BY DEF Transmit

\* A request makes the first link with a node, moves it, or removes the last one.
LEMMA RequestAsked ==
  ASSUME IInv, NEW n \in Nodes, HaveSpace(Heard(n)), AsksFor(n), NEW s \in Nodes
  PROVE  LET result == RequestForConnexion(inlets[n], s)
             u      == TableOf(result.inlets)
         IN  /\ result.inlets \in InletState
             /\ AllOnce(result.inlets)
             /\ \A a \in Nodes \ {s} : FedIn(u, a) = FedIn(RamTable(n), a)
             /\ result.action = "none" => result.inlets = inlets[n]
             /\ result.action \in {"none", "added", "deleted", "moved"}
             /\ result.action = "added" => ~Linked(n, s)
             /\ result.action \in {"deleted", "moved"} => Linked(n, s)
             /\ result.action \in {"added", "moved"} => FedIn(u, s) # {}
             /\ result.action = "deleted" => FedIn(u, s) = {}
<1> DEFINE result == RequestForConnexion(inlets[n], s)
           t      == RamTable(n)
           u      == TableOf(result.inlets)
<1>1. TypeOK /\ NodeInv(n) /\ inlets[n] \in InletState /\ t \in Tables
  BY TableType DEF IInv, TypeOK, RamTable
<1>2. \A b \in Nodes : InletsOf(inlets[n], b) = FedIn(t, b)
  BY DEF InletsOf, FedIn, RamTable, TableOf
<1>3. /\ AllOnce(inlets[n])
      /\ \A b \in Nodes : \A i, j \in InletsOf(inlets[n], b) : i = j
      /\ \A b \in Nodes : InletsOf(inlets[n], b) # {} => b \in Heard(n)
  BY <1>1, <1>2 DEF AsksFor, Linked, NodeInv, OneEach
<1>4. AllOnce(result.inlets) /\ (result.action = "added" => InletsOf(inlets[n], s) = {})
  BY <1>1, <1>3, RequestOnce
<1>5. /\ result.inlets \in InletState
      /\ \/ result = Result("none", inlets[n])
         \/ /\ result.action = "added"
            /\ \E i \in Inlets : FedIn(t, s) \subseteq {i} /\ u = PlugIn(t, i, s)
         \/ /\ result.action = "deleted"
            /\ \E i \in Inlets : FedIn(t, s) = {i} /\ u = PullOut(t, i, s)
         \/ /\ result.action = "moved"
            /\ \E i \in Inlets : \E j \in Inlets \ {i} :
                 FedIn(t, s) = {i} /\ u = PlugIn(PullOut(t, i, s), j, s)
  BY <1>1, RequestTable DEF NodeInv, RamTable
<1> HIDE DEF result, t, u
<1>6. CASE result = Result("none", inlets[n])
  <2>1. result.action = "none" /\ result.inlets = inlets[n]
    BY <1>6 DEF Result
  <2>2. u = t
    BY <2>1 DEF u, t, RamTable
  <2>3. QED
    BY <1>4, <1>5, <2>1, <2>2 DEF result, t, u
<1>7. CASE /\ result.action = "added"
           /\ \E i \in Inlets : FedIn(t, s) \subseteq {i} /\ u = PlugIn(t, i, s)
  <2>1. PICK i \in Inlets : u = PlugIn(t, i, s)
    BY <1>7
  <2>2. /\ FedIn(u, s) = FedIn(t, s) \cup {i}
        /\ \A a \in Nodes \ {s} : FedIn(u, a) = FedIn(t, a)
    BY <1>1, <2>1, OneCord
  <2>3. ~Linked(n, s)
    BY <1>2, <1>4, <1>7 DEF Linked, t
  <2>4. QED
    BY <1>4, <1>5, <1>7, <2>2, <2>3 DEF result, t, u
<1>8. CASE /\ result.action = "deleted"
           /\ \E i \in Inlets : FedIn(t, s) = {i} /\ u = PullOut(t, i, s)
  <2>1. PICK i \in Inlets : FedIn(t, s) = {i} /\ u = PullOut(t, i, s)
    BY <1>8
  <2>2. FedIn(u, s) = {} /\ \A a \in Nodes \ {s} : FedIn(u, a) = FedIn(t, a)
    BY <1>1, <2>1, OneCord
  <2>3. Linked(n, s)
    BY <2>1 DEF Linked, t
  <2>4. QED
    BY <1>4, <1>5, <1>8, <2>2, <2>3 DEF result, t, u
<1>9. CASE /\ result.action = "moved"
           /\ \E i \in Inlets : \E j \in Inlets \ {i} :
                FedIn(t, s) = {i} /\ u = PlugIn(PullOut(t, i, s), j, s)
  <2>1. PICK i \in Inlets : \E j \in Inlets \ {i} :
          FedIn(t, s) = {i} /\ u = PlugIn(PullOut(t, i, s), j, s)
    BY <1>9
  <2>2. PICK j \in Inlets \ {i} : u = PlugIn(PullOut(t, i, s), j, s)
    BY <2>1
  <2>3. /\ PullOut(t, i, s) \in Tables
        /\ \A a \in Nodes \ {s} : FedIn(PullOut(t, i, s), a) = FedIn(t, a)
    BY <1>1, OneCord
  <2>4. /\ FedIn(u, s) = FedIn(PullOut(t, i, s), s) \cup {j}
        /\ \A a \in Nodes \ {s} : FedIn(u, a) = FedIn(t, a)
    BY <2>2, <2>3, OneCord
  <2>5. Linked(n, s)
    BY <2>1 DEF Linked, t
  <2>6. QED
    BY <1>4, <1>5, <1>9, <2>4, <2>5 DEF result, t, u
<1>10. QED
  BY <1>5, <1>6, <1>7, <1>8, <1>9

\* A request asks the called node for the opposite of what is saved.
LEMMA ProcessRequestAsks ==
  ASSUME IInv, "reset" \notin Events, NEW n \in Nodes, HaveSpace(Heard(n)), AsksFor(n),
         NEW s \in Nodes, ProcessRequest(n, s)
  PROVE  AsksFor(n)' /\ \A a \in Nodes : LinkSaved(n, a)' <=> LinkSaved(n, a)
<1> DEFINE result == RequestForConnexion(inlets[n], s)
           u      == TableOf(result.inlets)
           reply  == ReplyTo(result.action)
<1>1. TypeOK /\ NodeInv(n) /\ ~Linking(n) /\ s \in Heard(n) /\ outlet[n] \in Ports(FanOut)
  BY FreeIsNotLinking DEF IInv, TypeOK, ProcessRequest, Heard
<1>2. /\ result.inlets \in InletState
      /\ AllOnce(result.inlets)
      /\ \A a \in Nodes \ {s} : FedIn(u, a) = FedIn(RamTable(n), a)
      /\ result.action = "none" => result.inlets = inlets[n]
      /\ result.action \in {"none", "added", "deleted", "moved"}
      /\ result.action = "added" => ~Linked(n, s)
      /\ result.action \in {"deleted", "moved"} => Linked(n, s)
      /\ result.action \in {"added", "moved"} => FedIn(u, s) # {}
      /\ result.action = "deleted" => FedIn(u, s) = {}
  BY RequestAsked
<1>3. /\ inlets' = [inlets EXCEPT ![n] = result.inlets]
      /\ \/ /\ result.action \in {"added", "deleted"}
            /\ Transmit(n, s, LinkPacket(n, reply))
            /\ call' = [call EXCEPT ![n] = CallTo(s, reply)]
            /\ UNCHANGED eeprom
         \/ /\ result.action = "moved"
            /\ SaveConnexions(n, result.inlets, outlet[n])
            /\ UNCHANGED <<mail, call>>
         \/ /\ result.action = "none"
            /\ UNCHANGED <<eeprom, mail, call>>
  BY DEF ProcessRequest
<1>4. reply = IF result.action = "added" THEN "ACK_LINK" ELSE "ACK_LINK_DELETED"
  BY DEF ReplyTo
<1> HIDE DEF result, reply
<1>5. inlets'[n] = result.inlets
  BY <1>1, <1>3 DEF TypeOK
<1>6. \A a \in Nodes : Linked(n, a)' <=> FedIn(u, a) # {}
  BY <1>5 DEF Linked, RamTable, TableOf
<1>7. \A a \in Nodes : Linked(n, a) <=> LinkSaved(n, a)
  BY <1>1, SavedIsLinked DEF Linked, LinkSaved
<1> HIDE DEF u
<1>8. \A a \in Nodes \ {s} : Linked(n, a)' <=> Linked(n, a)
  BY <1>2, <1>6 DEF Linked
<1>9. /\ \A a \in Nodes : LinkSaved(n, a)' <=> LinkSaved(n, a)
      /\ \A i \in Inlets : NamedOnce(eeIn'[n][i])
  <2>1. CASE UNCHANGED eeprom
    BY <2>1 DEF AsksFor, LinkSaved, SavedTable, eeprom
  <2>2. CASE result.action = "moved" /\ SaveConnexions(n, result.inlets, outlet[n])
    <3>1. SavedTable(n)' = u
      BY <1>1, <1>2, <2>2, SaveConnexionsLinks DEF u
    <3>2. \A a \in Nodes : LinkSaved(n, a)' <=> FedIn(u, a) # {}
      BY <3>1 DEF LinkSaved
    <3>3. eeIn'[n] = SaveInlets(result.inlets)
      BY <1>1, <2>2 DEF SaveConnexions, TypeOK
    <3>4. \A i \in Inlets : NamedOnce(Image(result.inlets[i]))
      BY <1>2, FanInAssumption, ImageOnce DEF AllOnce, InletState
    <3>5. \A i \in Inlets : NamedOnce(eeIn'[n][i])
      BY <3>3, <3>4 DEF SaveInlets
    <3>6. QED
      BY <1>2, <1>6, <1>7, <1>8, <2>2, <3>2, <3>5
  <2>3. QED
    BY <1>3, <2>1, <2>2
<1>10. \A a \in Nodes : Asked(n, a)' = Asked(n, a)
  BY <1>9 DEF Asked
<1>11. \A a \in Nodes : Linked(n, a)' \/ LinkSaved(n, a)' => a \in Heard(n)
  BY <1>1, <1>8, <1>9 DEF AsksFor
<1>12. Heard(n)' = Heard(n)
  BY DEF Heard
<1>13. AllOnce(inlets'[n])
  BY <1>2, <1>5
<1>14. CASE /\ result.action \in {"added", "deleted"}
            /\ Transmit(n, s, LinkPacket(n, reply))
            /\ call' = [call EXCEPT ![n] = CallTo(s, reply)]
  <2>1. call'[n].to = s /\ call'[n].type = reply /\ ~call'[n].acked
    BY <1>1, <1>14 DEF TypeOK, CallTo
  <2>2. reply = Asked(n, s)
    BY <1>2, <1>4, <1>7, <1>14 DEF Asked
  <2>3. Linked(n, s)' <=> ~LinkSaved(n, s)
    BY <1>2, <1>6, <1>7, <1>14
  <2>4. \A q \in Nodes : mail'[q].from = n /\ mail'[q].type \in LinkType =>
                           q \in Heard(n) /\ mail'[q].type = Asked(n, q)
    <3>1. \A q \in Nodes : \/ mail'[q] \in {mail[q], NoMail}
                           \/ q = s /\ mail'[q] = LinkPacket(n, reply)
      BY <1>1, <1>14, TransmitMail DEF TypeOK
    <3>2. QED
      BY <1>1, <2>2, <3>1, NoNodeAssumption DEF AsksFor, NoMail, LinkPacket
  <2>5. QED
    BY <1>1, <1>9, <1>10, <1>11, <1>12, <1>13, <2>1, <2>2, <2>3, <2>4 DEF AsksFor
<1>15. CASE UNCHANGED <<mail, call>>
  <2>1. ~Linking(n)'
    BY <1>1, <1>15 DEF Linking
  <2>2. \A q \in Nodes : mail'[q].from = n /\ mail'[q].type \in LinkType =>
                           q \in Heard(n) /\ mail'[q].type = Asked(n, q)'
    BY <1>10, <1>15 DEF AsksFor
  <2>3. QED
    BY <1>9, <1>11, <1>12, <1>13, <2>1, <2>2 DEF AsksFor
<1>16. QED
  BY <1>3, <1>9, <1>14, <1>15

\* A retry sends the same packet again.
LEMMA RetryAsks ==
  ASSUME TypeOK, NEW n \in Nodes, AsksFor(n), Retry(n)
  PROVE  AsksFor(n)'
<1>1. /\ ~call[n].acked /\ call[n] \in Call
      /\ call'[n] = [call[n] EXCEPT !.left = @ - 1]
      /\ UNCHANGED <<ram, eeprom>>
  BY DEF Retry, TimedOut, TypeOK
<1>2. call'[n].type = call[n].type /\ call'[n].to = call[n].to /\ ~call'[n].acked
  BY <1>1 DEF Call
<1>3. Linking(n) => call[n].to \in Heard(n) /\ call[n].type = Asked(n, call[n].to)
  BY DEF AsksFor
<1>4. \A a \in Nodes : /\ Linked(n, a)' <=> Linked(n, a)
                       /\ LinkSaved(n, a)' <=> LinkSaved(n, a)
                       /\ Asked(n, a)' = Asked(n, a)
  <2>1. RamTable(n)' = RamTable(n) /\ SavedTable(n)' = SavedTable(n)
    BY <1>1 DEF ram, eeprom, RamTable, TableOf, SavedTable
  <2>2. QED
    BY <2>1, SameLinks
<1>5. \A q \in Nodes : mail'[q].from = n /\ mail'[q].type \in LinkType =>
                         q \in Heard(n) /\ mail'[q].type = Asked(n, q)
  <2>1. \A q \in Nodes : \/ mail'[q] \in {mail[q], NoMail}
                         \/ q = call[n].to /\ mail'[q] = LinkPacket(n, call[n].type)
    BY TransmitMail DEF Retry, TypeOK
  <2>2. QED
    BY <1>3, <2>1, NoNodeAssumption DEF AsksFor, NoMail, LinkPacket, Linking
<1>6. Heard(n)' = Heard(n) /\ inlets'[n] = inlets[n] /\ eeIn'[n] = eeIn[n]
  BY <1>1 DEF Heard, ram, eeprom
<1>7. (Linking(n)' <=> Linking(n)) /\ (Linking(n) => call[n].to \in Nodes)
  BY <1>2, <1>3 DEF Linking, Heard
<1>8. QED
  BY <1>2, <1>3, <1>4, <1>5, <1>6, <1>7 DEF AsksFor

\* Once a call that succeeded is saved, no packet of it is left.
LEMMA CommitAsks ==
  ASSUME IInv, "reset" \notin Events, NEW n \in Nodes, AsksFor(n), Commit(n)
  PROVE  AsksFor(n)'
<1> DEFINE s == call[n].to
<1>1. /\ TypeOK /\ NodeInv(n) /\ Linking(n) /\ call[n].acked
      /\ inlets[n] \in InletState /\ outlet[n] \in Ports(FanOut)
  BY DEF IInv, TypeOK, Commit
<1>2. ~Linking(n)' /\ inlets'[n] = inlets[n] /\ mail' = mail
  BY <1>1, FreeIsNotLinking DEF Commit, Free, TypeOK, ram
<1>3. SavedTable(n)' = RamTable(n) /\ RamTable(n)' = RamTable(n)
  BY <1>1, <1>2, SaveConnexionsLinks DEF Commit, RamTable, TableOf
<1>4. \A a \in Nodes : (Linked(n, a)' <=> Linked(n, a)) /\ (LinkSaved(n, a)' <=> Linked(n, a))
  BY <1>3 DEF Linked, LinkSaved
<1>5. \A i \in Inlets : NamedOnce(eeIn'[n][i])
  <2>1. eeIn'[n] = SaveInlets(inlets[n])
    BY <1>1 DEF Commit, SaveConnexions, TypeOK
  <2>2. \A i \in Inlets : NamedOnce(Image(inlets[n][i]))
    BY <1>1, FanInAssumption, ImageOnce DEF AsksFor, AllOnce, InletState
  <2>3. QED
    BY <2>1, <2>2 DEF SaveInlets
<1>6. \A a \in Nodes \ {s} : Asked(n, a)' = Asked(n, a)
  BY <1>1, <1>4, SavedIsLinked DEF Asked
<1>7. \A q \in Nodes : mail'[q].from = n /\ mail'[q].type \in LinkType =>
                         q \in Heard(n) /\ mail'[q].type = Asked(n, q)'
  BY <1>1, <1>2, <1>6 DEF AsksFor
<1>8. Heard(n)' = Heard(n)
  BY DEF Heard
<1>9. QED
  BY <1>2, <1>4, <1>5, <1>7, <1>8 DEF AsksFor

\* A call that failed leaves the links that are saved, and packets that still ask
\* for the opposite.
LEMMA GiveUpAsks ==
  ASSUME IInv, NEW n \in Nodes, AsksFor(n), GiveUp(n)
  PROVE  AsksFor(n)'
<1>1. TypeOK /\ eeIn[n] \in InletImages
  BY DEF IInv, TypeOK
<1>2. ~Linking(n)' /\ mail' = mail /\ UNCHANGED eeprom
  BY <1>1, FreeIsNotLinking DEF GiveUp, Free, TypeOK
<1>3. RamTable(n)' = SavedTable(n) /\ SavedTable(n)' = SavedTable(n)
  BY <1>1, <1>2, LoadConnexionsLinks DEF GiveUp, SavedTable, eeprom
<1>4. \A a \in Nodes : /\ Linked(n, a)' <=> LinkSaved(n, a)
                       /\ LinkSaved(n, a)' <=> LinkSaved(n, a)
                       /\ Asked(n, a)' = Asked(n, a)
  BY <1>3 DEF Linked, LinkSaved, Asked
<1>5. AllOnce(inlets'[n])
  <2>1. inlets'[n] = LoadInlets(eeIn[n])
    BY <1>1 DEF GiveUp, LoadConnexions, TypeOK
  <2>2. \A i \in Inlets : EachOnce(Load(eeIn[n][i]))
    BY <1>1, FanInAssumption, LoadOnce DEF AsksFor, InletImages
  <2>3. QED
    BY <2>1, <2>2 DEF LoadInlets, AllOnce
<1>6. Heard(n)' = Heard(n) /\ eeIn'[n] = eeIn[n]
  BY <1>2 DEF Heard, eeprom
<1>7. QED
  BY <1>2, <1>4, <1>5, <1>6 DEF AsksFor

\* Time changes no link.
LEMMA TickAsks ==
  ASSUME TypeOK, NEW n \in Nodes, AsksFor(n), Tick(n)
  PROVE  AsksFor(n)'
<1>1. /\ inlets'[n] = OlderInlets(inlets[n])
      /\ UNCHANGED <<eeIn, mail, call>>
      /\ inlets[n] \in InletState
  BY DEF Tick, TypeOK, eeprom
<1>2. RamTable(n)' = RamTable(n) /\ SavedTable(n)' = SavedTable(n)
  BY <1>1, OlderInletsLinks DEF RamTable, TableOf, SavedTable
<1>3. \A a \in Nodes : /\ Linked(n, a)' <=> Linked(n, a)
                       /\ LinkSaved(n, a)' <=> LinkSaved(n, a)
                       /\ Asked(n, a)' = Asked(n, a)
  BY <1>2, SameLinks
<1>4. AllOnce(inlets'[n])
  <2>1. \A i \in Inlets : EachOnce(Older(inlets[n][i]))
    BY <1>1, FanInAssumption, OlderOnce DEF AsksFor, AllOnce, InletState
  <2>2. QED
    BY <1>1, <2>1 DEF OlderInlets, AllOnce
<1>5. Heard(n)' = Heard(n) /\ (Linking(n)' <=> Linking(n))
  BY <1>1 DEF Heard, Linking
<1>6. Linking(n) => call[n].to \in Nodes
  BY DEF AsksFor, Heard
<1>7. QED
  BY <1>1, <1>3, <1>4, <1>5, <1>6 DEF AsksFor

\* A node that reads a packet leaves what anybody asks for; the packet is gone
\* when its sender sees it acknowledged.
LEMMA ReceiveAsks ==
  ASSUME IInv, TypeOK', "reset" \notin Events, \A m \in Nodes : AsksFor(m),
         NEW n \in Nodes, ReceiveAckLink(n) \/ ReceiveAckLinkDeleted(n)
  PROVE  \A m \in Nodes : /\ AsksFor(m)'
                         /\ \A a \in Nodes : LinkSaved(m, a)' <=> LinkSaved(m, a)
<1>1. /\ TypeOK /\ NodeInv(n) /\ ~Linking(n)
      /\ mail' = [mail EXCEPT ![n] = NoMail]
      /\ Acknowledge(n, mail[n].from)
      /\ UNCHANGED inlets
  BY FreeIsNotLinking DEF IInv, ReceiveAckLink, ReceiveAckLinkDeleted, Read
<1>2. /\ mail'[n].from = NoNode
      /\ \A m, s \in Nodes : mail'[s].from = m => mail'[s] = mail[s]
  BY <1>1, NoNodeAssumption DEF TypeOK, NoMail
<1>3. \A m \in Nodes :
        /\ call'[m].type = call[m].type /\ call'[m].to = call[m].to
        /\ Linking(m)' <=> Linking(m)
        /\ call'[m].acked => call[m].acked \/ call[m].to = n
  BY <1>1, AcknowledgeCalls DEF TypeOK
<1>4. \A m \in Nodes \ {n} : Bystander(m)
  <2>1. \A m \in Nodes \ {n} : inlets'[m] = inlets[m] /\ eeIn'[m] = eeIn[m]
    BY ReceiveKeeps DEF Apart
  <2>2. QED
    BY <1>2, <1>3, <2>1, NoNodeAssumption DEF Bystander
<1>5. \A m \in Nodes \ {n} : /\ AsksFor(m)'
                             /\ \A a \in Nodes : LinkSaved(m, a)' <=> LinkSaved(m, a)
  BY <1>4, BystanderAsks
<1>6. AsksFor(n)' /\ \A a \in Nodes : LinkSaved(n, a)' <=> LinkSaved(n, a)
  <2>1. AsksFor(n) /\ ~Linking(n)' /\ Heard(n)' = Heard(n) /\ inlets[n] \in InletState
    BY <1>1, <1>3 DEF Heard, TypeOK
  <2>2. eeIn'[n] = eeIn[n] \/ eeIn'[n] = SaveInlets(inlets[n])
    BY <1>1 DEF ReceiveAckLink, ReceiveAckLinkDeleted, SaveConnexions, eeprom, TypeOK
  <2>3. \A i \in Inlets : NamedOnce(Image(inlets[n][i]))
    BY <2>1, FanInAssumption, ImageOnce DEF AsksFor, AllOnce, InletState
  <2>4. \A i \in Inlets : NamedOnce(eeIn'[n][i])
    BY <2>1, <2>2, <2>3 DEF AsksFor, SaveInlets
  <2>5. SavedTable(n)' = SavedTable(n) \/ SavedTable(n)' = TableOf(inlets[n])
    BY <2>1, <2>2, SaveInletsLinks DEF SavedTable, TableOf
  <2>6. RamTable(n)' = RamTable(n) /\ SavedTable(n)' = SavedTable(n)
    BY <1>1, <2>5, SavedIsLinked DEF RamTable, TableOf
  <2>7. \A a \in Nodes : /\ Linked(n, a)' <=> Linked(n, a)
                         /\ LinkSaved(n, a)' <=> LinkSaved(n, a)
                         /\ Asked(n, a)' = Asked(n, a)
    BY <2>6, SameLinks
  <2>8. QED
    BY <1>1, <1>2, <2>1, <2>4, <2>7 DEF AsksFor
<1>7. QED
  BY <1>5, <1>6

\* The steps that concern one node leave the others standing by.
LEMMA OthersStandBy ==
  ASSUME TypeOK, NEW n \in Nodes,
         \/ \E s \in Nodes : ProcessRequest(n, s) \/ SendData(n, s)
         \/ Retry(n) \/ Commit(n) \/ GiveUp(n) \/ DataSent(n) \/ Tick(n)
  PROVE  \A m \in Nodes \ {n} : Bystander(m) /\ outlet'[m] = outlet[m]
<1>1. \A m \in Nodes \ {n} : /\ inlets'[m] = inlets[m] /\ outlet'[m] = outlet[m]
                             /\ eeIn'[m] = eeIn[m] /\ call'[m] = call[m]
  BY DEF TypeOK, ProcessRequest, SendData, Retry, Commit, GiveUp, DataSent, Tick,
         SaveConnexions, LoadConnexions, ram, eeprom
<1>2. \/ mail' = mail
      \/ \E to, type : Transmit(n, to, LinkPacket(n, type))
  <2>1. CASE \E s \in Nodes : ProcessRequest(n, s)
    BY <2>1 DEF ProcessRequest
  <2>2. CASE Retry(n) \/ \E s \in Nodes : SendData(n, s)
    BY <2>2 DEF Retry, SendData
  <2>3. CASE Commit(n) \/ GiveUp(n) \/ DataSent(n) \/ Tick(n)
    BY <2>3 DEF Commit, GiveUp, DataSent, Tick
  <2>4. QED
    BY <2>1, <2>2, <2>3
<1>3. \A m \in Nodes \ {n} : \A q \in Nodes : mail'[q].from = m => mail'[q] = mail[q]
  <2>1. CASE mail' = mail
    BY <2>1
  <2>2. ASSUME NEW to, NEW type, Transmit(n, to, LinkPacket(n, type))
        PROVE  \A m \in Nodes \ {n} : \A q \in Nodes : mail'[q].from = m => mail'[q] = mail[q]
    <3>1. \A q \in Nodes : \/ mail'[q] \in {mail[q], NoMail}
                           \/ q = to /\ mail'[q] = LinkPacket(n, type)
      BY <2>2, TransmitMail DEF TypeOK
    <3>2. QED
      BY <3>1, NoNodeAssumption DEF NoMail, LinkPacket
  <2>3. QED
    BY <1>2, <2>1, <2>2
<1>4. QED
  BY <1>1, <1>3 DEF Bystander, Linking

\* A node that sends data asks for what it asked for.
LEMMA DataAsks ==
  ASSUME TypeOK, NEW n \in Nodes, AsksFor(n),
         DataSent(n) \/ \E s \in Nodes : SendData(n, s)
  PROVE  AsksFor(n)'
<1>1. ~Linking(n) /\ ~Linking(n)'
  BY FreeIsNotLinking DEF DataSent, SendData, CallTo, NoCall, Linking, LinkType, TypeOK
<1>2. inlets'[n] = inlets[n] /\ eeIn'[n] = eeIn[n]
  BY DEF DataSent, SendData, ram, eeprom
<1>3. \A q \in Nodes : mail'[q].from = n /\ mail'[q] # mail[q] => mail'[q].type \notin LinkType
  <2>1. mail' = mail \/ \E s \in Nodes : Transmit(n, s, LinkPacket(n, "UPDATE"))
    BY DEF DataSent, SendData
  <2>2. \A q \in Nodes : mail'[q] \in {mail[q], NoMail, LinkPacket(n, "UPDATE")}
    BY <2>1, TransmitMail DEF TypeOK
  <2>3. QED
    BY <2>2, NoNodeAssumption DEF NoMail, LinkPacket, LinkType
<1>4. Bystander(n)
  BY <1>1, <1>2, <1>3 DEF Bystander
<1>5. QED
  BY <1>4, BystanderAsks

\* Data that are read are none of the packets about links.
LEMMA ReceiveDataAsks ==
  ASSUME TypeOK, \A m \in Nodes : AsksFor(m), NEW n \in Nodes, ReceiveData(n)
  PROVE  \A m \in Nodes : AsksFor(m)'
<1>1. /\ mail' = [mail EXCEPT ![n] = NoMail]
      /\ Acknowledge(n, mail[n].from)
      /\ UNCHANGED <<inlets, eeIn>>
  BY DEF ReceiveData, Read, ram, eeprom
<1>2. /\ mail'[n].from = NoNode
      /\ \A m, s \in Nodes : mail'[s].from = m => mail'[s] = mail[s]
  BY <1>1, NoNodeAssumption DEF TypeOK, NoMail
<1>3. \A m \in Nodes :
        /\ call'[m].type = call[m].type /\ call'[m].to = call[m].to
        /\ Linking(m)' <=> Linking(m)
        /\ call'[m].acked => call[m].acked \/ call[m].to = n
  BY <1>1, AcknowledgeCalls DEF TypeOK
<1>4. \A m \in Nodes : Bystander(m)
  BY <1>1, <1>2, <1>3, NoNodeAssumption DEF Bystander
<1>5. QED
  BY <1>4, BystanderAsks

\* The events of the radio: packets and acknowledgements get lost and answers are
\* late, data are sent, and nobody clears, resets or restarts a node.
Undisturbed == Events \subseteq RadioEvents \cup {"data"}

\* Every step, for every node.
LEMMA StepAsks ==
  ASSUME Undisturbed, \A n \in Nodes : HaveSpace(Heard(n)),
         IInv, TypeOK', \A n \in Nodes : AsksFor(n), [Next]_vars
  PROVE  \A n \in Nodes : AsksFor(n)'
<1>1. TypeOK /\ "reset" \notin Events /\ "clear" \notin Events /\ "power" \notin Events
  BY DEF IInv, Undisturbed, RadioEvents
<1>2. ASSUME NEW n \in Nodes,
             \/ \E s \in Nodes : ProcessRequest(n, s) \/ SendData(n, s)
             \/ Retry(n) \/ Commit(n) \/ GiveUp(n) \/ DataSent(n) \/ Tick(n)
      PROVE  \A m \in Nodes : AsksFor(m)'
  <2>1. AsksFor(n)'
    BY <1>1, <1>2, ProcessRequestAsks, RetryAsks, CommitAsks, GiveUpAsks, DataAsks, TickAsks
  <2>2. \A m \in Nodes \ {n} : AsksFor(m)'
    BY <1>1, <1>2, OthersStandBy, BystanderAsks
  <2>3. QED
    BY <2>1, <2>2
<1>3. ASSUME NEW n \in Nodes, ReceiveAckLink(n) \/ ReceiveAckLinkDeleted(n)
      PROVE  \A m \in Nodes : AsksFor(m)'
  BY <1>1, <1>3, ReceiveAsks
<1>4. ASSUME NEW n \in Nodes, Overhear(n)
      PROVE  \A m \in Nodes : AsksFor(m)'
  <2>1. \A m \in Nodes : Bystander(m)
    BY <1>1, <1>4, NoNodeAssumption DEF Overhear, Bystander, Linking, ram, eeprom, TypeOK, NoMail
  <2>2. QED
    BY <2>1, BystanderAsks
<1>5. ASSUME UNCHANGED vars
      PROVE  \A m \in Nodes : AsksFor(m)'
  <2>1. \A m \in Nodes : Bystander(m)
    BY <1>5 DEF Bystander, Linking, vars
  <2>2. QED
    BY <2>1, BystanderAsks
<1>6. \A n \in Nodes : ~ReceiveResetCon(n)
  BY <1>1 DEF IInv, ResetsHaveCause, ReceiveResetCon, Read
<1>7. \A n \in Nodes : /\ ~SnifferResets(n) /\ ~ClearAllConnexions(n) /\ ~ClearInletLinks(n)
                       /\ ~ClearOutletLinks(n) /\ ~PowerCycle(n) /\ ~DieAfterAcknowledge(n)
  BY <1>1 DEF SnifferResets, ClearAllConnexions, ClearInletLinks, ClearOutletLinks,
              PowerCycle, DieAfterAcknowledge
<1>8. \A n \in Nodes : ReceiveData(n) => \A m \in Nodes : AsksFor(m)'
  BY <1>1, ReceiveDataAsks
<1>9. QED
  BY <1>2, <1>3, <1>4, <1>5, <1>6, <1>7, <1>8 DEF Next

\* A new gluon asks for nothing and has no link twice.
LEMMA InitAsks ==
  ASSUME Init, NEW n \in Nodes
  PROVE  AsksFor(n)
<1>1. /\ inlets[n] = BareInlets /\ eeIn[n] = SaveInlets(BareInlets)
      /\ ~Linking(n) /\ \A s \in Nodes : mail[s].from = NoNode
  BY FreeIsNotLinking DEF Init, Free, NoMail
<1>2. BareInlets \in InletState /\ \A i \in Inlets : EachOnce(BareInlets[i])
  BY BareInletsLinks, FanInAssumption, AllIdleOnce DEF BareInlets
<1>3. \A i \in Inlets : NamedOnce(Image(BareInlets[i]))
  BY <1>2, FanInAssumption, ImageOnce DEF InletState
<1>4. \A a \in Nodes : ~Linked(n, a) /\ ~LinkSaved(n, a)
  <2>1. RamTable(n) = BareTable /\ SavedTable(n) = BareTable
    BY <1>1, <1>2, BareInletsLinks, SaveInletsLinks DEF RamTable, SavedTable, TableOf, BareTable
  <2>2. QED
    BY <2>1, NobodyFeedsBare DEF Linked, LinkSaved
<1>5. QED
  BY <1>1, <1>2, <1>3, <1>4, NoNodeAssumption DEF AsksFor, AllOnce, SaveInlets

\* However many calls fail, and whatever data are sent besides, every packet about
\* a link, in a call or left over from one, asks for the opposite of what its
\* sender has saved, while only the radio fails.
THEOREM CallsAskForTheOpposite ==
  ASSUME Undisturbed, \A n \in Nodes : HaveSpace(Heard(n))
  PROVE  Spec => [](\A n \in Nodes : AsksFor(n))
<1> DEFINE Inv == IInv /\ \A n \in Nodes : AsksFor(n)
<1>1. Init => \A n \in Nodes : AsksFor(n)
  BY InitAsks
<1>2. IInv /\ IInv' /\ (\A n \in Nodes : AsksFor(n)) /\ [Next]_vars
        => (\A n \in Nodes : AsksFor(n))'
  BY StepAsks DEF IInv
<1>3. QED
  BY <1>1, <1>2, Invariance, PTL DEF Spec

\* What is acknowledged was asked for: the packet that is read is the caller's, and
\* whatever call it belongs to, it asks for what the present one does.
LEMMA AnswersCall ==
  ASSUME TypeOK, NEW n \in Nodes, NEW r \in Nodes, AsksFor(r),
         ReceiveAckLink(n) \/ ReceiveAckLinkDeleted(n),
         Linking(r), ~call[r].acked, call'[r].acked
  PROVE  r = mail[n].from /\ call[r].to = n /\ call[r].type = mail[n].type
<1>1. Acknowledge(n, mail[n].from) /\ call \in [Nodes -> Call]
  BY DEF ReceiveAckLink, ReceiveAckLinkDeleted, TypeOK
<1>2. r = mail[n].from /\ call[r].to = n
  BY <1>1, AcknowledgeCalls
<1>3. mail[n].type \in LinkType
  BY DEF ReceiveAckLink, ReceiveAckLinkDeleted, Read, LinkType
<1>4. QED
  BY <1>2, <1>3 DEF AsksFor

-----------------------------------------------------------------------------
(* Where data go.  A node that reads data of r while r calls it about a    *)
(* link answers that call with an acknowledgement that was meant for them; *)
(* it happens only if r has a link to that node.                           *)

\* Data in a radio, or in a call, go along a link of the outlet they came from;
\* and no two nodes have packets of each other in their radios, for who sends one
\* loses the one it has.
AlongLinks ==
  /\ \A r, s \in Nodes : mail[s].type = "UPDATE" /\ mail[s].from = r => HasLink(outlet[r], s)
  /\ \A r \in Nodes : call[r].type = "UPDATE" =>
                       call[r].to \in Nodes /\ HasLink(outlet[r], call[r].to)
  /\ \A r, s \in Nodes : r # s => ~(mail[s].from = r /\ mail[r].from = s)

\* A step that sends nothing, and takes from no outlet a link that data are on.
LEMMA AlongLinksStay ==
  ASSUME AlongLinks,
         \A q \in Nodes : mail'[q] \in {mail[q], NoMail},
         \A r \in Nodes : call'[r].type = "UPDATE" =>
                            call[r].type = "UPDATE" /\ call'[r].to = call[r].to,
         \A r, s \in Nodes : HasLink(outlet[r], s) =>
           \/ HasLink(outlet'[r], s)
           \/ ~(mail[s].from = r /\ mail[s].type = "UPDATE") /\ call[r].type # "UPDATE"
  PROVE  AlongLinks'
<1>1. NoMail.type # "UPDATE" /\ NoMail.from \notin Nodes
  BY NoNodeAssumption DEF NoMail
<1>2. \A r, s \in Nodes : mail'[s].from = r => mail[s] = mail'[s]
  BY <1>1
<1>3. \A r, s \in Nodes : mail'[s].type = "UPDATE" /\ mail'[s].from = r => HasLink(outlet'[r], s)
  BY <1>2 DEF AlongLinks
<1>4. \A r \in Nodes : call'[r].type = "UPDATE" =>
                       call'[r].to \in Nodes /\ HasLink(outlet'[r], call'[r].to)
  BY DEF AlongLinks
<1>5. \A r, s \in Nodes : r # s => ~(mail'[s].from = r /\ mail'[r].from = s)
  BY <1>2 DEF AlongLinks
<1>6. QED
  BY <1>3, <1>4, <1>5 DEF AlongLinks

\* A packet that is sent is about a link, or goes along one.
LEMMA SentAlongLinks ==
  ASSUME TypeOK, AlongLinks, NEW n \in Nodes, NEW to, NEW type,
         Transmit(n, to, LinkPacket(n, type)), UNCHANGED outlet,
         \A m \in Nodes \ {n} : call'[m] = call[m],
         type = "UPDATE" => to \in Nodes /\ HasLink(outlet[n], to),
         call'[n].type = "UPDATE" => type = "UPDATE" /\ call'[n].to = to
  PROVE  AlongLinks'
<1>1. /\ \A q \in Nodes \ {n} : \/ mail'[q] \in {mail[q], NoMail}
                                \/ q = to /\ mail'[q] = LinkPacket(n, type)
      /\ mail'[n] = NoMail \/ (n = to /\ mail'[n] = LinkPacket(n, type))
  BY DEF Transmit, TypeOK
<1>2. /\ NoMail.type # "UPDATE" /\ NoMail.from \notin Nodes
      /\ LinkPacket(n, type).from = n /\ LinkPacket(n, type).type = type
  BY NoNodeAssumption DEF NoMail, LinkPacket
<1>3. \A r, s \in Nodes : mail'[s].type = "UPDATE" /\ mail'[s].from = r => HasLink(outlet'[r], s)
  BY <1>1, <1>2 DEF AlongLinks
<1>4. \A r \in Nodes : call'[r].type = "UPDATE" =>
                       call'[r].to \in Nodes /\ HasLink(outlet'[r], call'[r].to)
  BY DEF AlongLinks
<1>5. \A r, s \in Nodes : r # s => ~(mail'[s].from = r /\ mail'[r].from = s)
  BY <1>1, <1>2 DEF AlongLinks
<1>6. QED
  BY <1>3, <1>4, <1>5 DEF AlongLinks

\* Data keep to the links, while nobody clears, resets or restarts a node: the
\* packet that takes a link from an outlet was sent after what was on the link.
LEMMA StepAlongLinks ==
  ASSUME Undisturbed, IInv, Signed, TypeOK', AlongLinks, [Next]_vars
  PROVE  AlongLinks'
<1>1. TypeOK /\ "reset" \notin Events /\ "clear" \notin Events /\ "power" \notin Events
  BY DEF IInv, Undisturbed, RadioEvents
<1>2. ASSUME NEW n \in Nodes, NEW s \in Nodes, ProcessRequest(n, s)
      PROVE  AlongLinks'
  <2>1. PICK type : /\ type # "UPDATE"
                    /\ \/ /\ Transmit(n, s, LinkPacket(n, type))
                          /\ call' = [call EXCEPT ![n] = CallTo(s, type)]
                       \/ UNCHANGED <<mail, call>>
    BY <1>2 DEF ProcessRequest, ReplyTo
  <2>2. UNCHANGED outlet
    BY <1>2 DEF ProcessRequest
  <2>3. CASE /\ Transmit(n, s, LinkPacket(n, type))
             /\ call' = [call EXCEPT ![n] = CallTo(s, type)]
    <3>1. /\ call'[n].type = type /\ \A m \in Nodes \ {n} : call'[m] = call[m]
      BY <1>1, <2>3 DEF TypeOK, CallTo
    <3>2. QED
      BY <1>1, <2>1, <2>2, <2>3, <3>1, SentAlongLinks
  <2>4. CASE UNCHANGED <<mail, call>>
    BY <2>2, <2>4, AlongLinksStay
  <2>5. QED
    BY <2>1, <2>3, <2>4
<1>3. ASSUME NEW n \in Nodes, Retry(n)
      PROVE  AlongLinks'
  <2>1. /\ Transmit(n, call[n].to, LinkPacket(n, call[n].type)) /\ UNCHANGED outlet
        /\ call'[n] = [call[n] EXCEPT !.left = @ - 1] /\ call[n] \in Call
        /\ \A m \in Nodes \ {n} : call'[m] = call[m]
    BY <1>1, <1>3 DEF Retry, TypeOK, ram
  <2>2. call'[n].type = call[n].type /\ call'[n].to = call[n].to
    BY <2>1 DEF Call
  <2>3. call[n].type = "UPDATE" => call[n].to \in Nodes /\ HasLink(outlet[n], call[n].to)
    BY DEF AlongLinks
  <2>4. QED
    BY <1>1, <2>1, <2>2, <2>3, SentAlongLinks
<1>4. ASSUME NEW n \in Nodes, NEW s \in Nodes, SendData(n, s)
      PROVE  AlongLinks'
  <2>1. /\ Transmit(n, s, LinkPacket(n, "UPDATE")) /\ UNCHANGED outlet
        /\ HasLink(outlet[n], s) /\ call'[n].to = s
        /\ \A m \in Nodes \ {n} : call'[m] = call[m]
    BY <1>1, <1>4 DEF SendData, CallTo, TypeOK, ram
  <2>2. QED
    BY <1>1, <2>1, SentAlongLinks
<1>5. ASSUME NEW n \in Nodes,
             Commit(n) \/ DataSent(n) \/ ReceiveData(n) \/ Overhear(n) \/ Tick(n)
      PROVE  AlongLinks'
  <2>1. UNCHANGED outlet /\ \A q \in Nodes : mail'[q] \in {mail[q], NoMail}
    BY <1>1, <1>5 DEF Commit, DataSent, ReceiveData, Read, Overhear, Tick, ram, TypeOK
  <2>2. \A m \in Nodes : call'[m].type = "UPDATE" =>
                         call[m].type = "UPDATE" /\ call'[m].to = call[m].to
    <3>1. CASE ReceiveData(n)
      BY <1>1, <3>1, AcknowledgeType DEF ReceiveData, TypeOK
    <3>2. CASE UNCHANGED call \/ call' = [call EXCEPT ![n] = NoCall]
      BY <1>1, <3>2 DEF NoCall, TypeOK
    <3>3. QED
      BY <1>5, <3>1, <3>2 DEF Commit, DataSent, Overhear, Tick
  <2>3. QED
    BY <2>1, <2>2, AlongLinksStay
<1>6. ASSUME NEW n \in Nodes, GiveUp(n)
      PROVE  AlongLinks'
  <2>1. LoadConnexions(n) /\ NodeInv(n) /\ UNCHANGED mail /\ call' = [call EXCEPT ![n] = NoCall]
    BY <1>6 DEF GiveUp, IInv
  <2>2. /\ \A s \in Nodes : HasLink(outlet[n], s) => HasLink(outlet'[n], s)
        /\ \A m \in Nodes \ {n} : outlet'[m] = outlet[m]
    BY <1>1, <2>1, LoadConnexionsLinks DEF NodeInv, OutletSaved
  <2>3. \A m \in Nodes : call'[m].type = "UPDATE" =>
                         call[m].type = "UPDATE" /\ call'[m].to = call[m].to
    BY <1>1, <2>1 DEF NoCall, TypeOK
  <2>4. \A m, s \in Nodes : HasLink(outlet[m], s) => HasLink(outlet'[m], s)
    BY <2>2
  <2>5. QED
    BY <2>1, <2>3, <2>4, AlongLinksStay
<1>7. ASSUME NEW n \in Nodes, ReceiveAckLink(n) \/ ReceiveAckLinkDeleted(n)
      PROVE  AlongLinks'
  <2>1. /\ call[n].type # "UPDATE" /\ mail[n].type # "UPDATE"
        /\ mail' = [mail EXCEPT ![n] = NoMail]
        /\ Acknowledge(n, mail[n].from) /\ mail[n].from \in Nodes
        /\ outlet[n] \in Ports(FanOut) /\ FanOut \in Nat
    BY <1>1, <1>7, FanOutAssumption DEF ReceiveAckLink, ReceiveAckLinkDeleted, Read, Free,
       NoCall, TypeOK, Signed, LinkType
  <2>2. \A m \in Nodes : call'[m].type = call[m].type /\ call'[m].to = call[m].to
    BY <1>1, <2>1, AcknowledgeType DEF TypeOK
  <2>3. \A q \in Nodes : mail'[q] \in {mail[q], NoMail}
    BY <1>1, <2>1 DEF TypeOK
  <2>4. \A s \in Nodes : HasLink(outlet[n], s) => HasLink(outlet'[n], s) \/ s = mail[n].from
    <3>1. CASE ReceiveAckLink(n)
      <4>1. outlet'[n] = Connect(outlet[n], Fixed(mail[n].from))
        BY <1>1, <3>1 DEF ReceiveAckLink, TypeOK
      <4>2. Fixed(mail[n].from) \in Port /\ Fixed(mail[n].from).node = mail[n].from
        BY <2>1, LinkTypes DEF Fixed
      <4>3. QED
        BY <2>1, <4>1, <4>2, ConnectLinks
    <3>2. CASE ReceiveAckLinkDeleted(n)
      <4>1. outlet'[n] = Disconnect(outlet[n], mail[n].from)
        BY <1>1, <3>2 DEF ReceiveAckLinkDeleted, TypeOK
      <4>2. QED
        BY <2>1, <4>1, DisconnectLinks
    <3>3. QED
      BY <1>7, <3>1, <3>2
  <2>5. \A m \in Nodes \ {n} : outlet'[m] = outlet[m]
    BY <1>1, <1>7 DEF ReceiveAckLink, ReceiveAckLinkDeleted, TypeOK
  <2>6. \A s \in Nodes : s = mail[n].from => ~(mail[s].from = n /\ mail[s].type = "UPDATE")
    BY <2>1 DEF AlongLinks
  <2>7. QED
    BY <2>1, <2>2, <2>3, <2>4, <2>5, <2>6, AlongLinksStay
<1>8. CASE UNCHANGED vars
  BY <1>8, AlongLinksStay DEF vars
<1>9. \A n \in Nodes : ~ReceiveResetCon(n)
  BY <1>1 DEF IInv, ResetsHaveCause, ReceiveResetCon, Read
<1>10. \A n \in Nodes : /\ ~SnifferResets(n) /\ ~ClearAllConnexions(n) /\ ~ClearInletLinks(n)
                        /\ ~ClearOutletLinks(n) /\ ~PowerCycle(n) /\ ~DieAfterAcknowledge(n)
  BY <1>1 DEF SnifferResets, ClearAllConnexions, ClearInletLinks, ClearOutletLinks,
              PowerCycle, DieAfterAcknowledge
<1>11. QED
  BY <1>2, <1>3, <1>4, <1>5, <1>6, <1>7, <1>8, <1>9, <1>10 DEF Next

\* Data are sent along links, and no packet about a link overtakes them.
LEMMA DataKeepToLinks ==
  ASSUME Undisturbed
  PROVE  Spec => []AlongLinks
<1>1. Init => AlongLinks
  BY NoNodeAssumption DEF Init, AlongLinks, NoMail, NoCall
<1>2. Init => Signed
  BY DEF Init, Signed, NoMail, LinkType
<1>3. TypeOK /\ Signed /\ [Next]_vars => Signed'
  BY StaysSigned
<1>4. IInv /\ Signed /\ TypeOK' /\ AlongLinks /\ [Next]_vars => AlongLinks'
  BY StepAlongLinks
<1>5. QED
  BY <1>1, <1>2, <1>3, <1>4, Invariance, TypeCorrect, PTL DEF Spec

\* A caller whose call about a link is acknowledged was understood, however late the
\* answer and whichever of its packets about the link it belongs to, unless it has
\* a link to the called node itself: then the answer may be to data it sent there.
THEOREM AcknowledgedCallsAreDone ==
  ASSUME Undisturbed, \A n \in Nodes : HaveSpace(Heard(n))
  PROVE  Spec => AcknowledgedMeansDone
<1> DEFINE Done(r) ==
      Linking(r) /\ ~call[r].acked /\ call'[r].acked =>
        \/ HasLink(outlet[r], call[r].to)
        \/ IF call[r].type = "ACK_LINK"
             THEN HasLink(outlet'[call[r].to], r) \/ IsFull(outlet[call[r].to])
             ELSE ~HasLink(outlet'[call[r].to], r)
<1>1. ASSUME IInv, TypeOK', \A n \in Nodes : AsksFor(n), AlongLinks, [Next]_vars
      PROVE  \A r \in Nodes : Done(r)
  <2> SUFFICES ASSUME NEW r \in Nodes, Linking(r), ~call[r].acked, call'[r].acked,
                      ~HasLink(outlet[r], call[r].to)
               PROVE  Done(r)
    OBVIOUS
  <2>1. TypeOK
    BY <1>1 DEF IInv
  <2>2. PICK n \in Nodes : ReceiveAckLink(n) \/ ReceiveAckLinkDeleted(n)
    <3>1. "power" \notin Events
      BY DEF Undisturbed, RadioEvents
    <3>2. call'[r] # call[r] /\ call' # call /\ call'[r] # NoCall
      BY DEF NoCall
    <3>3. \A n, s \in Nodes : ~ProcessRequest(n, s) /\ ~SendData(n, s)
      <4>1. SUFFICES ASSUME NEW n \in Nodes, NEW s \in Nodes,
                            ProcessRequest(n, s) \/ SendData(n, s)
                     PROVE  FALSE
        OBVIOUS
      <4>2. PICK type : call' = [call EXCEPT ![n] = CallTo(s, type)]
        BY <3>2, <4>1 DEF ProcessRequest, SendData
      <4>3. QED
        BY <2>1, <3>2, <4>2 DEF TypeOK, CallTo
    <3>4. \A n \in Nodes : ~Retry(n)
      <4>1. SUFFICES ASSUME NEW n \in Nodes, Retry(n)
                     PROVE  FALSE
        OBVIOUS
      <4>2. call'[r] = call[r] \/ call'[r] = [call[r] EXCEPT !.left = @ - 1]
        BY <2>1, <4>1 DEF Retry, TypeOK
      <4>3. QED
        BY <2>1, <3>2, <4>2 DEF TypeOK, Call
    <3>5. \A n \in Nodes : ~Commit(n) /\ ~GiveUp(n) /\ ~DataSent(n)
      BY <2>1, <3>2 DEF Commit, GiveUp, DataSent, TypeOK
    <3>6. \A n \in Nodes :
            /\ ~ReceiveResetCon(n) /\ ~Overhear(n) /\ ~SnifferResets(n)
            /\ ~ClearAllConnexions(n) /\ ~ClearInletLinks(n) /\ ~ClearOutletLinks(n)
            /\ ~PowerCycle(n) /\ ~DieAfterAcknowledge(n) /\ ~Tick(n)
      BY <3>1, <3>2 DEF ReceiveResetCon, Overhear, SnifferResets, ClearAllConnexions,
         ClearInletLinks, ClearOutletLinks, PowerCycle, DieAfterAcknowledge, Tick
    <3>7. vars' # vars
      BY <3>2 DEF vars
    <3>8. \A n \in Nodes : ~ReceiveData(n)
      <4>1. SUFFICES ASSUME NEW n \in Nodes, ReceiveData(n)
                     PROVE  FALSE
        OBVIOUS
      <4>2. r = mail[n].from /\ call[r].to = n /\ mail[n].type = "UPDATE"
        BY <2>1, <4>1, AcknowledgeCalls DEF ReceiveData, Read, TypeOK
      <4>3. QED
        BY <1>1, <4>2 DEF AlongLinks
    <3>9. QED
      BY <1>1, <3>3, <3>4, <3>5, <3>6, <3>7, <3>8 DEF Next
  <2>3. /\ r = mail[n].from /\ call[r].to = n /\ call[r].type = mail[n].type
        /\ outlet[n] \in Ports(FanOut) /\ FanOut \in Nat
    BY <1>1, <2>1, <2>2, AnswersCall, FanOutAssumption DEF TypeOK
  <2>4. CASE ReceiveAckLink(n)
    <3>1. outlet'[n] = Connect(outlet[n], Fixed(r)) /\ call[r].type = "ACK_LINK"
      BY <2>1, <2>3, <2>4 DEF ReceiveAckLink, Read, TypeOK
    <3>2. Fixed(r) \in Port /\ Fixed(r).node = r
      BY LinkTypes DEF Fixed
    <3>3. IsFull(outlet[n]) \/ HasLink(outlet'[n], r)
      BY <2>3, <3>1, <3>2, ConnectLinks
    <3>4. QED
      BY <2>3, <3>1, <3>3
  <2>5. CASE ReceiveAckLinkDeleted(n)
    <3>1. outlet'[n] = Disconnect(outlet[n], r) /\ call[r].type = "ACK_LINK_DELETED"
      BY <2>1, <2>3, <2>5 DEF ReceiveAckLinkDeleted, Read, TypeOK
    <3>2. ~HasLink(outlet'[n], r)
      BY <2>3, <3>1, DisconnectLinks
    <3>3. QED
      BY <2>3, <3>1, <3>2
  <2>6. QED
    BY <2>2, <2>4, <2>5
<1>2. IInv /\ TypeOK' /\ (\A n \in Nodes : AsksFor(n)) /\ AlongLinks /\ [Next]_vars
        => [\A r \in Nodes : Done(r)]_vars
  BY <1>1
<1>3. QED
  BY <1>2, Invariance, TypeCorrect, CallsAskForTheOpposite, DataKeepToLinks, PTL
     DEF Spec, AcknowledgedMeansDone

-----------------------------------------------------------------------------
(* The other end.  LinkedAtBothEnds is not inductive: what the outlet of s *)
(* holds is known, in the middle of a call too, only from what the listener *)
(* has saved and whether its call is acknowledged.                         *)

Answered(r, s) == Linking(r) /\ call[r].to = s /\ call[r].acked

\* r waits for the answer of s to a packet of that type.
InCall(r, s, type) == call[r].to = s /\ ~call[r].acked /\ call[r].type = type

\* The outlet of s holds once each node whose saved link comes from s, but for a
\* node whose call about it s has answered; a packet in its radio is of a call that
\* waits.
EndsMeet(s) ==
  /\ EachOnce(outlet[s])
  /\ NamedOnce(eeOut[s])
  /\ mail[s].type \in LinkType => mail[s].from \in Nodes
  /\ \A r \in Nodes :
       /\ HasLink(outlet[s], r) <=> (LinkSaved(r, s) <=> ~Answered(r, s))
       /\ mail[s].from = r => InCall(r, s, mail[s].type)

\* Packets are lost, and that is all that happens to them; data are sent besides.
OnlyLosses == Events \subseteq {"lost", "data"}

BothInv == IInv /\ AlongLinks /\ \A n \in Nodes : AsksFor(n) /\ EndsMeet(n)

\* Whoever has a link from an outlet hears its node.
LEMMA LinkedHear ==
  ASSUME TypeOK, \A n \in Nodes : AsksFor(n) /\ EndsMeet(n),
         NEW s \in Nodes, NEW r \in Nodes, HasLink(outlet[s], r)
  PROVE  r \in Hearers(s)
<1>1. CASE LinkSaved(r, s)
  BY <1>1 DEF AsksFor, Heard, Hearers
<1>2. CASE Answered(r, s)
  <2>1. Linking(r) /\ call[r].to = s
    BY <1>2 DEF Answered
  <2>2. QED
    BY <2>1 DEF AsksFor, Heard, Hearers
<1>3. QED
  BY <1>1, <1>2 DEF EndsMeet

\* A node that reads ACK_LINK has no link to the sender yet, and room for it.
LEMMA LinkHasRoom ==
  ASSUME HaveRoom, BothInv, NEW s \in Nodes, mail[s].type = "ACK_LINK"
  PROVE  ~HasLink(outlet[s], mail[s].from) /\ ~IsFull(outlet[s])
<1> DEFINE r == mail[s].from
<1>1. TypeOK /\ AsksFor(s) /\ EndsMeet(s) /\ r \in Nodes
  BY DEF BothInv, IInv, EndsMeet, LinkType
<1>2. r \in Hearers(s) /\ ~LinkSaved(r, s)
  BY <1>1 DEF BothInv, AsksFor, Asked, Heard, Hearers, LinkType
<1>3. ~HasLink(outlet[s], r)
  BY <1>1, <1>2 DEF EndsMeet, Answered, InCall
<1>4. outlet[s] \in Ports(FanOut) /\ FanOut \in Nat
  BY <1>1, FanOutAssumption DEF TypeOK
<1>5. \A k \in Active(outlet[s]) : outlet[s][k].node \in Hearers(s)
  <2>1. SUFFICES ASSUME NEW k \in Active(outlet[s])
                 PROVE  outlet[s][k].node \in Hearers(s)
    OBVIOUS
  <2>2. outlet[s][k].node \in Nodes /\ HasLink(outlet[s], outlet[s][k].node)
    BY <1>4 DEF Active, Ports, Port, Id, HasLink, PortsOf
  <2>3. QED
    BY <1>1, <2>2, LinkedHear DEF BothInv
<1>6. /\ IsFiniteSet(Hearers(s)) /\ Cardinality(Hearers(s)) <= FanOut
      /\ EachOnce(outlet[s]) /\ r # NoNode
  BY <1>1, NoNodeAssumption DEF HaveRoom, EndsMeet
<1> HIDE DEF r
<1>7. ~IsFull(outlet[s])
  BY <1>2, <1>3, <1>4, <1>5, <1>6, RoomForOne
<1>8. QED
  BY <1>3, <1>7 DEF r

\* A step that leaves an outlet alone, as well as what the listeners have saved
\* and whether their calls are answered, leaves the ends as they are.
LEMMA EndsStay ==
  ASSUME NEW s \in Nodes, EndsMeet(s),
         EachOnce(outlet'[s]), NamedOnce(eeOut'[s]),
         \A r \in Nodes : /\ HasLink(outlet'[s], r) <=> HasLink(outlet[s], r)
                          /\ LinkSaved(r, s)' <=> LinkSaved(r, s)
                          /\ Answered(r, s)' <=> Answered(r, s),
         mail'[s].type \in LinkType => mail'[s].from \in Nodes,
         \A r \in Nodes : mail'[s].from = r => InCall(r, s, mail[s].type)'
  PROVE  EndsMeet(s)'
BY DEF EndsMeet

\* A packet that is sent belongs to the call that waits.
LEMMA SentInCall ==
  ASSUME TypeOK, NEW n \in Nodes, NEW to, NEW type,
         Transmit(n, to, LinkPacket(n, type)),
         call'[n].to = to, ~call'[n].acked, call'[n].type = type,
         \A m \in Nodes \ {n} : call'[m] = call[m],
         \A q \in Nodes : EndsMeet(q),
         \A q \in Nodes : mail[q].from = n => q = to /\ mail[q].type = type
  PROVE  \A q \in Nodes :
           /\ mail'[q].type \in LinkType => mail'[q].from \in Nodes
           /\ \A r \in Nodes : mail'[q].from = r => InCall(r, q, mail[q].type)'
<1>1. \A q \in Nodes : \/ mail'[q] \in {mail[q], NoMail}
                       \/ q = to /\ mail'[q] = LinkPacket(n, type)
  BY TransmitMail DEF TypeOK
<1>2. NoMail.type \notin LinkType /\ NoMail.from \notin Nodes
  BY NoNodeAssumption DEF NoMail, LinkType
<1>3. LinkPacket(n, type).from = n /\ LinkPacket(n, type).type = type
  BY DEF LinkPacket
<1>4. QED
  BY <1>1, <1>2, <1>3 DEF EndsMeet, InCall

-----------------------------------------------------------------------------
(* What each step does to the ends.                                        *)

\* The call of a request is not answered yet, and its packet belongs to it.
LEMMA ProcessRequestEnds ==
  ASSUME HaveRoom, OnlyLosses, BothInv, NEW n \in Nodes, NEW s \in Nodes, ProcessRequest(n, s)
  PROVE  \A q \in Nodes : EndsMeet(q)'
<1>1. TypeOK /\ Free(n) /\ "reset" \notin Events /\ HaveSpace(Heard(n)) /\ IInv /\ AsksFor(n)
  BY DEF BothInv, IInv, OnlyLosses, ProcessRequest, HaveRoom
<1>2. \A r, q \in Nodes : LinkSaved(r, q)' <=> LinkSaved(r, q)
  <2>1. \A q \in Nodes : LinkSaved(n, q)' <=> LinkSaved(n, q)
    BY <1>1, ProcessRequestAsks
  <2>2. \A m \in Nodes \ {n} : Bystander(m)
    BY <1>1, OthersStandBy
  <2>3. QED
    BY <2>1, <2>2, BystanderAsks DEF BothInv
<1>3. \A q \in Nodes : ~Answered(n, q) /\ mail[q].from # n
  BY <1>1, FreeIsNotLinking, NoNodeAssumption DEF BothInv, EndsMeet, InCall, Answered, Free, NoCall
<1>4. /\ outlet' = outlet
      /\ \/ \E type : /\ Transmit(n, s, LinkPacket(n, type))
                      /\ call' = [call EXCEPT ![n] = CallTo(s, type)]
                      /\ UNCHANGED eeprom
         \/ /\ UNCHANGED <<mail, call>>
            /\ UNCHANGED eeOut \/ eeOut' = [eeOut EXCEPT ![n] = SaveOutlet(outlet[n])]
  BY DEF ProcessRequest, SaveConnexions, eeprom
<1>5. \A q \in Nodes : /\ EachOnce(outlet'[q])
                       /\ \A r \in Nodes : HasLink(outlet'[q], r) <=> HasLink(outlet[q], r)
  BY <1>4 DEF BothInv, EndsMeet
<1>6. \A q \in Nodes : NamedOnce(eeOut'[q])
  <2>1. NamedOnce(Image(outlet[n]))
    BY <1>1, FanOutAssumption, ImageOnce DEF BothInv, EndsMeet, TypeOK
  <2>2. UNCHANGED eeOut \/ eeOut' = [eeOut EXCEPT ![n] = SaveOutlet(outlet[n])]
    BY <1>4 DEF eeprom
  <2>3. QED
    BY <1>1, <2>1, <2>2 DEF BothInv, EndsMeet, SaveOutlet, TypeOK
<1>7. ASSUME NEW type, Transmit(n, s, LinkPacket(n, type)),
             call' = [call EXCEPT ![n] = CallTo(s, type)]
      PROVE  \A q \in Nodes : EndsMeet(q)'
  <2>1. /\ call'[n].to = s /\ ~call'[n].acked /\ call'[n].type = type
        /\ \A m \in Nodes \ {n} : call'[m] = call[m]
    BY <1>1, <1>7 DEF TypeOK, CallTo
  <2>2. \A r, q \in Nodes : Answered(r, q)' <=> Answered(r, q)
    BY <1>3, <2>1 DEF Answered, Linking
  <2>3. \A q \in Nodes :
          /\ mail'[q].type \in LinkType => mail'[q].from \in Nodes
          /\ \A r \in Nodes : mail'[q].from = r => InCall(r, q, mail[q].type)'
    BY <1>1, <1>3, <1>7, <2>1, SentInCall DEF BothInv
  <2>4. QED
    BY <1>2, <1>5, <1>6, <2>2, <2>3, EndsStay DEF BothInv
<1>8. CASE UNCHANGED <<mail, call>>
  <2>1. \A r, q \in Nodes : Answered(r, q)' <=> Answered(r, q)
    BY <1>8 DEF Answered, Linking
  <2>2. QED
    BY <1>2, <1>5, <1>6, <1>8, <2>1 DEF BothInv, EndsMeet, InCall
<1>9. QED
  BY <1>4, <1>7, <1>8

\* The links in EEPROM stay with the node that is written about.
LEMMA SameSaved ==
  ASSUME UNCHANGED eeIn
  PROVE  \A r, q \in Nodes : LinkSaved(r, q)' <=> LinkSaved(r, q)
<1>1. \A r \in Nodes : SavedTable(r)' = SavedTable(r)
  BY DEF SavedTable
<1>2. QED
  BY <1>1 DEF LinkSaved

\* A retry belongs to the call that goes on.
LEMMA RetryEnds ==
  ASSUME BothInv, NEW n \in Nodes, Retry(n)
  PROVE  \A q \in Nodes : EndsMeet(q)'
<1>1. /\ TypeOK /\ ~Free(n) /\ ~call[n].acked /\ call[n] \in Call
      /\ Transmit(n, call[n].to, LinkPacket(n, call[n].type))
      /\ call' = [call EXCEPT ![n] = [call[n] EXCEPT !.left = @ - 1]]
      /\ UNCHANGED <<ram, eeprom>>
  BY DEF BothInv, IInv, Retry, TimedOut, TypeOK
<1>2. /\ call'[n].to = call[n].to /\ ~call'[n].acked /\ call'[n].type = call[n].type
      /\ \A m \in Nodes \ {n} : call'[m] = call[m]
  BY <1>1 DEF TypeOK, Call
<1>3. \A r, q \in Nodes : Answered(r, q)' <=> Answered(r, q)
  BY <1>1, <1>2 DEF Answered, Linking
<1>4. \A q \in Nodes :
        /\ mail'[q].type \in LinkType => mail'[q].from \in Nodes
        /\ \A r \in Nodes : mail'[q].from = r => InCall(r, q, mail[q].type)'
  BY <1>1, <1>2, SentInCall DEF BothInv, EndsMeet, InCall
<1>5. \A r, q \in Nodes : LinkSaved(r, q)' <=> LinkSaved(r, q)
  BY <1>1, SameSaved DEF eeprom
<1>6. QED
  BY <1>1, <1>3, <1>4, <1>5, EndsStay DEF BothInv, EndsMeet, ram, eeprom

\* Saving the link of an answered call makes no difference at the other end.
LEMMA CommitEnds ==
  ASSUME OnlyLosses, BothInv, NEW n \in Nodes, Commit(n)
  PROVE  \A q \in Nodes : EndsMeet(q)'
<1>1. /\ TypeOK /\ NodeInv(n) /\ AsksFor(n) /\ Linking(n) /\ call[n].acked
      /\ inlets[n] \in InletState /\ outlet[n] \in Ports(FanOut) /\ "reset" \notin Events
  BY DEF BothInv, IInv, TypeOK, Commit, OnlyLosses
<1>2. PICK s \in Nodes : s = call[n].to
  BY <1>1 DEF AsksFor, Heard
<1>3. /\ UNCHANGED <<ram, mail>> /\ call'[n] = NoCall
      /\ \A m \in Nodes \ {n} : call'[m] = call[m]
      /\ eeIn' = [eeIn EXCEPT ![n] = SaveInlets(inlets[n])]
      /\ eeOut' = [eeOut EXCEPT ![n] = SaveOutlet(outlet[n])]
  BY <1>1 DEF Commit, SaveConnexions, TypeOK
<1>4. SavedTable(n)' = RamTable(n)
  BY <1>1, SaveConnexionsLinks DEF Commit, RamTable
<1>5. /\ LinkSaved(n, s)' <=> ~LinkSaved(n, s)
      /\ \A q \in Nodes \ {s} : LinkSaved(n, q)' <=> LinkSaved(n, q)
  <2>1. \A q \in Nodes : LinkSaved(n, q)' <=> Linked(n, q)
    BY <1>4 DEF Linked, LinkSaved
  <2>2. QED
    BY <1>2, <1>1, <2>1, SavedIsLinked DEF AsksFor
<1>6. \A m \in Nodes \ {n} : \A q \in Nodes : LinkSaved(m, q)' <=> LinkSaved(m, q)
  <2>1. \A m \in Nodes \ {n} : SavedTable(m)' = SavedTable(m)
    BY <1>1, <1>3 DEF SavedTable, TypeOK
  <2>2. QED
    BY <2>1 DEF LinkSaved
<1>7. \A q \in Nodes : NamedOnce(eeOut'[q])
  <2>1. NamedOnce(Image(outlet[n]))
    BY <1>1, FanOutAssumption, ImageOnce DEF BothInv, EndsMeet
  <2>2. QED
    BY <1>1, <1>3, <2>1 DEF BothInv, EndsMeet, SaveOutlet, TypeOK
<1>8. \A q \in Nodes : /\ ~Answered(n, q)'
                       /\ Answered(n, q) <=> q = s
                       /\ \A m \in Nodes \ {n} : Answered(m, q)' <=> Answered(m, q)
  BY <1>2, <1>1, <1>3 DEF Answered, Linking, NoCall
<1>9. \A q \in Nodes : mail[q].from # n
  BY <1>1 DEF BothInv, EndsMeet, InCall
<1>10. ASSUME NEW q \in Nodes
      PROVE  EndsMeet(q)'
  <2>1. /\ EndsMeet(q) /\ EachOnce(outlet'[q]) /\ NamedOnce(eeOut'[q])
        /\ mail'[q].type \in LinkType => mail'[q].from \in Nodes
    BY <1>3, <1>7 DEF BothInv, EndsMeet, ram
  <2>2. \A r \in Nodes : HasLink(outlet'[q], r) <=> (LinkSaved(r, q)' <=> ~Answered(r, q)')
    <3>1. \A r \in Nodes : HasLink(outlet'[q], r) <=> (LinkSaved(r, q) <=> ~Answered(r, q))
      BY <1>3, <2>1 DEF EndsMeet, ram
    <3>2. QED
      BY <1>5, <1>6, <1>8, <3>1
  <2>3. \A r \in Nodes : mail'[q].from = r => InCall(r, q, mail[q].type)'
    BY <1>3, <1>9, <2>1 DEF EndsMeet, InCall
  <2>4. QED
    BY <2>1, <2>2, <2>3 DEF EndsMeet
<1>11. QED
  BY <1>10

\* A call that ends without an answer was never read: its packet is lost.
LEMMA GiveUpEnds ==
  ASSUME OnlyLosses, BothInv, NEW n \in Nodes, GiveUp(n)
  PROVE  \A q \in Nodes : EndsMeet(q)'
<1>1. /\ TypeOK /\ NodeInv(n) /\ ~Free(n) /\ ~call[n].acked /\ "late" \notin Events
      /\ eeOut[n] \in Images(FanOut) /\ EndsMeet(n)
  BY DEF BothInv, IInv, TypeOK, GiveUp, TimedOut, OnlyLosses
<1>2. /\ UNCHANGED <<eeIn, eeOut, mail>> /\ call'[n] = NoCall
      /\ \A m \in Nodes \ {n} : call'[m] = call[m]
      /\ LoadConnexions(n)
  BY <1>1 DEF GiveUp, TypeOK, eeprom
<1>3. \A q \in Nodes : mail[q].from # n
  BY <1>1 DEF BothInv, EndsMeet, InCall, GiveUp, TimedOut
<1>4. \A r, q \in Nodes : Answered(r, q)' <=> Answered(r, q)
  BY <1>1, <1>2 DEF Answered, Linking, NoCall
<1>5. \A r, q \in Nodes : LinkSaved(r, q)' <=> LinkSaved(r, q)
  BY <1>2, SameSaved
<1>6. \A q \in Nodes : /\ EachOnce(outlet'[q])
                       /\ \A r \in Nodes : HasLink(outlet'[q], r) <=> HasLink(outlet[q], r)
  <2>1. outlet' = [outlet EXCEPT ![n] = Load(eeOut[n])]
    BY <1>2 DEF LoadConnexions, LoadOutlet
  <2>2. EachOnce(Load(eeOut[n]))
    BY <1>1, FanOutAssumption, LoadOnce DEF EndsMeet
  <2>3. \A r \in Nodes : HasLink(outlet'[n], r) <=> HasLink(outlet[n], r)
    BY <1>1, <1>2, LoadConnexionsLinks DEF NodeInv, OutletSaved
  <2>4. QED
    BY <1>1, <2>1, <2>2, <2>3 DEF BothInv, EndsMeet, TypeOK
<1>7. \A q \in Nodes : /\ mail'[q].type \in LinkType => mail'[q].from \in Nodes
                       /\ \A r \in Nodes : mail'[q].from = r => InCall(r, q, mail[q].type)'
  BY <1>2, <1>3 DEF BothInv, EndsMeet, InCall
<1>8. QED
  BY <1>2, <1>4, <1>5, <1>6, <1>7, EndsStay DEF BothInv, EndsMeet

\* A packet that is read changes the outlet and answers the call in one step.
LEMMA ReceiveEnds ==
  ASSUME HaveRoom, OnlyLosses, BothInv, TypeOK', NEW n \in Nodes,
         ReceiveAckLink(n) \/ ReceiveAckLinkDeleted(n)
  PROVE  \A q \in Nodes : EndsMeet(q)'
<1> DEFINE r == mail[n].from
<1>1. /\ TypeOK /\ IInv /\ EndsMeet(n) /\ r \in Nodes /\ mail[n].type \in LinkType
      /\ "noack" \notin Events /\ "reset" \notin Events
      /\ Linking(r) /\ call[r].to = n /\ ~call[r].acked
      /\ mail' = [mail EXCEPT ![n] = NoMail]
      /\ Acknowledge(n, r)
      /\ outlet[n] \in Ports(FanOut) /\ FanOut \in Nat
  BY FanOutAssumption DEF BothInv, IInv, EndsMeet, OnlyLosses, LinkType, TypeOK,
     ReceiveAckLink, ReceiveAckLinkDeleted, Read, InCall, Linking
<1>2. PICK new :
        /\ outlet' = [outlet EXCEPT ![n] = new]
        /\ UNCHANGED eeOut \/ eeOut' = [eeOut EXCEPT ![n] = SaveOutlet(new)]
        /\ \/ mail[n].type = "ACK_LINK" /\ new = Connect(outlet[n], Fixed(r))
           \/ mail[n].type = "ACK_LINK_DELETED" /\ new = Disconnect(outlet[n], r)
  BY DEF ReceiveAckLink, ReceiveAckLinkDeleted, Read, SaveConnexions, eeprom
<1>3. \A m, q \in Nodes : LinkSaved(m, q)' <=> LinkSaved(m, q)
  BY <1>1, ReceiveAsks DEF BothInv
<1>4. /\ call'[r].to = n /\ call'[r].acked /\ call'[r].type = call[r].type
      /\ \A m \in Nodes \ {r} : call'[m] = call[m]
  BY <1>1, AcknowledgeCalls, AcknowledgeType DEF TypeOK
<1>5. \A m, q \in Nodes : Answered(m, q)' <=> Answered(m, q) \/ (m = r /\ q = n)
  BY <1>1, <1>4 DEF Answered, Linking
<1>6. mail[n].type = Asked(r, n)
  BY <1>1 DEF BothInv, AsksFor
<1>7. /\ EachOnce(new) /\ new \in Ports(FanOut)
      /\ HasLink(new, r) <=> ~LinkSaved(r, n)
      /\ \A m \in Nodes \ {r} : HasLink(new, m) <=> HasLink(outlet[n], m)
  <2>1. CASE mail[n].type = "ACK_LINK" /\ new = Connect(outlet[n], Fixed(r))
    <3>1. ~HasLink(outlet[n], r) /\ ~IsFull(outlet[n]) /\ EachOnce(outlet[n])
      BY <1>1, <2>1, LinkHasRoom DEF EndsMeet
    <3>2. Fixed(r) \in Port /\ Fixed(r).node = r
      BY <1>1, LinkTypes DEF Fixed
    <3>3. ~LinkSaved(r, n)
      BY <1>6, <2>1 DEF Asked
    <3> HIDE DEF r
    <3>4. EachOnce(new) /\ new \in Ports(FanOut)
      BY <1>1, <2>1, <3>1, <3>2, ConnectOnce, ConnectType
    <3>5. HasLink(new, r) /\ \A m \in Nodes \ {r} : HasLink(new, m) <=> HasLink(outlet[n], m)
      BY <1>1, <2>1, <3>1, <3>2, ConnectLinks
    <3>6. QED
      BY <3>3, <3>4, <3>5
  <2>2. CASE mail[n].type = "ACK_LINK_DELETED" /\ new = Disconnect(outlet[n], r)
    <3>1. LinkSaved(r, n)
      BY <1>6, <2>2 DEF Asked
    <3> HIDE DEF r
    <3>2. EachOnce(new) /\ new \in Ports(FanOut)
      BY <1>1, <2>2, DisconnectOnce, DisconnectType DEF EndsMeet
    <3>3. \A m \in Nodes : HasLink(new, m) <=> HasLink(outlet[n], m) /\ m # r
      BY <1>1, <2>2, DisconnectLinks
    <3>4. QED
      BY <1>1, <3>1, <3>2, <3>3
  <2>3. QED
    BY <1>2, <2>1, <2>2
<1>8. outlet'[n] = new /\ \A q \in Nodes \ {n} : outlet'[q] = outlet[q] /\ eeOut'[q] = eeOut[q]
  BY <1>1, <1>2 DEF TypeOK
<1>9. NamedOnce(eeOut'[n])
  <2>1. NamedOnce(Image(new))
    BY <1>1, <1>7, ImageOnce
  <2>2. QED
    BY <1>1, <1>2, <2>1 DEF EndsMeet, SaveOutlet, TypeOK
<1>10. \A q \in Nodes :
         /\ mail'[q].type \in LinkType => mail'[q].from \in Nodes
         /\ \A m \in Nodes : mail'[q].from = m => InCall(m, q, mail[q].type)'
  <2>1. \A q \in Nodes : \/ q = n /\ mail'[q] = NoMail
                         \/ q # n /\ mail'[q] = mail[q]
    BY <1>1 DEF TypeOK
  <2>2. NoMail.type \notin LinkType /\ NoMail.from \notin Nodes
    BY NoNodeAssumption DEF NoMail, LinkType
  <2>3. \A q \in Nodes \ {n} : mail[q].from # r
    BY <1>1 DEF BothInv, EndsMeet, InCall
  <2>4. QED
    BY <1>4, <2>1, <2>2, <2>3 DEF BothInv, EndsMeet, InCall
<1>11. EndsMeet(n)'
  <2>1. \A m \in Nodes : HasLink(outlet'[n], m) <=> (LinkSaved(m, n)' <=> ~Answered(m, n)')
    BY <1>1, <1>3, <1>5, <1>7, <1>8 DEF EndsMeet
  <2>2. QED
    BY <1>7, <1>8, <1>9, <1>10, <2>1 DEF EndsMeet
<1>12. \A q \in Nodes \ {n} : EndsMeet(q)'
  <2>1. \A q \in Nodes \ {n} : EndsMeet(q) /\ EachOnce(outlet'[q]) /\ NamedOnce(eeOut'[q])
    BY <1>8 DEF BothInv, EndsMeet
  <2>2. \A q \in Nodes \ {n} : \A m \in Nodes :
          /\ HasLink(outlet'[q], m) <=> HasLink(outlet[q], m)
          /\ LinkSaved(m, q)' <=> LinkSaved(m, q)
          /\ Answered(m, q)' <=> Answered(m, q)
    BY <1>3, <1>5, <1>8
  <2>3. QED
    BY <1>10, <2>1, <2>2, EndsStay
<1>13. QED
  BY <1>11, <1>12

\* Data belong to a call, too, and their answer is no news to the links.
LEMMA DataEnds ==
  ASSUME OnlyLosses, BothInv, NEW n \in Nodes,
         (\E s \in Nodes : SendData(n, s)) \/ DataSent(n) \/ ReceiveData(n)
  PROVE  \A q \in Nodes : EndsMeet(q)'
<1>1. /\ TypeOK /\ UNCHANGED <<outlet, eeIn, eeOut>>
      /\ \A q \in Nodes : EndsMeet(q)
  BY DEF BothInv, IInv, SendData, DataSent, ReceiveData, ram, eeprom
<1>2. \A r, q \in Nodes : LinkSaved(r, q)' <=> LinkSaved(r, q)
  BY <1>1, SameSaved
<1>3. ASSUME \A r, q \in Nodes : Answered(r, q)' <=> Answered(r, q),
             \A q \in Nodes :
               /\ mail'[q].type \in LinkType => mail'[q].from \in Nodes
               /\ \A r \in Nodes : mail'[q].from = r => InCall(r, q, mail[q].type)'
      PROVE  \A q \in Nodes : EndsMeet(q)'
  BY <1>1, <1>2, <1>3, EndsStay DEF EndsMeet
<1>4. ASSUME NEW s \in Nodes, SendData(n, s)
      PROVE  \A q \in Nodes : EndsMeet(q)'
  <2>1. /\ Transmit(n, s, LinkPacket(n, "UPDATE")) /\ Free(n)
        /\ call'[n].to = s /\ ~call'[n].acked /\ call'[n].type = "UPDATE"
        /\ \A m \in Nodes \ {n} : call'[m] = call[m]
    BY <1>1, <1>4 DEF SendData, CallTo, TypeOK
  <2>2. \A q \in Nodes : mail[q].from # n
    BY <1>1, <2>1, NoNodeAssumption DEF EndsMeet, InCall, Free, NoCall
  <2>3. \A r, q \in Nodes : Answered(r, q)' <=> Answered(r, q)
    BY <2>1, FreeIsNotLinking DEF Answered, Linking, LinkType
  <2>4. QED
    BY <1>1, <1>3, <2>1, <2>2, <2>3, SentInCall
<1>5. CASE DataSent(n)
  <2>1. /\ call' = [call EXCEPT ![n] = NoCall] /\ mail' = mail /\ "late" \notin Events
        /\ call[n].type = "UPDATE"
        /\ call[n].acked \/ TimedOut(n)
    BY <1>5 DEF DataSent, OnlyLosses
  <2>2. \A q \in Nodes : mail[q].from # n
    BY <1>1, <2>1 DEF EndsMeet, InCall, TimedOut
  <2>3. \A r, q \in Nodes : Answered(r, q)' <=> Answered(r, q)
    BY <1>1, <2>1 DEF Answered, Linking, LinkType, NoCall, TypeOK
  <2>4. QED
    BY <1>1, <1>3, <2>1, <2>2, <2>3 DEF EndsMeet, InCall, TypeOK
<1>6. CASE ReceiveData(n)
  <2> DEFINE a == mail[n].from
  <2>1. /\ mail' = [mail EXCEPT ![n] = NoMail] /\ mail[n].type = "UPDATE"
        /\ Acknowledge(n, a)
    BY <1>6 DEF ReceiveData, Read
  <2>2. \A r \in Nodes : r = a => call[r].to = n /\ call[r].type = "UPDATE"
    BY <1>1, <2>1 DEF EndsMeet, InCall
  <2>3. \A r \in Nodes : call'[r] = call[r] \/ (r = a /\ call'[r].type = call[r].type)
    BY <1>1, <2>1, AcknowledgeType DEF Acknowledge, TypeOK
  <2>4. \A r, q \in Nodes : Answered(r, q)' <=> Answered(r, q)
    BY <2>2, <2>3 DEF Answered, Linking, LinkType
  <2>5. \A q \in Nodes : \/ q = n /\ mail'[q] = NoMail
                         \/ q # n /\ mail'[q] = mail[q] /\ mail[q].from \notin Nodes \cap {a}
    BY <1>1, <2>1, <2>2 DEF EndsMeet, InCall, TypeOK
  <2>6. NoMail.type \notin LinkType /\ NoMail.from \notin Nodes
    BY NoNodeAssumption DEF NoMail, LinkType
  <2>7. QED
    BY <1>1, <1>3, <2>3, <2>4, <2>5, <2>6 DEF EndsMeet, InCall
<1>7. QED
  BY <1>4, <1>5, <1>6

\* Every step, for every outlet.
LEMMA StepEnds ==
  ASSUME HaveRoom, OnlyLosses, BothInv, TypeOK', [Next]_vars
  PROVE  \A q \in Nodes : EndsMeet(q)'
<1>1. TypeOK /\ "reset" \notin Events /\ "clear" \notin Events /\ "power" \notin Events
  BY DEF BothInv, IInv, OnlyLosses
<1>2. ASSUME NEW n \in Nodes, \E s \in Nodes : ProcessRequest(n, s)
      PROVE  \A q \in Nodes : EndsMeet(q)'
  BY <1>2, ProcessRequestEnds
<1>3. ASSUME NEW n \in Nodes, Retry(n) \/ Commit(n) \/ GiveUp(n)
      PROVE  \A q \in Nodes : EndsMeet(q)'
  BY <1>3, RetryEnds, CommitEnds, GiveUpEnds
<1>4. ASSUME NEW n \in Nodes, ReceiveAckLink(n) \/ ReceiveAckLinkDeleted(n)
      PROVE  \A q \in Nodes : EndsMeet(q)'
  BY <1>4, ReceiveEnds
<1>11. ASSUME NEW n \in Nodes,
             (\E s \in Nodes : SendData(n, s)) \/ DataSent(n) \/ ReceiveData(n)
      PROVE  \A q \in Nodes : EndsMeet(q)'
  BY <1>11, DataEnds
<1>5. ASSUME UNCHANGED <<outlet, eeIn, eeOut, call>>,
             \A q \in Nodes : mail'[q] \in {mail[q], NoMail}
      PROVE  \A q \in Nodes : EndsMeet(q)'
  <2>1. \A r, q \in Nodes : /\ LinkSaved(r, q)' <=> LinkSaved(r, q)
                            /\ Answered(r, q)' <=> Answered(r, q)
    BY <1>5, SameSaved DEF Answered, Linking
  <2>2. NoMail.type \notin LinkType /\ NoMail.from \notin Nodes
    BY NoNodeAssumption DEF NoMail, LinkType
  <2>3. \A q \in Nodes : /\ mail'[q].type \in LinkType => mail'[q].from \in Nodes
                         /\ \A r \in Nodes : mail'[q].from = r => InCall(r, q, mail[q].type)'
    BY <1>5, <2>2 DEF BothInv, EndsMeet, InCall
  <2>4. QED
    BY <1>5, <2>1, <2>3, EndsStay DEF BothInv, EndsMeet
<1>6. ASSUME NEW n \in Nodes, Overhear(n) \/ Tick(n)
      PROVE  \A q \in Nodes : EndsMeet(q)'
  <2>1. UNCHANGED <<outlet, eeIn, eeOut, call>>
    BY <1>6 DEF Overhear, Tick, ram, eeprom
  <2>2. \A q \in Nodes : mail'[q] \in {mail[q], NoMail}
    BY <1>1, <1>6 DEF Overhear, Tick, TypeOK
  <2>3. QED
    BY <1>5, <2>1, <2>2
<1>7. ASSUME UNCHANGED vars
      PROVE  \A q \in Nodes : EndsMeet(q)'
  BY <1>5, <1>7 DEF vars
<1>8. \A n \in Nodes : ~ReceiveResetCon(n)
  BY <1>1 DEF BothInv, IInv, ResetsHaveCause, ReceiveResetCon, Read
<1>9. \A n \in Nodes : /\ ~SnifferResets(n) /\ ~ClearAllConnexions(n) /\ ~ClearInletLinks(n)
                       /\ ~ClearOutletLinks(n) /\ ~PowerCycle(n) /\ ~DieAfterAcknowledge(n)
  BY <1>1 DEF SnifferResets, ClearAllConnexions, ClearInletLinks, ClearOutletLinks,
              PowerCycle, DieAfterAcknowledge
<1>10. QED
  BY <1>2, <1>3, <1>4, <1>6, <1>7, <1>8, <1>9, <1>11 DEF Next

\* The outlet of a new gluon has no link, and nobody has saved one from it.
LEMMA InitEnds ==
  ASSUME Init, NEW s \in Nodes
  PROVE  EndsMeet(s)
<1>1. /\ outlet[s] = AllIdle(FanOut) /\ eeOut[s] = Image(AllIdle(FanOut)) /\ mail[s] = NoMail
      /\ \A n \in Nodes : eeIn[n] = SaveInlets(BareInlets) /\ call[n] = NoCall
  BY DEF Init, SaveOutlet
<1>2. EachOnce(outlet[s]) /\ NamedOnce(eeOut[s])
  BY <1>1, FanOutAssumption, NothingType, AllIdleOnce, ImageOnce
<1>3. \A r \in Nodes : ~LinkSaved(r, s) /\ ~Answered(r, s) /\ ~HasLink(outlet[s], r)
  <2>1. \A r \in Nodes : SavedTable(r) = BareTable
    BY <1>1, BareInletsLinks, SaveInletsLinks DEF SavedTable, BareTable
  <2>2. QED
    BY <1>1, <2>1, NobodyFeedsBare, FanOutAssumption, AllIdleLinks
       DEF LinkSaved, Answered, Linking, NoCall
<1>4. NoMail.type \notin LinkType /\ NoMail.from \notin Nodes
  BY NoNodeAssumption DEF NoMail, LinkType
<1>5. QED
  BY <1>1, <1>2, <1>3, <1>4 DEF EndsMeet

\* While packets are lost and nothing worse happens, what both ends of every link
\* hold agrees with what the listener has saved and what its call is about.
THEOREM BothInvariance ==
  ASSUME HaveRoom, OnlyLosses
  PROVE  Spec => []BothInv
<1>1. Init => \A n \in Nodes : EndsMeet(n)
  BY InitEnds
<1>2. IInv /\ AlongLinks /\ (\A n \in Nodes : AsksFor(n)) /\ (\A n \in Nodes : EndsMeet(n))
        /\ TypeOK' /\ [Next]_vars => (\A n \in Nodes : EndsMeet(n))'
  BY StepEnds DEF BothInv
<1>3. Undisturbed /\ \A n \in Nodes : HaveSpace(Heard(n))
  BY DEF HaveRoom, OnlyLosses, Undisturbed, RadioEvents
<1>4. Spec => [](\A n \in Nodes : AsksFor(n)) /\ []AlongLinks
  BY <1>3, CallsAskForTheOpposite, DataKeepToLinks
<1>5. IInv /\ AlongLinks /\ (\A n \in Nodes : AsksFor(n)) /\ (\A n \in Nodes : EndsMeet(n))
        => BothInv
  BY DEF BothInv
<1>6. QED
  BY <1>1, <1>2, <1>4, <1>5, Invariance, TypeCorrect, PTL DEF Spec

\* A listener that is not in a call about a link has one exactly if the other end
\* has it, whatever packets were lost and whatever data were sent.
THEOREM EndsAgree ==
  ASSUME HaveRoom, OnlyLosses
  PROVE  Spec => []LinkedAtBothEnds
<1>1. BothInv => LinkedAtBothEnds
  <2> SUFFICES ASSUME BothInv, NEW r \in Nodes, NEW s \in Nodes, ~Linking(r)
               PROVE  s \in Parents(r) <=> r \in Children(s)
    BY DEF LinkedAtBothEnds
  <2>1. NodeInv(r) /\ "reset" \notin Events /\ EndsMeet(s) /\ ~Answered(r, s)
    BY DEF BothInv, IInv, OnlyLosses, Answered
  <2>2. s \in Parents(r) <=> FedIn(RamTable(r), s) # {}
    BY DEF Parents, InletsOf, FedIn, RamTable, TableOf
  <2>3. FedIn(RamTable(r), s) # {} <=> LinkSaved(r, s)
    BY <2>1, SavedIsLinked DEF LinkSaved
  <2>4. r \in Children(s) <=> LinkSaved(r, s)
    BY <2>1 DEF EndsMeet, Children
  <2>5. QED
    BY <2>2, <2>3, <2>4
<1>2. QED
  BY <1>1, BothInvariance, PTL

\* A node that reads ACK_LINK has room for the link, whatever packets were lost.
THEOREM NewLinksFindRoom ==
  ASSUME HaveRoom, OnlyLosses
  PROVE  Spec => []AckLinkFindsRoom
<1>1. BothInv => AckLinkFindsRoom
  BY LinkHasRoom DEF AckLinkFindsRoom
<1>2. QED
  BY <1>1, BothInvariance, PTL

\* No outlet holds two links to one node, though connect() does not check it
\* (Outlet.cpp:13), where no acknowledgement is lost and no answer late: then every
\* call is for a link that the other end does not have.
THEOREM LinksAreSingle ==
  ASSUME HaveRoom, OnlyLosses
  PROVE  Spec => []NoConflictingOutletLinks
<1>1. BothInv => NoConflictingOutletLinks
  <2> SUFFICES ASSUME BothInv, NEW n \in Nodes, NEW k \in Active(outlet[n]),
                      NEW l \in Active(outlet[n]), outlet[n][k].node = outlet[n][l].node
               PROVE  k = l
    BY DEF NoConflictingOutletLinks
  <2>1. EachOnce(outlet[n])
    BY DEF BothInv, EndsMeet
  <2>2. k \in DOMAIN outlet[n] /\ l \in DOMAIN outlet[n] /\ outlet[n][k].node # NoNode
    BY DEF Active
  <2>3. QED
    BY <2>1, <2>2 DEF EachOnce
<1>2. QED
  BY <1>1, BothInvariance, PTL
=============================================================================
