-------------------------- MODULE InletArrayProofs --------------------------
(***************************************************************************)
(* Lemmas about the operators of InletArray: what they return, and which   *)
(* links they make and delete.                                             *)
(***************************************************************************)
EXTENDS InletArray, PortsProofs

\* From an inlet, the search of requestMoveDeleteInlet visits the other inlets,
\* all of them, and not the inlet itself.
LEMMA AfterVisitsOthers ==
  ASSUME NEW i \in Inlets
  PROVE  /\ \A k \in 1..(NumInlets - 1) : After(i, k) \in Inlets \ {i}
         /\ \A j \in Inlets \ {i} : \E k \in 1..(NumInlets - 1) : After(i, k) = j
<1>1. NumInlets \in Nat /\ NumInlets > 0
  BY NumInletsAssumption
<1>2. \A m \in 0..(NumInlets - 1) : m % NumInlets = m
  BY <1>1
<1>3. \A m \in 0..(NumInlets - 1) : (m + NumInlets) % NumInlets = m
  BY <1>1
<1>4. ASSUME NEW k \in 1..(NumInlets - 1)
      PROVE  After(i, k) \in Inlets \ {i}
  <2>1. CASE i - 1 + k < NumInlets
    <3>1. (i - 1 + k) % NumInlets = i - 1 + k
      BY <1>1, <1>2, <2>1 DEF Inlets
    <3>2. QED
      BY <1>1, <2>1, <3>1 DEF After, Inlets
  <2>2. CASE i - 1 + k >= NumInlets
    <3> DEFINE m == i - 1 + k - NumInlets
    <3>1. m \in 0..(NumInlets - 1) /\ m + NumInlets = i - 1 + k
      BY <1>1, <2>2 DEF Inlets
    <3>2. (i - 1 + k) % NumInlets = i - 1 + k - NumInlets
      BY <1>3, <3>1
    <3>3. QED
      BY <1>1, <2>2, <3>2 DEF After, Inlets
  <2>3. QED
    BY <1>1, <2>1, <2>2 DEF Inlets
<1>5. ASSUME NEW j \in Inlets \ {i}
      PROVE  \E k \in 1..(NumInlets - 1) : After(i, k) = j
  <2>1. CASE j > i
    <3>1. j - i \in 1..(NumInlets - 1) /\ i - 1 + (j - i) = j - 1
      BY <1>1, <2>1 DEF Inlets
    <3>2. (j - 1) % NumInlets = j - 1
      BY <1>1, <1>2 DEF Inlets
    <3>3. After(i, j - i) = j
      BY <3>1, <3>2 DEF After, Inlets
    <3>4. QED
      BY <3>1, <3>3
  <2>2. CASE j < i
    <3> DEFINE k == j - i + NumInlets
    <3>1. k \in 1..(NumInlets - 1) /\ i - 1 + k = (j - 1) + NumInlets
      BY <1>1, <2>2 DEF Inlets
    <3>2. ((j - 1) + NumInlets) % NumInlets = j - 1
      BY <1>1, <1>3 DEF Inlets
    <3>3. After(i, k) = j
      BY <3>1, <3>2 DEF After, Inlets
    <3>4. QED
      BY <3>1, <3>3
  <2>3. QED
    BY <2>1, <2>2 DEF Inlets
<1>6. QED
  BY <1>4, <1>5

\* Adding a link leaves the links of the other nodes alone and gives the node
\* one on one more inlet, an inlet that had room.
LEMMA AddLinkLinks ==
  ASSUME NEW ins \in InletState, NEW a \in Nodes
  PROVE  LET result == AddLink(ins, a)
         IN  /\ result.inlets \in InletState
             /\ \A b \in Nodes \ {a} : InletsOf(result.inlets, b) = InletsOf(ins, b)
             /\ \/ result = Result("none", ins)
                \/ /\ result.action = "added"
                   /\ \E i \in WithSpace(ins) :
                        InletsOf(result.inlets, a) = InletsOf(ins, a) \cup {i}
<1>1. CASE WithSpace(ins) = {}
  BY <1>1 DEF AddLink, Result
<1>2. CASE WithSpace(ins) # {}
  <2> DEFINE i == Min(WithSpace(ins))
  <2>1. i \in WithSpace(ins) /\ i \in Inlets
    <3>1. WithSpace(ins) \subseteq Nat /\ WithSpace(ins) \subseteq Inlets
      BY DEF WithSpace, Inlets
    <3>2. QED
      BY <1>2, <3>1, MinOfNaturals
  <2> HIDE DEF i
  <2>2. AddLink(ins, a) = Result("added", [ins EXCEPT ![i] = Connect(@, Fresh(a))])
    BY <1>2 DEF AddLink, i
  <2> DEFINE new == [ins EXCEPT ![i] = Connect(@, Fresh(a))]
  <2>3. ins[i] \in Ports(FanIn) /\ FanIn \in Nat /\ ~IsFull(ins[i])
    BY <2>1, FanInAssumption DEF InletState, WithSpace
  <2>4. Fresh(a) \in Port /\ Fresh(a).node = a
    BY LinkTypes DEF Fresh
  <2>5. Connect(ins[i], Fresh(a)) \in Ports(FanIn)
    BY <2>3, <2>4, ConnectType
  <2>6. /\ \A b \in Nodes \ {a} : HasLink(Connect(ins[i], Fresh(a)), b) <=> HasLink(ins[i], b)
        /\ HasLink(Connect(ins[i], Fresh(a)), a)
    BY <2>3, <2>4, ConnectLinks
  <2>7. new \in InletState
    BY <2>5 DEF InletState
  <2>8. \A j \in Inlets : new[j] = IF j = i THEN Connect(ins[i], Fresh(a)) ELSE ins[j]
    BY DEF InletState
  <2> HIDE DEF new
  <2>9. \A b \in Nodes \ {a} : InletsOf(new, b) = InletsOf(ins, b)
    BY <2>6, <2>8 DEF InletsOf
  <2>10. InletsOf(new, a) = InletsOf(ins, a) \cup {i}
    BY <2>1, <2>6, <2>8 DEF InletsOf
  <2>11. AddLink(ins, a) = Result("added", new)
    BY <2>2 DEF new
  <2>12. QED
    BY <2>1, <2>7, <2>9, <2>10, <2>11 DEF Result
<1>3. QED
  BY <1>1, <1>2

\* Deleting the links of a node from an inlet changes nothing else.
LEMMA DeleteLinkLinks ==
  ASSUME NEW ins \in InletState, NEW a \in Nodes, NEW i \in Inlets
  PROVE  LET new == DeleteLink(ins, a, i)
         IN  /\ new \in InletState
             /\ \A b \in Nodes \ {a} : InletsOf(new, b) = InletsOf(ins, b)
             /\ InletsOf(new, a) = InletsOf(ins, a) \ {i}
<1> DEFINE new == [ins EXCEPT ![i] = Disconnect(@, a)]
<1>1. ins[i] \in Ports(FanIn) /\ FanIn \in Nat
  BY FanInAssumption DEF InletState
<1>2. Disconnect(ins[i], a) \in Ports(FanIn)
  BY <1>1, DisconnectType
<1>3. \A b \in Nodes : HasLink(Disconnect(ins[i], a), b) <=> HasLink(ins[i], b) /\ b # a
  BY <1>1, DisconnectLinks
<1>4. new \in InletState
  BY <1>2 DEF InletState
<1>5. \A j \in Inlets : new[j] = IF j = i THEN Disconnect(ins[i], a) ELSE ins[j]
  BY DEF InletState
<1>6. DeleteLink(ins, a, i) = new
  BY DEF DeleteLink
<1> HIDE DEF new
<1>7. /\ \A b \in Nodes \ {a} : InletsOf(new, b) = InletsOf(ins, b)
      /\ InletsOf(new, a) = InletsOf(ins, a) \ {i}
  BY <1>3, <1>5 DEF InletsOf
<1>8. QED
  BY <1>4, <1>6, <1>7

\* Moving takes the links of a node from one inlet and gives it one on another.
LEMMA MoveLinkLinks ==
  ASSUME NEW ins \in InletState, NEW a \in Nodes,
         NEW i \in Inlets, NEW j \in Inlets \ {i}, ~IsFull(ins[j])
  PROVE  LET new == MoveLink(ins, a, i, j)
         IN  /\ new \in InletState
             /\ \A b \in Nodes \ {a} : InletsOf(new, b) = InletsOf(ins, b)
             /\ InletsOf(new, a) = (InletsOf(ins, a) \ {i}) \cup {j}
<1> DEFINE new == [ins EXCEPT ![i] = Disconnect(@, a), ![j] = Connect(@, Fresh(a))]
<1>1. ins[i] \in Ports(FanIn) /\ ins[j] \in Ports(FanIn) /\ FanIn \in Nat
  BY FanInAssumption DEF InletState
<1>2. Fresh(a) \in Port /\ Fresh(a).node = a
  BY LinkTypes DEF Fresh
<1>3. Disconnect(ins[i], a) \in Ports(FanIn) /\ Connect(ins[j], Fresh(a)) \in Ports(FanIn)
  BY <1>1, <1>2, ConnectType, DisconnectType
<1>4. \A b \in Nodes : HasLink(Disconnect(ins[i], a), b) <=> HasLink(ins[i], b) /\ b # a
  BY <1>1, DisconnectLinks
<1>5. /\ \A b \in Nodes \ {a} : HasLink(Connect(ins[j], Fresh(a)), b) <=> HasLink(ins[j], b)
      /\ HasLink(Connect(ins[j], Fresh(a)), a)
  BY <1>1, <1>2, ConnectLinks
<1>6. new \in InletState
  BY <1>3 DEF InletState
<1>7. \A k \in Inlets :
        new[k] = IF k = j THEN Connect(ins[j], Fresh(a))
                 ELSE IF k = i THEN Disconnect(ins[i], a) ELSE ins[k]
  BY DEF InletState
<1>8. MoveLink(ins, a, i, j) = new
  BY DEF MoveLink
<1> HIDE DEF new
<1>9. /\ \A b \in Nodes \ {a} : InletsOf(new, b) = InletsOf(ins, b)
      /\ InletsOf(new, a) = (InletsOf(ins, a) \ {i}) \cup {j}
  BY <1>4, <1>5, <1>7 DEF InletsOf
<1>10. QED
  BY <1>6, <1>8, <1>9

\* A request leaves inlets, whatever links they have.
LEMMA RequestType ==
  ASSUME NEW ins \in InletState, NEW a \in Nodes
  PROVE  RequestForConnexion(ins, a).inlets \in InletState
<1> DEFINE i     == Min(InletsOf(ins, a))
           steps == {k \in 1..(NumInlets - 1) : After(i, k) \in WithSpace(ins)}
           j     == After(i, Min(steps))
<1>1. AddLink(ins, a).inlets \in InletState
  BY AddLinkLinks
<1>2. ASSUME InletsOf(ins, a) # {}
      PROVE  i \in Inlets
  <2>1. InletsOf(ins, a) \subseteq Nat /\ InletsOf(ins, a) \subseteq Inlets
    BY DEF InletsOf, Inlets
  <2>2. QED
    BY <1>2, <2>1, MinOfNaturals
<1>3. ASSUME i \in Inlets, steps # {}
      PROVE  j \in Inlets \ {i} /\ ~IsFull(ins[j])
  <2>1. Min(steps) \in steps
    <3>1. steps \subseteq Nat
      OBVIOUS
    <3>2. QED
      BY <1>3, <3>1, MinOfNaturals
  <2>2. QED
    BY <1>3, <2>1, AfterVisitsOthers DEF WithSpace
<1>4. \/ RequestForConnexion(ins, a) = AddLink(ins, a)
      \/ /\ InletsOf(ins, a) # {}
         /\ RequestForConnexion(ins, a) = Result("deleted", DeleteLink(ins, a, i))
      \/ /\ InletsOf(ins, a) # {} /\ steps # {}
         /\ RequestForConnexion(ins, a) = Result("moved", MoveLink(ins, a, i, j))
  BY DEF RequestForConnexion
<1> HIDE DEF i, steps, j
<1>5. QED
  BY <1>1, <1>2, <1>3, <1>4, DeleteLinkLinks, MoveLinkLinks DEF Result

\* What serving a request of node a may have done to the inlets, to those of its
\* links and to nothing else.
Served(ins, a, result) ==
  \/ result = Result("none", ins)
  \/ /\ result.action = "added"
     /\ \E i \in Inlets : /\ InletsOf(ins, a) \subseteq {i}
                          /\ InletsOf(result.inlets, a) = {i}
  \/ /\ result.action = "deleted"
     /\ \E i \in Inlets : InletsOf(ins, a) = {i}
     /\ InletsOf(result.inlets, a) = {}
  \/ /\ result.action = "moved"
     /\ \E i \in Inlets : \E j \in Inlets \ {i} :
          /\ InletsOf(ins, a) = {i}
          /\ InletsOf(result.inlets, a) = {j}

\* What a request does to the links of a node that feeds one inlet at most: it
\* feeds one inlet at most afterwards, whichever way the request is served, and
\* the links of the other nodes stay.
LEMMA RequestLinks ==
  ASSUME NEW ins \in InletState, NEW a \in Nodes,
         \A i, j \in InletsOf(ins, a) : i = j
  PROVE  /\ RequestForConnexion(ins, a).inlets \in InletState
         /\ \A b \in Nodes \ {a} :
              InletsOf(RequestForConnexion(ins, a).inlets, b) = InletsOf(ins, b)
         /\ Served(ins, a, RequestForConnexion(ins, a))
<1> USE DEF Served
<1>1. CASE InletsOf(ins, a) = {}
  <2>1. RequestForConnexion(ins, a) = AddLink(ins, a)
    BY <1>1 DEF RequestForConnexion
  <2>2. WithSpace(ins) \subseteq Inlets
    BY DEF WithSpace
  <2>3. QED
    BY <1>1, <2>1, <2>2, AddLinkLinks
<1>2. CASE InletsOf(ins, a) # {}
  <2> DEFINE i     == Min(InletsOf(ins, a))
             steps == {k \in 1..(NumInlets - 1) : After(i, k) \in WithSpace(ins)}
  <2>1. i \in Inlets /\ InletsOf(ins, a) = {i}
    <3>1. InletsOf(ins, a) \subseteq Nat /\ InletsOf(ins, a) \subseteq Inlets
      BY DEF InletsOf, Inlets
    <3>2. i \in InletsOf(ins, a)
      BY <1>2, <3>1, MinOfNaturals
    <3>3. QED
      BY <3>1, <3>2
  <2>2. RequestForConnexion(ins, a) =
          IF ~IsLoose(LinkOf(ins, a))
            THEN Result("deleted", DeleteLink(ins, a, i))
            ELSE IF steps # {}
                   THEN Result("moved", MoveLink(ins, a, i, After(i, Min(steps))))
                   ELSE AddLink(ins, a)
    BY <1>2 DEF RequestForConnexion
  <2> HIDE DEF i
  <2>3. CASE ~IsLoose(LinkOf(ins, a))
    BY <2>1, <2>2, <2>3, DeleteLinkLinks DEF Result
  <2>4. CASE IsLoose(LinkOf(ins, a)) /\ steps # {}
    <3> DEFINE j == After(i, Min(steps))
    <3>1. Min(steps) \in steps
      <4>1. steps \subseteq Nat
        OBVIOUS
      <4>2. QED
        BY <2>4, <4>1, MinOfNaturals
    <3>2. j \in WithSpace(ins) /\ j \in Inlets \ {i}
      BY <2>1, <3>1, AfterVisitsOthers
    <3>3. ~IsFull(ins[j])
      BY <3>2 DEF WithSpace
    <3>4. RequestForConnexion(ins, a) = Result("moved", MoveLink(ins, a, i, j))
      BY <2>2, <2>4
    <3> HIDE DEF j
    <3>5. InletsOf(MoveLink(ins, a, i, j), a) = {j}
      BY <2>1, <3>2, <3>3, MoveLinkLinks
    <3>6. /\ MoveLink(ins, a, i, j) \in InletState
          /\ \A b \in Nodes \ {a} : InletsOf(MoveLink(ins, a, i, j), b) = InletsOf(ins, b)
      BY <2>1, <3>2, <3>3, MoveLinkLinks
    <3>7. QED
      BY <2>1, <3>2, <3>4, <3>5, <3>6 DEF Result
  <2>5. CASE IsLoose(LinkOf(ins, a)) /\ steps = {}
    <3>1. WithSpace(ins) \subseteq {i}
      BY <2>1, <2>5, AfterVisitsOthers DEF WithSpace
    <3>2. RequestForConnexion(ins, a) = AddLink(ins, a)
      BY <2>2, <2>5
    <3>3. \A k \in WithSpace(ins) : InletsOf(ins, a) \cup {k} = {i}
      BY <2>1, <3>1
    <3>4. QED
      BY <2>1, <3>2, <3>3, AddLinkLinks
  <2>6. QED
    BY <2>3, <2>4, <2>5
<1>3. QED
  BY <1>1, <1>2

\* The clock, a new gluon, saving and loading: all inlets at once.
LEMMA OlderInletsLinks ==
  ASSUME NEW ins \in InletState
  PROVE  /\ OlderInlets(ins) \in InletState
         /\ \A i \in Inlets : \A a \in Nodes :
              HasLink(OlderInlets(ins)[i], a) <=> HasLink(ins[i], a)
<1>1. FanIn \in Nat /\ \A i \in Inlets : ins[i] \in Ports(FanIn)
  BY FanInAssumption DEF InletState
<1>2. \A i \in Inlets : Older(ins[i]) \in Ports(FanIn)
  BY <1>1, OlderType
<1>3. \A i \in Inlets : \A a \in Nodes : HasLink(Older(ins[i]), a) <=> HasLink(ins[i], a)
  BY <1>1, OlderLinks
<1>4. QED
  BY <1>2, <1>3 DEF OlderInlets, InletState

\* The inlets of a new gluon, which the clear messages restore, hold no link.
LEMMA BareInletsLinks ==
  /\ BareInlets \in InletState
  /\ \A i \in Inlets : \A a \in Nodes : ~HasLink(BareInlets[i], a)
BY FanInAssumption, LinkTypes, AllIdleLinks DEF BareInlets, InletState

\* The images that saveInletArray writes name the nodes of each inlet.
LEMMA SaveInletsLinks ==
  ASSUME NEW ins \in InletState
  PROVE  /\ SaveInlets(ins) \in InletImages
         /\ \A i \in Inlets : \A a \in Nodes :
              Names(SaveInlets(ins)[i], a) <=> HasLink(ins[i], a)
<1>1. FanIn \in Nat /\ \A i \in Inlets : ins[i] \in Ports(FanIn)
  BY FanInAssumption DEF InletState
<1>2. \A i \in Inlets : Image(ins[i]) \in Images(FanIn)
  BY <1>1, ImageType
<1>3. \A i \in Inlets : \A a \in Nodes : Names(Image(ins[i]), a) <=> HasLink(ins[i], a)
  BY <1>1, ImageLinks
<1>4. QED
  BY <1>2, <1>3 DEF SaveInlets, InletImages

\* What loadInletArray reads back has the links that the images name.
LEMMA LoadInletsLinks ==
  ASSUME NEW image \in InletImages
  PROVE  /\ LoadInlets(image) \in InletState
         /\ \A i \in Inlets : \A a \in Nodes :
              HasLink(LoadInlets(image)[i], a) <=> Names(image[i], a)
<1>1. FanIn \in Nat /\ \A i \in Inlets : image[i] \in Images(FanIn)
  BY FanInAssumption DEF InletImages
<1>2. \A i \in Inlets : Load(image[i]) \in Ports(FanIn)
  BY <1>1, LoadType
<1>3. \A i \in Inlets : \A a \in Nodes : HasLink(Load(image[i]), a) <=> Names(image[i], a)
  BY <1>1, LoadLinks
<1>4. QED
  BY <1>2, <1>3 DEF LoadInlets, InletState

-----------------------------------------------------------------------------
(* No inlet holds a node twice.                                            *)

AllOnce(ins) == \A i \in Inlets : EachOnce(ins[i])

\* A set of senders has space if they cannot fill all the inlets but one, or if
\* an inlet has one port, so that the one it holds fills it.
HaveSpace(S) ==
  /\ IsFiniteSet(S)
  /\ FanIn = 1 \/ Cardinality(S) <= (NumInlets - 1) * FanIn

\* Among senders that have space, one that is linked finds a port in another
\* inlet, or none in its own: a LOOSE link never becomes two.
LEMMA SpaceElsewhere ==
  ASSUME NEW ins \in InletState, AllOnce(ins), NEW S, HaveSpace(S),
         \A b \in Nodes : \A i, j \in InletsOf(ins, b) : i = j,
         \A b \in Nodes : InletsOf(ins, b) # {} => b \in S,
         NEW a \in Nodes, NEW i \in InletsOf(ins, a)
  PROVE  \/ \E j \in Inlets \ {i} : ~IsFull(ins[j])
         \/ IsFull(ins[i])
<1> SUFFICES ASSUME \A j \in Inlets \ {i} : IsFull(ins[j]), ~IsFull(ins[i])
             PROVE  FALSE
  OBVIOUS
<1>1. i \in Inlets /\ HasLink(ins[i], a)
  BY DEF InletsOf
<1>2. \A j \in Inlets : ins[j] \in Ports(FanIn) /\ DOMAIN ins[j] = 1..FanIn
  BY DEF InletState, Ports
<1>3. CASE FanIn = 1
  <2>1. PICK k \in 1..FanIn : ins[i][k].node = a
    BY <1>1, <1>2 DEF HasLink, PortsOf
  <2>2. Active(ins[i]) = 1..FanIn
    BY <1>1, <1>2, <1>3, <2>1, NoNodeAssumption DEF Active
  <2>3. QED
    BY <1>1, <1>2, <2>2 DEF IsFull
<1>4. CASE Cardinality(S) <= (NumInlets - 1) * FanIn
  <2> DEFINE others == Inlets \ {i}
             places == others \X (1..FanIn)
             f      == [x \in places |-> ins[x[1]][x[2]].node]
  <2>1. ASSUME NEW j \in others, NEW k \in 1..FanIn
        PROVE  ins[j][k].node \in Nodes /\ j \in InletsOf(ins, ins[j][k].node)
    <3>1. j \in Inlets /\ IsFull(ins[j])
      OBVIOUS
    <3> HIDE DEF others, places, f
    <3>2. ins[j] \in [1..FanIn -> Port]
      BY <1>2, <3>1 DEF Ports
    <3>3. k \in Active(ins[j]) /\ ins[j][k] \in Port
      BY <3>1, <3>2 DEF IsFull
    <3>4. ins[j][k].node \in Nodes
      BY <3>3 DEF Active, Port, Id
    <3>5. k \in DOMAIN ins[j]
      BY <3>2
    <3>6. HasLink(ins[j], ins[j][k].node)
      BY <3>5 DEF HasLink, PortsOf
    <3>7. QED
      BY <3>1, <3>4, <3>6 DEF InletsOf
  <2>2. \A x \in places : f[x] \in S \ {a}
    <3>1. ASSUME NEW j \in others, NEW k \in 1..FanIn
          PROVE  f[<<j, k>>] \in S \ {a}
      BY <2>1
    <3> HIDE DEF f
    <3>2. QED
      BY <3>1
  <2>3. ASSUME NEW x \in places, NEW y \in places, f[x] = f[y]
        PROVE  x = y
    <3>1. PICK j \in others, k \in 1..FanIn : x = <<j, k>>
      OBVIOUS
    <3>2. PICK l \in others, m \in 1..FanIn : y = <<l, m>>
      OBVIOUS
    <3>3. ins[j][k].node = ins[l][m].node
      BY <2>3, <3>1, <3>2
    <3> HIDE DEF f, places
    <3>4. ins[j][k].node \in Nodes /\ j = l
      BY <2>1, <3>3
    <3>5. EachOnce(ins[j]) /\ DOMAIN ins[j] = 1..FanIn
      BY <1>2 DEF AllOnce
    <3>6. k = m
      BY <3>3, <3>4, <3>5, NoNodeAssumption DEF EachOnce
    <3>7. QED
      BY <3>1, <3>2, <3>4, <3>6
  <2>4. f \in Injection(places, S \ {a})
    BY <2>2, <2>3 DEF Injection, IsInjective
  <2>5. IsFiniteSet(S \ {a}) /\ Cardinality(S \ {a}) = Cardinality(S) - 1
    <3>1. a \in S
      OBVIOUS
    <3>2. QED
      BY <3>1, FS_RemoveElement DEF HaveSpace
  <2>6. IsFiniteSet(others) /\ Cardinality(others) = NumInlets - 1
    <3>1. IsFiniteSet(Inlets) /\ Cardinality(Inlets) = NumInlets
      BY NumInletsAssumption, FS_Interval DEF Inlets
    <3>2. QED
      BY <1>1, <3>1, FS_RemoveElement
  <2>7. IsFiniteSet(1..FanIn) /\ Cardinality(1..FanIn) = FanIn
    BY FanInAssumption, FS_Interval
  <2> HIDE DEF others
  <2>8. Cardinality(places) = (NumInlets - 1) * FanIn
    <3>1. Cardinality(others \X (1..FanIn)) = Cardinality(others) * Cardinality(1..FanIn)
      BY <2>6, <2>7, FS_Product, Zenon
    <3>2. QED
      BY <2>6, <2>7, <3>1
  <2> HIDE DEF places, f
  <2>9. Cardinality(places) <= Cardinality(S \ {a})
    BY <2>4, <2>5, FS_Injection
  <2>10. Cardinality(S) \in Nat
    BY FS_CardinalityType DEF HaveSpace
  <2>11. QED
    BY <1>4, <2>5, <2>8, <2>9, <2>10, NumInletsAssumption, FanInAssumption
<1>5. QED
  BY <1>3, <1>4 DEF HaveSpace

\* A request of such a sender leaves no node twice, and adds only one that was
\* not linked.
LEMMA RequestOnce ==
  ASSUME NEW ins \in InletState, AllOnce(ins), NEW S, HaveSpace(S),
         \A b \in Nodes : \A i, j \in InletsOf(ins, b) : i = j,
         \A b \in Nodes : InletsOf(ins, b) # {} => b \in S,
         NEW a \in Nodes
  PROVE  LET result == RequestForConnexion(ins, a)
         IN  /\ AllOnce(result.inlets)
             /\ result.action = "added" => InletsOf(ins, a) = {}
<1>1. \A i \in Inlets : ins[i] \in Ports(FanIn) /\ FanIn \in Nat
  BY FanInAssumption DEF InletState
<1>2. Fresh(a) \in Port /\ Fresh(a).node = a
  BY LinkTypes DEF Fresh
<1>3. ASSUME NEW j \in Inlets, NEW ports \in Ports(FanIn), EachOnce(ports)
      PROVE  AllOnce([ins EXCEPT ![j] = ports])
  <2>1. \A k \in Inlets : [ins EXCEPT ![j] = ports][k] = IF k = j THEN ports ELSE ins[k]
    BY DEF InletState
  <2>2. QED
    BY <1>3, <2>1 DEF AllOnce
<1>4. CASE InletsOf(ins, a) = {}
  <2>1. RequestForConnexion(ins, a) = AddLink(ins, a)
    BY <1>4 DEF RequestForConnexion
  <2>2. ASSUME WithSpace(ins) # {}
        PROVE  AllOnce(AddLink(ins, a).inlets)
    <3> DEFINE j == Min(WithSpace(ins))
    <3>1. j \in Inlets
      <4>1. WithSpace(ins) \subseteq Nat /\ WithSpace(ins) \subseteq Inlets
        BY DEF WithSpace, Inlets
      <4>2. QED
        BY <2>2, <4>1, MinOfNaturals
    <3>2. AddLink(ins, a).inlets = [ins EXCEPT ![j] = Connect(ins[j], Fresh(a))]
      BY <2>2 DEF AddLink, Result
    <3> HIDE DEF j
    <3>3. ~HasLink(ins[j], a)
      BY <1>4, <3>1 DEF InletsOf
    <3>4. /\ Connect(ins[j], Fresh(a)) \in Ports(FanIn)
          /\ EachOnce(Connect(ins[j], Fresh(a)))
      BY <1>1, <1>2, <3>1, <3>3, ConnectType, ConnectOnce DEF AllOnce
    <3>5. QED
      BY <1>3, <3>1, <3>2, <3>4
  <2>3. QED
    BY <1>4, <2>1, <2>2 DEF AddLink, Result
<1>5. CASE InletsOf(ins, a) # {}
  <2> DEFINE i     == Min(InletsOf(ins, a))
             steps == {k \in 1..(NumInlets - 1) : After(i, k) \in WithSpace(ins)}
  <2>1. i \in Inlets /\ InletsOf(ins, a) = {i}
    <3>1. InletsOf(ins, a) \subseteq Nat /\ InletsOf(ins, a) \subseteq Inlets
      BY DEF InletsOf, Inlets
    <3>2. i \in InletsOf(ins, a)
      BY <1>5, <3>1, MinOfNaturals
    <3>3. QED
      BY <3>1, <3>2
  <2>2. RequestForConnexion(ins, a) =
          IF ~IsLoose(LinkOf(ins, a))
            THEN Result("deleted", DeleteLink(ins, a, i))
            ELSE IF steps # {}
                   THEN Result("moved", MoveLink(ins, a, i, After(i, Min(steps))))
                   ELSE AddLink(ins, a)
    BY <1>5 DEF RequestForConnexion
  <2> HIDE DEF i
  <2>3. Disconnect(ins[i], a) \in Ports(FanIn) /\ EachOnce(Disconnect(ins[i], a))
    BY <1>1, <2>1, DisconnectType, DisconnectOnce DEF AllOnce
  <2>4. CASE ~IsLoose(LinkOf(ins, a))
    <3>1. DeleteLink(ins, a, i) = [ins EXCEPT ![i] = Disconnect(ins[i], a)]
      BY DEF DeleteLink
    <3>2. RequestForConnexion(ins, a) = Result("deleted", DeleteLink(ins, a, i))
      BY <2>2, <2>4
    <3>3. AllOnce([ins EXCEPT ![i] = Disconnect(ins[i], a)])
      BY <1>3, <2>1, <2>3
    <3>4. QED
      BY <3>1, <3>2, <3>3 DEF Result
  <2>5. CASE IsLoose(LinkOf(ins, a)) /\ steps # {}
    <3> DEFINE j == After(i, Min(steps))
    <3>1. Min(steps) \in steps
      <4>1. steps \subseteq Nat
        OBVIOUS
      <4>2. QED
        BY <2>5, <4>1, MinOfNaturals
    <3>2. j \in Inlets \ {i}
      BY <2>1, <3>1, AfterVisitsOthers
    <3>3. RequestForConnexion(ins, a) = Result("moved", MoveLink(ins, a, i, j))
      BY <2>2, <2>5
    <3> HIDE DEF j
    <3>4. ~HasLink(ins[j], a)
      BY <2>1, <3>2 DEF InletsOf
    <3>5. /\ Connect(ins[j], Fresh(a)) \in Ports(FanIn)
          /\ EachOnce(Connect(ins[j], Fresh(a)))
      BY <1>1, <1>2, <3>2, <3>4, ConnectType, ConnectOnce DEF AllOnce
    <3>6. \A k \in Inlets : MoveLink(ins, a, i, j)[k] =
            IF k = j THEN Connect(ins[j], Fresh(a))
            ELSE IF k = i THEN Disconnect(ins[i], a) ELSE ins[k]
      BY <2>1, <3>2 DEF MoveLink, InletState
    <3>7. AllOnce(MoveLink(ins, a, i, j))
      BY <2>3, <3>5, <3>6 DEF AllOnce
    <3>8. QED
      BY <3>3, <3>7 DEF Result
  <2>6. CASE IsLoose(LinkOf(ins, a)) /\ steps = {}
    <3>1. \A j \in Inlets \ {i} : IsFull(ins[j])
      BY <2>1, <2>6, AfterVisitsOthers DEF WithSpace
    <3>2. IsFull(ins[i])
      BY <2>1, <3>1, SpaceElsewhere
    <3>3. WithSpace(ins) = {}
      BY <2>1, <3>1, <3>2 DEF WithSpace
    <3>4. RequestForConnexion(ins, a) = Result("none", ins)
      BY <2>2, <2>6, <3>3 DEF AddLink
    <3>5. QED
      BY <3>4 DEF Result
  <2>7. QED
    BY <2>4, <2>5, <2>6
<1>6. QED
  BY <1>4, <1>5

-----------------------------------------------------------------------------
(* The tables of the inlets, as they are saved.                            *)

Rows(ins) == [i \in Inlets |-> Row(ins[i])]

\* One link is plugged into, or unplugged from, the table of one inlet.
OneRow(old, new) ==
  \E i \in Inlets :
    /\ \A k \in Inlets \ {i} : new[k] = old[k]
    /\ Table!Plugged(old[i], new[i]) \/ Table!Unplugged(old[i], new[i])

\* A link is taken from one table and put into another one.
TwoRows(old, new) ==
  \E i, j \in Inlets :
    /\ i # j
    /\ \A k \in Inlets \ {i, j} : new[k] = old[k]
    /\ Table!Unplugged(old[i], new[i])
    /\ Table!Plugged(old[j], new[j])

\* Adding a link changes one table, or there is no space for it.
LEMMA AddLinkRows ==
  ASSUME NEW ins \in InletState, NEW a \in Nodes
  PROVE  \/ AddLink(ins, a) = Result("none", ins)
         \/ /\ AddLink(ins, a).action = "added"
            /\ OneRow(Rows(ins), Rows(AddLink(ins, a).inlets))
<1>1. CASE WithSpace(ins) = {}
  BY <1>1 DEF AddLink
<1>2. CASE WithSpace(ins) # {}
  <2> DEFINE i == Min(WithSpace(ins))
  <2>1. i \in WithSpace(ins) /\ i \in Inlets
    <3>1. WithSpace(ins) \subseteq Nat /\ WithSpace(ins) \subseteq Inlets
      BY DEF WithSpace, Inlets
    <3>2. QED
      BY <1>2, <3>1, MinOfNaturals
  <2> HIDE DEF i
  <2> DEFINE new == [ins EXCEPT ![i] = Connect(@, Fresh(a))]
  <2>2. AddLink(ins, a) = Result("added", new)
    BY <1>2 DEF AddLink, i
  <2>3. ins[i] \in Ports(FanIn) /\ FanIn \in Nat /\ ~IsFull(ins[i])
    BY <2>1, FanInAssumption DEF InletState, WithSpace
  <2>4. Fresh(a) \in Port /\ Fresh(a).node = a
    BY LinkTypes DEF Fresh
  <2>5. Table!Plugged(Row(ins[i]), Row(Connect(ins[i], Fresh(a))))
    BY <2>3, <2>4, ConnectRow
  <2>6. \A j \in Inlets : new[j] = IF j = i THEN Connect(ins[i], Fresh(a)) ELSE ins[j]
    BY DEF InletState
  <2> HIDE DEF new
  <2>7. OneRow(Rows(ins), Rows(new))
    BY <2>1, <2>5, <2>6 DEF OneRow, Rows
  <2>8. QED
    BY <2>2, <2>7 DEF Result
<1>3. QED
  BY <1>1, <1>2

\* A request that is served changes the table of one inlet, or of two.
LEMMA RequestRows ==
  ASSUME NEW ins \in InletState, NEW a \in Nodes
  PROVE  LET result == RequestForConnexion(ins, a)
         IN  \/ result = Result("none", ins)
             \/ /\ result.action \in {"added", "deleted"}
                /\ OneRow(Rows(ins), Rows(result.inlets))
             \/ /\ result.action = "moved"
                /\ TwoRows(Rows(ins), Rows(result.inlets))
<1> DEFINE i     == Min(InletsOf(ins, a))
           steps == {k \in 1..(NumInlets - 1) : After(i, k) \in WithSpace(ins)}
           j     == After(i, Min(steps))
<1>1. ASSUME InletsOf(ins, a) # {}
      PROVE  i \in Inlets /\ HasLink(ins[i], a)
  <2>1. InletsOf(ins, a) \subseteq Nat /\ InletsOf(ins, a) \subseteq Inlets
    BY DEF InletsOf, Inlets
  <2>2. i \in InletsOf(ins, a)
    BY <1>1, <2>1, MinOfNaturals
  <2>3. QED
    BY <2>2 DEF InletsOf
<1>2. ASSUME i \in Inlets, steps # {}
      PROVE  j \in Inlets \ {i} /\ ~IsFull(ins[j])
  <2>1. Min(steps) \in steps
    <3>1. steps \subseteq Nat
      OBVIOUS
    <3>2. QED
      BY <1>2, <3>1, MinOfNaturals
  <2>2. QED
    BY <1>2, <2>1, AfterVisitsOthers DEF WithSpace
<1>3. \/ RequestForConnexion(ins, a) = AddLink(ins, a)
      \/ /\ InletsOf(ins, a) # {}
         /\ RequestForConnexion(ins, a) = Result("deleted", DeleteLink(ins, a, i))
      \/ /\ InletsOf(ins, a) # {} /\ steps # {}
         /\ RequestForConnexion(ins, a) = Result("moved", MoveLink(ins, a, i, j))
  BY DEF RequestForConnexion
<1> HIDE DEF i, steps, j
<1>4. \A k \in Inlets : ins[k] \in Ports(FanIn) /\ FanIn \in Nat
  BY FanInAssumption DEF InletState
<1>5. ASSUME InletsOf(ins, a) # {}
      PROVE  OneRow(Rows(ins), Rows(DeleteLink(ins, a, i)))
  <2>1. Table!Unplugged(Row(ins[i]), Row(Disconnect(ins[i], a)))
    BY <1>1, <1>4, <1>5, DisconnectRow
  <2>2. \A k \in Inlets :
          DeleteLink(ins, a, i)[k] = IF k = i THEN Disconnect(ins[i], a) ELSE ins[k]
    BY DEF DeleteLink, InletState
  <2>3. QED
    BY <1>1, <1>5, <2>1, <2>2 DEF OneRow, Rows
<1>6. ASSUME InletsOf(ins, a) # {}, steps # {}
      PROVE  TwoRows(Rows(ins), Rows(MoveLink(ins, a, i, j)))
  <2>1. i \in Inlets /\ HasLink(ins[i], a) /\ j \in Inlets \ {i} /\ ~IsFull(ins[j])
    BY <1>1, <1>2, <1>6
  <2>2. Table!Unplugged(Row(ins[i]), Row(Disconnect(ins[i], a)))
    BY <1>4, <2>1, DisconnectRow
  <2>3. Fresh(a) \in Port /\ Fresh(a).node = a
    BY LinkTypes DEF Fresh
  <2>4. Table!Plugged(Row(ins[j]), Row(Connect(ins[j], Fresh(a))))
    BY <1>4, <2>1, <2>3, ConnectRow
  <2>5. \A k \in Inlets :
          MoveLink(ins, a, i, j)[k] =
            IF k = j THEN Connect(ins[j], Fresh(a))
            ELSE IF k = i THEN Disconnect(ins[i], a) ELSE ins[k]
    BY <2>1 DEF MoveLink, InletState
  <2>6. QED
    BY <2>1, <2>2, <2>4, <2>5 DEF TwoRows, Rows
<1>7. QED
  BY <1>3, <1>5, <1>6, AddLinkRows DEF Result

\* The clock and the bare inlets; what is saved has no gap, and what is loaded
\* has the tables that were saved.
LEMMA OlderRows ==
  ASSUME NEW ins \in InletState
  PROVE  Rows(OlderInlets(ins)) = Rows(ins)
BY OlderRow, FanInAssumption DEF Rows, OlderInlets, InletState

LEMMA BareRows == Rows(BareInlets) = [i \in Inlets |-> <<>>]
BY AllIdleRow, FanInAssumption DEF Rows, BareInlets

LEMMA SavedRows ==
  ASSUME NEW ins \in InletState
  PROVE  /\ \A i \in Inlets : Packed(SaveInlets(ins)[i])
         /\ [i \in Inlets |-> IdsIn(SaveInlets(ins)[i])] = Rows(ins)
BY ImagePacked, FanInAssumption DEF Rows, Row, SaveInlets, InletState

LEMMA LoadedRows ==
  ASSUME NEW images \in InletImages, \A i \in Inlets : Packed(images[i])
  PROVE  Rows(LoadInlets(images)) = [i \in Inlets |-> IdsIn(images[i])]
BY LoadRow, FanInAssumption DEF Rows, LoadInlets, InletImages
=============================================================================
