----------------------------- MODULE PortsProofs -----------------------------
(***************************************************************************)
(* Lemmas about the operators of Ports: the loops that look for an index   *)
(* find one, arrays keep their shape, and which links an operator leaves.  *)
(***************************************************************************)
EXTENDS Ports, Sequences, FiniteSetTheorems, WellFoundedInduction, TLAPS

\* A set of naturals that is not empty has a smallest element, and Min is it:
\* the loops of the code that look for the first index stop at an index.
LEMMA MinOfNaturals ==
  ASSUME NEW S, S \subseteq Nat, S # {}
  PROVE  Min(S) \in S /\ \A y \in S : Min(S) =< y
<1>1. PICK x \in S : \A y \in S : ~(<<y, x>> \in OpToRel(<, Nat))
  <2>1. IsWellFoundedOn(OpToRel(<, Nat), Nat)
    BY NatLessThanWellFounded
  <2>2. QED
    BY <2>1, WFMin, Zenon
<1>2. \A y \in S : x =< y
  <2>1. ASSUME NEW y \in S
        PROVE  x =< y
    <3>1. ~(<<y, x>> \in OpToRel(<, Nat))
      BY <1>1
    <3>2. ~(y < x)
      BY <3>1 DEF OpToRel
    <3>3. QED
      BY <3>2
  <2>2. QED
    BY <2>1
<1>3. QED
  BY <1>2 DEF Min

-----------------------------------------------------------------------------
(* Ports.                                                                  *)

\* Ports stay ports: connect, disconnect and the clock write inside the array.
\* Connecting a link writes inside the array, whether or not it is full.
LEMMA ConnectType ==
  ASSUME NEW size \in Nat, NEW p \in Ports(size), NEW link \in Port
  PROVE  Connect(p, link) \in Ports(size)
BY DEF Connect, Ports

\* Disconnecting a node leaves an array of ports of the same size.
LEMMA DisconnectType ==
  ASSUME NEW size \in Nat, NEW p \in Ports(size), NEW a
  PROVE  Disconnect(p, a) \in Ports(size)
<1>1. Idle \in Port
  BY LoosePeriodAssumption DEF Idle, Port, Id
<1>2. QED
  BY <1>1 DEF Disconnect, Ports

\* A tick takes no age past LoosePeriod.
LEMMA OlderType ==
  ASSUME NEW size \in Nat, NEW p \in Ports(size)
  PROVE  Older(p) \in Ports(size)
<1>1. ASSUME NEW k \in 1..size, IsLoose(p[k])
      PROVE  [p[k] EXCEPT !.age = @ + 1] \in Port
  BY <1>1, LoosePeriodAssumption DEF Ports, Port, IsLoose
<1>2. QED
  BY <1>1 DEF Older, Ports

\* The ports of a new gluon, and the links that requests and messages make.
LEMMA LinkTypes ==
  /\ \A size \in Nat : AllIdle(size) \in Ports(size)
  /\ \A a \in Nodes : Fresh(a) \in Port /\ Fixed(a) \in Port
BY LoosePeriodAssumption DEF AllIdle, Ports, Idle, Port, Id, Fresh, Fixed

\* What is saved is an image, what is loaded from an image is ports.
LEMMA ImageType ==
  ASSUME NEW size \in Nat, NEW p \in Ports(size)
  PROVE  Image(p) \in Images(size)
<1>1. ASSUME NEW r \in 1..size, \E k \in Active(p) : Rank(p, k) = r
      PROVE  p[CHOOSE k \in Active(p) : Rank(p, k) = r].node \in Id
  <2>1. PICK k : k = CHOOSE m \in Active(p) : Rank(p, m) = r
    OBVIOUS
  <2>2. k \in Active(p)
    BY <1>1, <2>1
  <2>3. p[k].node \in Id
    BY <2>2 DEF Active, Ports, Port
  <2>4. QED
    BY <2>1, <2>3
<1>2. DOMAIN p = 1..size
  BY DEF Ports
<1>3. QED
  BY <1>1, <1>2 DEF Image, Images, Id

\* What is loaded is an array of ports of the size of the image.
LEMMA LoadType ==
  ASSUME NEW size \in Nat, NEW image \in Images(size)
  PROVE  Load(image) \in Ports(size)
BY LoosePeriodAssumption DEF Load, Images, Ports, Idle, Fixed, Port, Id

\* Connecting a link makes it, if there is room, and harms no other link: the
\* port it takes is idle.
LEMMA ConnectLinks ==
  ASSUME NEW size \in Nat, NEW p \in Ports(size),
         NEW a \in Nodes, NEW link \in Port, link.node = a
  PROVE  /\ \A b \in Nodes \ {a} : HasLink(Connect(p, link), b) <=> HasLink(p, b)
         /\ ~IsFull(p) => HasLink(Connect(p, link), a)
         /\ HasLink(p, a) => HasLink(Connect(p, link), a)
<1>1. CASE IsFull(p)
  BY <1>1 DEF Connect
<1>2. CASE ~IsFull(p)
  <2> DEFINE idle == DOMAIN p \ Active(p)
             m    == Min(idle)
  <2>1. DOMAIN p = 1..size
    BY DEF Ports
  <2>2. idle # {}
    BY <1>2 DEF IsFull, Active
  <2>3. m \in idle
    <3>1. idle \subseteq Nat
      BY <2>1
    <3> HIDE DEF idle
    <3>2. QED
      BY <2>2, <3>1, MinOfNaturals
  <2>4. m \in DOMAIN p /\ p[m].node = NoNode
    BY <2>3 DEF Active
  <2>5. Connect(p, link) = [p EXCEPT ![m] = link]
    BY <1>2 DEF Connect
  <2> HIDE DEF m
  <2>6. \A k \in DOMAIN p : Connect(p, link)[k] = IF k = m THEN link ELSE p[k]
    BY <2>1, <2>5 DEF Ports
  <2>7. DOMAIN Connect(p, link) = DOMAIN p
    BY <2>5
  <2>8. \A b \in Nodes : b # NoNode
    BY NoNodeAssumption
  <2>9. HasLink(Connect(p, link), a)
    BY <2>4, <2>6, <2>7 DEF HasLink, PortsOf
  <2>10. \A b \in Nodes \ {a} : HasLink(Connect(p, link), b) <=> HasLink(p, b)
    BY <2>4, <2>6, <2>7, <2>8 DEF HasLink, PortsOf
  <2>11. QED
    BY <2>9, <2>10
<1>3. QED
  BY <1>1, <1>2

\* Disconnecting a node deletes all its links and no other.
LEMMA DisconnectLinks ==
  ASSUME NEW size \in Nat, NEW p \in Ports(size), NEW a \in Nodes, NEW b \in Nodes
  PROVE  HasLink(Disconnect(p, a), b) <=> HasLink(p, b) /\ b # a
BY NoNodeAssumption DEF HasLink, PortsOf, Disconnect, Idle, Ports

\* The clock makes and deletes no link, and neither does a new gluon have one.
LEMMA OlderLinks ==
  ASSUME NEW size \in Nat, NEW p \in Ports(size), NEW a \in Nodes
  PROVE  HasLink(Older(p), a) <=> HasLink(p, a)
<1>1. \A k \in DOMAIN p : Older(p)[k].node = p[k].node
  BY DEF Older, Ports, Port
<1>2. DOMAIN Older(p) = DOMAIN p
  BY DEF Older
<1>3. QED
  BY <1>1, <1>2 DEF HasLink, PortsOf

\* Idle ports hold no link with a node.
LEMMA AllIdleLinks ==
  ASSUME NEW size \in Nat, NEW a \in Nodes
  PROVE  ~HasLink(AllIdle(size), a)
BY NoNodeAssumption DEF HasLink, PortsOf, AllIdle, Idle

\* What is loaded has links with the nodes that the image names.
LEMMA LoadLinks ==
  ASSUME NEW size \in Nat, NEW image \in Images(size), NEW a \in Nodes
  PROVE  HasLink(Load(image), a) <=> Names(image, a)
BY NoNodeAssumption DEF HasLink, PortsOf, Load, Names, Idle, Fixed, Images

\* Rank numbers the active ports from 1 without a gap that matters: within the
\* array, and no two alike.
LEMMA RankIsInjective ==
  ASSUME NEW size \in Nat, NEW p \in Ports(size)
  PROVE  /\ \A k \in Active(p) : Rank(p, k) \in 1..size
         /\ \A k, m \in Active(p) : Rank(p, k) = Rank(p, m) => k = m
<1> DEFINE below(k) == {j \in Active(p) : j =< k}
<1>1. Active(p) \subseteq 1..size
  BY DEF Active, Ports
<1>2. IsFiniteSet(1..size) /\ Cardinality(1..size) = size
  <2>1. size \in Int /\ 1 \in Int
    OBVIOUS
  <2>2. IsFiniteSet(1..size) /\ Cardinality(1..size) = IF 1 > size THEN 0 ELSE size - 1 + 1
    BY <2>1, FS_Interval
  <2>3. QED
    BY <2>2
<1>3. ASSUME NEW k \in Active(p)
      PROVE  IsFiniteSet(below(k)) /\ Cardinality(below(k)) \in 1..size
  <2>1. below(k) \in SUBSET (1..size)
    BY <1>1
  <2>2. IsFiniteSet(below(k)) /\ Cardinality(below(k)) =< Cardinality(1..size)
    BY <1>2, <2>1, FS_Subset
  <2>3. k \in below(k)
    BY <1>1
  <2>4. Cardinality(below(k)) \in Nat
    BY <2>2, FS_CardinalityType
  <2>5. Cardinality(below(k)) # 0
    BY <2>2, <2>3, FS_EmptySet
  <2>6. QED
    BY <1>2, <2>2, <2>4, <2>5
<1>4. ASSUME NEW k \in Active(p), NEW m \in Active(p),
             Cardinality(below(k)) = Cardinality(below(m)), k < m
      PROVE  FALSE
  <2>1. below(k) \in SUBSET below(m)
    BY <1>1, <1>4
  <2>2. below(m) = below(k)
    BY <1>3, <1>4, <2>1, FS_Subset
  <2>3. m \in below(m) /\ m \notin below(k)
    BY <1>1, <1>4
  <2>4. QED
    BY <2>2, <2>3
<1>5. \A k \in Active(p) : Rank(p, k) = Cardinality(below(k))
  BY DEF Rank
<1> HIDE DEF below
<1>6. \A k \in Active(p) : Rank(p, k) \in 1..size
  BY <1>3, <1>5
<1>7. ASSUME NEW k \in Active(p), NEW m \in Active(p), Rank(p, k) = Rank(p, m)
      PROVE  k = m
  <2>1. ~(k < m) /\ ~(m < k)
    BY <1>4, <1>5, <1>7
  <2>2. QED
    BY <1>1, <2>1
<1>8. QED
  BY <1>6, <1>7

\* The image of an array names the nodes of its links, each of them.
LEMMA ImageLinks ==
  ASSUME NEW size \in Nat, NEW p \in Ports(size), NEW a \in Nodes
  PROVE  Names(Image(p), a) <=> HasLink(p, a)
<1>1. DOMAIN p = 1..size /\ DOMAIN Image(p) = 1..size
  BY DEF Ports, Image
<1>2. ASSUME Names(Image(p), a)
      PROVE  HasLink(p, a)
  <2>1. PICK r \in 1..size : Image(p)[r] = a
    BY <1>1, <1>2 DEF Names
  <2>2. \E k \in Active(p) : Rank(p, k) = r
    BY <1>1, <2>1, NoNodeAssumption DEF Image
  <2>3. PICK k : k = CHOOSE m \in Active(p) : Rank(p, m) = r
    OBVIOUS
  <2>4. k \in Active(p)
    BY <2>2, <2>3
  <2>5. p[k].node = a
    BY <1>1, <2>1, <2>2, <2>3 DEF Image
  <2>6. QED
    BY <2>4, <2>5 DEF HasLink, PortsOf, Active
<1>3. ASSUME HasLink(p, a)
      PROVE  Names(Image(p), a)
  <2>1. PICK k \in DOMAIN p : p[k].node = a
    BY <1>3 DEF HasLink, PortsOf
  <2>2. k \in Active(p)
    BY <2>1, NoNodeAssumption DEF Active
  <2>3. PICK r : r = Rank(p, k)
    OBVIOUS
  <2>4. r \in 1..size
    BY <2>2, <2>3, RankIsInjective
  <2>5. \A m \in Active(p) : Rank(p, m) = r => m = k
    BY <2>2, <2>3, RankIsInjective
  <2>6. (CHOOSE m \in Active(p) : Rank(p, m) = r) = k
    BY <2>2, <2>3, <2>5
  <2>7. Image(p)[r] = a
    BY <1>1, <2>1, <2>2, <2>3, <2>4, <2>6 DEF Image
  <2>8. QED
    BY <1>1, <2>4, <2>7 DEF Names
<1>4. QED
  BY <1>2, <1>3

-----------------------------------------------------------------------------
(* Arrays that hold no node twice.                                         *)

EachOnce(p) ==
  \A k, l \in DOMAIN p : p[k].node # NoNode /\ p[k].node = p[l].node => k = l

NamedOnce(image) ==
  \A k, l \in DOMAIN image : image[k] # NoNode /\ image[k] = image[l] => k = l

\* Connecting a node that has no link yet makes one link.
LEMMA ConnectOnce ==
  ASSUME NEW size \in Nat, NEW p \in Ports(size), NEW a \in Nodes,
         NEW link \in Port, link.node = a, EachOnce(p), ~HasLink(p, a)
  PROVE  EachOnce(Connect(p, link))
<1>1. DOMAIN p = 1..size
  BY DEF Ports
<1>2. ASSUME NEW m \in DOMAIN p, Connect(p, link) = [p EXCEPT ![m] = link]
      PROVE  EachOnce(Connect(p, link))
  <2>1. \A k \in DOMAIN p : Connect(p, link)[k] = IF k = m THEN link ELSE p[k]
    BY <1>1, <1>2 DEF Ports
  <2>2. \A k \in DOMAIN p : p[k].node # a
    BY DEF HasLink, PortsOf
  <2>3. DOMAIN Connect(p, link) = DOMAIN p
    BY <1>2
  <2>4. QED
    BY <2>1, <2>2, <2>3 DEF EachOnce
<1>3. CASE ~IsFull(p)
  <2>1. DOMAIN p \ Active(p) # {} /\ DOMAIN p \ Active(p) \subseteq Nat
    BY <1>1, <1>3 DEF IsFull, Active
  <2>2. Min(DOMAIN p \ Active(p)) \in DOMAIN p
    BY <2>1, MinOfNaturals
  <2>3. QED
    BY <1>2, <1>3, <2>2 DEF Connect
<1>4. QED
  BY <1>3 DEF Connect

\* Disconnecting, the clock and a new gluon leave no node twice.
LEMMA DisconnectOnce ==
  ASSUME NEW size \in Nat, NEW p \in Ports(size), NEW a, EachOnce(p)
  PROVE  EachOnce(Disconnect(p, a))
BY DEF EachOnce, Disconnect, Idle, Ports

LEMMA OlderOnce ==
  ASSUME NEW size \in Nat, NEW p \in Ports(size), EachOnce(p)
  PROVE  EachOnce(Older(p))
<1>1. \A k \in DOMAIN p : Older(p)[k].node = p[k].node
  BY DEF Older, Ports, Port
<1>2. DOMAIN Older(p) = DOMAIN p
  BY DEF Older
<1>3. QED
  BY <1>1, <1>2 DEF EachOnce

LEMMA AllIdleOnce ==
  ASSUME NEW size \in Nat
  PROVE  EachOnce(AllIdle(size))
BY DEF EachOnce, AllIdle, Idle

\* The image of such an array names no node twice, and neither does what is
\* loaded from the image hold one twice.
LEMMA ImageOnce ==
  ASSUME NEW size \in Nat, NEW p \in Ports(size), EachOnce(p)
  PROVE  NamedOnce(Image(p))
<1>1. DOMAIN p = 1..size /\ DOMAIN Image(p) = 1..size
  BY DEF Ports, Image
<1>2. ASSUME NEW r \in 1..size, Image(p)[r] # NoNode
      PROVE  \E k \in Active(p) : Rank(p, k) = r /\ Image(p)[r] = p[k].node
  <2>1. \E k \in Active(p) : Rank(p, k) = r
    BY <1>1, <1>2 DEF Image
  <2>2. PICK k : k = CHOOSE m \in Active(p) : Rank(p, m) = r
    OBVIOUS
  <2>3. k \in Active(p) /\ Rank(p, k) = r
    BY <2>1, <2>2
  <2>4. Image(p)[r] = p[k].node
    BY <1>1, <2>1, <2>2 DEF Image
  <2>5. QED
    BY <2>3, <2>4
<1>3. ASSUME NEW r \in 1..size, NEW q \in 1..size,
             Image(p)[r] # NoNode, Image(p)[r] = Image(p)[q]
      PROVE  r = q
  <2>1. PICK k \in Active(p) : Rank(p, k) = r /\ Image(p)[r] = p[k].node
    BY <1>2, <1>3
  <2>2. PICK l \in Active(p) : Rank(p, l) = q /\ Image(p)[q] = p[l].node
    BY <1>2, <1>3
  <2>3. k = l
    BY <1>3, <2>1, <2>2 DEF EachOnce, Active
  <2>4. QED
    BY <2>1, <2>2, <2>3
<1>4. QED
  BY <1>1, <1>3 DEF NamedOnce

LEMMA LoadOnce ==
  ASSUME NEW size \in Nat, NEW image \in Images(size), NamedOnce(image)
  PROVE  EachOnce(Load(image))
BY DEF EachOnce, NamedOnce, Load, Idle, Fixed, Images

\* An array that holds no node twice, and none but those of a set that has no
\* more nodes than the array has ports, has room as long as one of them is missing.
LEMMA RoomForOne ==
  ASSUME NEW size \in Nat, NEW p \in Ports(size), EachOnce(p),
         NEW S, IsFiniteSet(S), Cardinality(S) <= size,
         \A k \in Active(p) : p[k].node \in S,
         NEW a \in S, a # NoNode, ~HasLink(p, a)
  PROVE  ~IsFull(p)
<1> SUFFICES ASSUME IsFull(p)
             PROVE  FALSE
  OBVIOUS
<1> DEFINE f == [k \in 1..size |-> p[k].node]
<1>1. DOMAIN p = 1..size /\ Active(p) = 1..size
  BY DEF Ports, IsFull
<1>2. IsFiniteSet(S \ {a}) /\ Cardinality(S \ {a}) = Cardinality(S) - 1
  BY FS_RemoveElement
<1>3. f \in [1..size -> S \ {a}]
  BY <1>1 DEF HasLink, PortsOf
<1>4. \A k, l \in 1..size : f[k] = f[l] => k = l
  BY <1>1 DEF EachOnce, Active
<1>5. f \in Injection(1..size, S \ {a})
  BY <1>3, <1>4 DEF Injection, IsInjective
<1> HIDE DEF f
<1>6. Cardinality(1..size) <= Cardinality(S \ {a})
  BY <1>2, <1>5, FS_Injection
<1>7. Cardinality(1..size) = size
  BY FS_Interval
<1>8. Cardinality(S) \in Nat
  BY FS_CardinalityType
<1>9. QED
  BY <1>2, <1>6, <1>7, <1>8
-----------------------------------------------------------------------------
(* The table of an array: the ids of its links, in the order of the ports. *)

Row(p) == IdsIn(Image(p))

\* The ranks of the active ports grow with the ports, and are all the numbers
\* up to the number of links.
LEMMA RanksCount ==
  ASSUME NEW size \in Nat, NEW p \in Ports(size)
  PROVE  LET c == Cardinality(Active(p))
         IN  /\ IsFiniteSet(Active(p)) /\ c \in 0..size
             /\ \A k \in Active(p) : Rank(p, k) \in 1..c
             /\ \A r \in 1..c : \E k \in Active(p) : Rank(p, k) = r
             /\ \A k, m \in Active(p) : k < m => Rank(p, k) < Rank(p, m)
<1> DEFINE below(k) == {j \in Active(p) : j =< k}
           c == Cardinality(Active(p))
<1>1. Active(p) \in SUBSET (1..size)
  BY DEF Active, Ports
<1>2. IsFiniteSet(1..size) /\ Cardinality(1..size) = size
  BY FS_Interval
<1>3. IsFiniteSet(Active(p)) /\ c \in Nat /\ c =< size
  BY <1>1, <1>2, FS_Subset, FS_CardinalityType
<1>4. \A k \in Active(p) : Rank(p, k) = Cardinality(below(k))
  BY DEF Rank
<1>5. ASSUME NEW k \in Active(p)
      PROVE  IsFiniteSet(below(k)) /\ Rank(p, k) \in 1..c
  <2>1. below(k) \in SUBSET Active(p)
    OBVIOUS
  <2>2. IsFiniteSet(below(k)) /\ Cardinality(below(k)) =< c
    BY <1>3, <2>1, FS_Subset
  <2>3. Rank(p, k) \in 1..size
    BY RankIsInjective
  <2>4. QED
    BY <1>3, <1>4, <2>2, <2>3
<1>6. ASSUME NEW k \in Active(p), NEW m \in Active(p), k < m
      PROVE  Rank(p, k) < Rank(p, m)
  <2>1. below(k) \in SUBSET below(m)
    BY <1>1, <1>6
  <2>2. Cardinality(below(k)) =< Cardinality(below(m))
    BY <1>5, <2>1, FS_Subset
  <2>3. Rank(p, k) # Rank(p, m)
    BY <1>1, <1>6, RankIsInjective
  <2> HIDE DEF below, c
  <2>4. QED
    BY <1>4, <1>5, <2>2, <2>3
<1>7. ASSUME NEW r \in 1..c
      PROVE  \E k \in Active(p) : Rank(p, k) = r
  <2> DEFINE f == [k \in Active(p) |-> Rank(p, k)]
  <2>1. \A k, m \in Active(p) : Rank(p, k) = Rank(p, m) => k = m
    BY RankIsInjective
  <2> HIDE DEF below, c
  <2>2. f \in Injection(Active(p), 1..c)
    BY <1>5, <2>1 DEF Injection, IsInjective
  <2>3. IsFiniteSet(1..c) /\ Cardinality(1..c) = c
    BY <1>3, FS_Interval
  <2> HIDE DEF f
  <2>4. f \in Surjection(Active(p), 1..c)
    BY <2>2, <2>3, FS_Injection DEF c
  <2>5. QED
    BY <2>4 DEF Surjection, f
<1> HIDE DEF below
<1>8. QED
  BY <1>3, <1>5, <1>6, <1>7

\* An image holds as many ids as the array has links, without a gap.
LEMMA ImageIsPacked ==
  ASSUME NEW size \in Nat, NEW p \in Ports(size)
  PROVE  /\ DOMAIN Image(p) = 1..size
         /\ {j \in 1..size : Image(p)[j] # NoNode} = 1..Cardinality(Active(p))
         /\ \A k \in Active(p) : Image(p)[Rank(p, k)] = p[k].node
<1> DEFINE c == Cardinality(Active(p))
<1>1. DOMAIN p = 1..size /\ DOMAIN Image(p) = 1..size
  BY DEF Ports, Image
<1>2. /\ c \in 0..size
      /\ \A k \in Active(p) : Rank(p, k) \in 1..c
      /\ \A r \in 1..c : \E k \in Active(p) : Rank(p, k) = r
  BY RanksCount
<1> HIDE DEF c
<1>3. ASSUME NEW k \in Active(p)
      PROVE  Image(p)[Rank(p, k)] = p[k].node /\ p[k].node # NoNode
  <2>1. \A m \in Active(p) : Rank(p, m) = Rank(p, k) => m = k
    BY RankIsInjective
  <2>2. (CHOOSE m \in Active(p) : Rank(p, m) = Rank(p, k)) = k
    BY <2>1
  <2>3. Rank(p, k) \in 1..size
    BY <1>2
  <2>4. QED
    BY <1>1, <2>2, <2>3 DEF Image, Active
<1>4. ASSUME NEW r \in 1..size, Image(p)[r] # NoNode
      PROVE  r \in 1..c
  <2>1. \E k \in Active(p) : Rank(p, k) = r
    BY <1>1, <1>4 DEF Image
  <2>2. QED
    BY <1>2, <2>1
<1>5. ASSUME NEW r \in 1..c
      PROVE  r \in 1..size /\ Image(p)[r] # NoNode
  <2>1. PICK k \in Active(p) : Rank(p, k) = r
    BY <1>2
  <2>2. QED
    BY <1>2, <1>3, <2>1
<1>6. {j \in 1..size : Image(p)[j] # NoNode} = 1..c
  BY <1>4, <1>5
<1>7. QED
  BY <1>1, <1>3, <1>6 DEF c

\* The table of an array has one id for each link, in the order of the ports.
LEMMA RowOfPorts ==
  ASSUME NEW size \in Nat, NEW p \in Ports(size)
  PROVE  /\ DOMAIN Row(p) = 1..Cardinality(Active(p))
         /\ Len(Row(p)) = Cardinality(Active(p))
         /\ \A k \in Active(p) : Row(p)[Rank(p, k)] = p[k].node
<1> DEFINE c == Cardinality(Active(p))
<1>1. /\ DOMAIN Image(p) = 1..size
      /\ {j \in DOMAIN Image(p) : Image(p)[j] # NoNode} = 1..c
      /\ \A k \in Active(p) : Image(p)[Rank(p, k)] = p[k].node
  BY ImageIsPacked
<1>2. c \in Nat /\ \A k \in Active(p) : Rank(p, k) \in 1..c
  BY RanksCount
<1> HIDE DEF c
<1>3. Cardinality(1..c) = c
  BY <1>2, FS_Interval
<1>4. Row(p) = [k \in 1..c |-> Image(p)[k]]
  BY <1>1, <1>3 DEF Row, IdsIn
<1>5. QED
  BY <1>1, <1>2, <1>4 DEF c

\* Two arrays that number the same ids alike have the same table.
LEMMA SameRow ==
  ASSUME NEW size \in Nat, NEW p \in Ports(size), NEW q \in Ports(size),
         Active(q) = Active(p), \A k \in Active(p) : q[k].node = p[k].node
  PROVE  Row(q) = Row(p) /\ Image(q) = Image(p)
<1>1. \A k : Rank(q, k) = Rank(p, k)
  BY DEF Rank
<1>2. DOMAIN p = DOMAIN q
  BY DEF Ports
<1>3. ASSUME NEW r \in DOMAIN p
      PROVE  Image(q)[r] = Image(p)[r]
  <2>1. PICK k : k = CHOOSE m \in Active(p) : Rank(p, m) = r
    OBVIOUS
  <2>2. k = CHOOSE m \in Active(q) : Rank(q, m) = r
    BY <1>1, <2>1
  <2>3. (\E m \in Active(p) : Rank(p, m) = r) => q[k].node = p[k].node
    BY <2>1
  <2>4. Image(p)[r] = IF \E m \in Active(p) : Rank(p, m) = r THEN p[k].node ELSE NoNode
    BY <2>1 DEF Image
  <2>5. Image(q)[r] = IF \E m \in Active(q) : Rank(q, m) = r THEN q[k].node ELSE NoNode
    BY <1>2, <2>2 DEF Image
  <2>6. QED
    BY <1>1, <2>3, <2>4, <2>5
<1>4. Image(p) = [r \in DOMAIN p |-> Image(p)[r]] /\ Image(q) = [r \in DOMAIN p |-> Image(q)[r]]
  BY <1>2 DEF Image
<1>5. Image(q) = Image(p)
  BY <1>3, <1>4
<1>6. QED
  BY <1>5 DEF Row

\* The clock does not change the table.
LEMMA OlderRow ==
  ASSUME NEW size \in Nat, NEW p \in Ports(size)
  PROVE  Row(Older(p)) = Row(p)
<1>1. \A k \in DOMAIN p : Older(p)[k].node = p[k].node
  BY DEF Older, Ports, Port
<1>2. DOMAIN Older(p) = DOMAIN p
  BY DEF Older
<1>3. Active(Older(p)) = Active(p)
  BY <1>1, <1>2 DEF Active
<1>4. \A k \in Active(p) : Older(p)[k].node = p[k].node
  BY <1>1 DEF Active
<1>5. QED
  BY <1>3, <1>4, OlderType, SameRow

\* Idle ports have the empty table.
LEMMA AllIdleRow ==
  ASSUME NEW size \in Nat
  PROVE  Row(AllIdle(size)) = <<>>
<1>1. AllIdle(size) \in Ports(size) /\ Active(AllIdle(size)) = {}
  BY LinkTypes DEF Active, AllIdle, Idle
<1>2. DOMAIN Row(AllIdle(size)) = 1..0
  BY <1>1, RowOfPorts, FS_EmptySet
<1>3. Row(AllIdle(size)) = [k \in 1..0 |-> Row(AllIdle(size))[k]]
  BY <1>2 DEF Row, IdsIn
<1>4. QED
  BY <1>3

\* An image without a gap, as every image that is saved.
Packed(image) == \E c \in Nat : {j \in DOMAIN image : image[j] # NoNode} = 1..c

LEMMA ImagePacked ==
  ASSUME NEW size \in Nat, NEW p \in Ports(size)
  PROVE  Packed(Image(p))
BY ImageIsPacked, RanksCount DEF Packed

\* What is loaded from such an image has its table.
LEMMA LoadRow ==
  ASSUME NEW size \in Nat, NEW image \in Images(size), Packed(image)
  PROVE  Row(Load(image)) = IdsIn(image)
<1> DEFINE p == Load(image)
<1>1. PICK c \in Nat : {j \in DOMAIN image : image[j] # NoNode} = 1..c
  BY DEF Packed
<1>2. p \in Ports(size) /\ DOMAIN image = 1..size /\ DOMAIN p = 1..size
  BY LoadType DEF Images, Load
<1>3. \A k \in 1..size : p[k].node = image[k]
  BY <1>2 DEF Load, Idle, Fixed
<1> HIDE DEF p
<1>4. Active(p) = 1..c
  BY <1>1, <1>2, <1>3 DEF Active
<1>5. Cardinality(1..c) = c
  BY FS_Interval
<1>6. ASSUME NEW k \in 1..c
      PROVE  Rank(p, k) = k
  <2>1. {j \in Active(p) : j <= k} = 1..k
    BY <1>4
  <2>2. Cardinality(1..k) = k
    BY FS_Interval
  <2>3. QED
    BY <2>1, <2>2 DEF Rank
<1>7. DOMAIN Row(p) = 1..c /\ \A k \in 1..c : Row(p)[k] = p[k].node
  BY <1>2, <1>4, <1>5, <1>6, RowOfPorts
<1>8. \A k \in 1..c : p[k].node = image[k]
  BY <1>1, <1>2, <1>3
<1>9. IdsIn(image) = [k \in 1..c |-> image[k]]
  BY <1>1, <1>5 DEF IdsIn
<1>10. Row(p) = [k \in DOMAIN Row(p) |-> Row(p)[k]]
  BY DEF Row, IdsIn
<1>11. QED
  BY <1>7, <1>8, <1>9, <1>10 DEF p

\* Connecting a node plugs its id into the table, before the links behind it.
LEMMA ConnectRow ==
  ASSUME NEW size \in Nat, NEW p \in Ports(size), NEW a \in Nodes,
         NEW link \in Port, link.node = a, ~IsFull(p)
  PROVE  Table!Plugged(Row(p), Row(Connect(p, link)))
<1> DEFINE q == Connect(p, link)
           m == Min(DOMAIN p \ Active(p))
<1>1. DOMAIN p = 1..size
  BY DEF Ports
<1>2. m \in DOMAIN p \ Active(p)
  <2> DEFINE idle == DOMAIN p \ Active(p)
  <2>1. idle # {} /\ idle \subseteq Nat
    BY <1>1 DEF IsFull, Active
  <2> HIDE DEF idle
  <2>2. Min(idle) \in idle
    BY <2>1, MinOfNaturals
  <2>3. QED
    BY <2>2 DEF idle
<1>3. q = [p EXCEPT ![m] = link] /\ q \in Ports(size)
  BY ConnectType DEF Connect
<1> HIDE DEF m, q
<1>4. \A k \in 1..size : q[k] = IF k = m THEN link ELSE p[k]
  BY <1>1, <1>3 DEF Ports
<1>5. DOMAIN q = 1..size
  BY <1>3 DEF Ports
<1>6. Active(q) = Active(p) \cup {m} /\ m \in 1..size
  BY <1>1, <1>2, <1>4, <1>5, NoNodeAssumption DEF Active
<1>7. IsFiniteSet(Active(p)) /\ Cardinality(Active(p)) \in Nat /\ Active(p) \subseteq 1..size
  <2>1. IsFiniteSet(Active(p))
    BY RanksCount
  <2>2. QED
    BY <1>1, <2>1, FS_CardinalityType DEF Active
<1>8. Cardinality(Active(q)) = Cardinality(Active(p)) + 1
  BY <1>2, <1>6, <1>7, FS_AddElement
<1>9. ASSUME NEW k \in Active(p)
      PROVE  Rank(q, k) = IF k < m THEN Rank(p, k) ELSE Rank(p, k) + 1
  <2> DEFINE below == {j \in Active(p) : j <= k}
  <2>1. IsFiniteSet(below) /\ m \notin below
    BY <1>2, <1>7, FS_Subset
  <2>2. CASE k < m
    <3>1. {j \in Active(q) : j <= k} = below
      BY <1>6, <1>7, <2>2
    <3>2. QED
      BY <2>2, <3>1 DEF Rank
  <2>3. CASE ~(k < m)
    <3>1. {j \in Active(q) : j <= k} = below \cup {m}
      BY <1>6, <1>7, <2>3
    <3>2. Cardinality(below \cup {m}) = Cardinality(below) + 1
      BY <2>1, FS_AddElement
    <3>3. QED
      BY <2>3, <3>1, <3>2 DEF Rank
  <2>4. QED
    BY <2>2, <2>3
<1> DEFINE c   == Cardinality(Active(p))
           new == Row(q)
           old == Row(p)
           i   == Rank(q, m)
<1>10. /\ Len(new) = c + 1 /\ Len(old) = c /\ c \in Nat
       /\ \A k \in Active(q) : new[Rank(q, k)] = q[k].node
       /\ \A k \in Active(p) : old[Rank(p, k)] = p[k].node
  BY <1>3, <1>7, <1>8, RowOfPorts
<1>11. /\ \A k \in Active(q) : Rank(q, k) \in 1..(c + 1)
       /\ \A k, l \in Active(q) : k < l => Rank(q, k) < Rank(q, l)
       /\ \A r \in 1..c : \E k \in Active(p) : Rank(p, k) = r
  BY <1>3, <1>8, RanksCount
<1> HIDE DEF c, new, old
<1>12. i \in 1..(c + 1) /\ new[i] = a
  BY <1>4, <1>6, <1>10, <1>11
<1>13. ASSUME NEW r \in 1..c
       PROVE  old[r] = new[IF r < i THEN r ELSE r + 1]
  <2>1. PICK k \in Active(p) : Rank(p, k) = r
    BY <1>11
  <2>2. old[r] = p[k].node /\ new[Rank(q, k)] = p[k].node
    <3>1. k # m /\ k \in 1..size /\ k \in Active(q)
      BY <1>2, <1>6, <1>7, <2>1
    <3>2. q[k] = p[k]
      BY <1>4, <3>1
    <3>3. QED
      BY <1>10, <2>1, <3>1, <3>2
  <2>3. CASE k < m
    <3>1. Rank(q, k) = r /\ r < i
      BY <1>6, <1>9, <1>11, <2>1, <2>3
    <3>2. QED
      BY <2>2, <3>1
  <2>4. CASE ~(k < m)
    <3>1. m < k
      BY <1>2, <1>6, <1>7, <2>1, <2>4
    <3>2. Rank(q, k) = r + 1 /\ i < r + 1
      BY <1>6, <1>9, <1>11, <2>1, <2>4, <3>1
    <3>3. ~(r < i)
      BY <1>12, <3>2
    <3>4. QED
      BY <2>2, <3>2, <3>3
  <2>5. QED
    BY <2>3, <2>4
<1> HIDE DEF i
<1>14. Table!Plugged(old, new)
  BY <1>10, <1>12, <1>13 DEF Table!Plugged
<1>15. QED
  BY <1>14 DEF old, new, q

\* Disconnecting a node that has a link unplugs its id from the table.
LEMMA DisconnectRow ==
  ASSUME NEW size \in Nat, NEW p \in Ports(size), NEW a \in Nodes, HasLink(p, a)
  PROVE  Table!Unplugged(Row(p), Row(Disconnect(p, a)))
<1> DEFINE q == Disconnect(p, a)
<1>1. DOMAIN p = 1..size /\ DOMAIN q = 1..size /\ q \in Ports(size)
  BY DisconnectType DEF Ports, Disconnect
<1>2. Active(q) = {k \in Active(p) : p[k].node # a}
  BY <1>1, NoNodeAssumption DEF Active, Disconnect, Idle
<1>3. \A k \in Active(q) : q[k].node = p[k].node
  BY <1>1, <1>2 DEF Disconnect, Active
<1>4. Active(p) \subseteq Nat
  BY <1>1 DEF Active
<1> HIDE DEF q
<1> DEFINE c   == Cardinality(Active(p))
           d   == Cardinality(Active(q))
           old == Row(p)
           new == Row(q)
<1>5. /\ \A k \in Active(p) : Rank(p, k) \in 1..c
      /\ \A r \in 1..c : \E k \in Active(p) : Rank(p, k) = r
      /\ \A k, m \in Active(p) : k < m => Rank(p, k) < Rank(p, m)
      /\ DOMAIN old = 1..c
      /\ \A k \in Active(p) : old[Rank(p, k)] = p[k].node
  BY RanksCount, RowOfPorts
<1>6. /\ \A k \in Active(q) : Rank(q, k) \in 1..d
      /\ \A r \in 1..d : \E k \in Active(q) : Rank(q, k) = r
      /\ \A k, m \in Active(q) : k < m => Rank(q, k) < Rank(q, m)
      /\ DOMAIN new = 1..d
      /\ \A k \in Active(q) : new[Rank(q, k)] = q[k].node
  BY <1>1, RanksCount, RowOfPorts
<1> HIDE DEF c, d, old, new
<1> DEFINE left  == {r \in DOMAIN old : old[r] # a}
           K(i)  == CHOOSE k \in Active(q) : Rank(q, k) = i
           place == [i \in DOMAIN new |-> Rank(p, K(i))]
<1>7. ASSUME NEW i \in 1..d
      PROVE  K(i) \in Active(q) /\ Rank(q, K(i)) = i
  BY <1>6
<1>8. \A k, m \in Active(q) : Rank(q, k) = Rank(q, m) => k = m
  BY <1>1, RankIsInjective
<1>9. \A k \in Active(q) : K(Rank(q, k)) = k
  BY <1>6, <1>7, <1>8
<1> HIDE DEF K
<1>10. place \in [DOMAIN new -> left]
  BY <1>2, <1>5, <1>6, <1>7
<1>11. ASSUME NEW r \in left
       PROVE  \E i \in DOMAIN new : place[i] = r
  <2>1. PICK k \in Active(p) : Rank(p, k) = r
    BY <1>5
  <2>2. k \in Active(q)
    BY <1>2, <1>5, <2>1
  <2>3. QED
    BY <1>6, <1>9, <2>1, <2>2
<1>12. ASSUME NEW i \in DOMAIN new, NEW j \in DOMAIN new, i < j
       PROVE  place[i] < place[j]
  <2>1. /\ K(i) \in Active(q) /\ K(j) \in Active(q)
        /\ Rank(q, K(i)) = i /\ Rank(q, K(j)) = j
    BY <1>6, <1>7
  <2>2. K(i) \in Nat /\ K(j) \in Nat /\ K(i) # K(j) /\ ~(K(j) < K(i))
    <3>1. ~(j < i) /\ i # j
      BY <1>6, <1>12
    <3>2. QED
      BY <1>2, <1>4, <1>6, <2>1, <3>1
  <2>3. K(i) < K(j)
    BY <2>2
  <2>4. QED
    BY <1>2, <1>5, <2>1, <2>3
<1>13. \A i \in DOMAIN new : new[i] = old[place[i]]
  BY <1>2, <1>3, <1>5, <1>6, <1>7
<1>14. left # DOMAIN old
  <2>1. PICK k \in DOMAIN p : p[k].node = a
    BY DEF HasLink, PortsOf
  <2>2. k \in Active(p)
    BY <2>1, NoNodeAssumption DEF Active
  <2>3. QED
    BY <1>5, <2>1, <2>2
<1> HIDE DEF place
<1>15. Table!Unplugged(old, new)
  BY <1>10, <1>11, <1>12, <1>13, <1>14 DEF Table!Unplugged
<1>16. QED
  BY <1>15 DEF old, new, q
=============================================================================
