------------------------------- MODULE Ports -------------------------------
(***************************************************************************)
(* The fixed array of ports that an inlet and an outlet of a gluon keep    *)
(* (utils.h: Link, Port, ArrayPort), and its image in EEPROM               *)
(* (nonVolatileData.cpp: saveInlet, getInlet and the outlet versions).     *)
(*                                                                         *)
(* A port that is idle holds NoNode.  millis() - timeCreation is kept as   *)
(* the age of the link, counted in ticks and saturating at LoosePeriod: a  *)
(* link is LOOSE below that age and FIXED from it on.                      *)
(***************************************************************************)
EXTENDS Integers, FiniteSetsExt

CONSTANTS
  Nodes,        \* the ids of the gluons
  NoNode,       \* the content of an idle port
  LoosePeriod   \* the age at which a link becomes FIXED

ASSUME NoNodeAssumption == NoNode \notin Nodes
ASSUME LoosePeriodAssumption == LoosePeriod \in Nat \ {0}

Id   == Nodes \cup {NoNode}
Port == [node : Id, age : 0..LoosePeriod]

Ports(size)  == [1..size -> Port]
Images(size) == [1..size -> Id]

Idle     == [node |-> NoNode, age |-> 0]
Fresh(a) == [node |-> a, age |-> 0]
Fixed(a) == [node |-> a, age |-> LoosePeriod]

IsLoose(port) == port.age < LoosePeriod

\* A loop of the code that scans an array from index 0 and stops at the first
\* element it looks for stops at the Min of the indices that have one.
Active(p) == {k \in DOMAIN p : p[k].node # NoNode}
IsFull(p) == Active(p) = DOMAIN p

\* The ports that hold a link with node a, and whether there is one.
PortsOf(p, a) == {k \in DOMAIN p : p[k].node = a}
HasLink(p, a) == PortsOf(p, a) # {}

AllIdle(size) == [k \in 1..size |-> Idle]

-----------------------------------------------------------------------------
(* A mutation, a bug the properties must notice: connect() without its     *)
(* test for a free port, which writes behind the last link.                *)

ConnectPastEnd(p, link) ==
  LET next == Cardinality(Active(p)) + 1
  IN  [k \in DOMAIN p \cup {next} |-> IF k = next THEN link ELSE p[k]]

-----------------------------------------------------------------------------

\* The new link goes to the first idle port; no port is free: no effect.
\* Whether the array already holds a link with that node is not looked at.
Connect(p, link) ==
  IF IsFull(p) THEN p ELSE [p EXCEPT ![Min(DOMAIN p \ Active(p))] = link]

\* Every active port with that node becomes idle.
Disconnect(p, a) == [k \in DOMAIN p |-> IF p[k].node = a THEN Idle ELSE p[k]]

\* One tick of millis().
Older(p) ==
  [k \in DOMAIN p |->
     IF p[k].node # NoNode /\ IsLoose(p[k]) THEN [p[k] EXCEPT !.age = @ + 1] ELSE p[k]]

-----------------------------------------------------------------------------
(* EEPROM keeps the number of active links and then their ids, in the      *)
(* order of the ports.  The image has one byte per port; the bytes behind  *)
(* the count, which nothing reads, are shown as NoNode.                    *)

Rank(p, k) == Cardinality({j \in Active(p) : j <= k})

\* A mutation: the ids are written at the places of their ports.
ImageWithGaps(p) == [r \in DOMAIN p |-> p[r].node]

Image(p) ==
  [r \in DOMAIN p |->
     IF \E k \in Active(p) : Rank(p, k) = r
       THEN p[CHOOSE k \in Active(p) : Rank(p, k) = r].node
       ELSE NoNode]

\* The array is rebuilt from its image by connecting the ids in their order,
\* with creation time 0: the links are FIXED, as init() takes 2.1 s, longer than
\* LOOSE_PERIOD.  (millis() wraps after 49.7 days; the 2 s after that, in which
\* they are LOOSE, are left out.)
Load(image) ==
  [k \in DOMAIN image |-> IF image[k] = NoNode THEN Idle ELSE Fixed(image[k])]

\* What is read from an image: as many ids as there are links, a table whose
\* changes LinkTable knows.
IdsIn(image) ==
  [k \in 1..Cardinality({j \in DOMAIN image : image[j] # NoNode}) |-> image[k]]

Table == INSTANCE LinkTable WITH Ids <- Nodes

\* Whether an image names node a.
Names(image, a) == \E k \in DOMAIN image : image[k] = a
=============================================================================
