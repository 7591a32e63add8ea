---------------------------- MODULE InletArray ----------------------------
(***************************************************************************)
(* The inlets of one gluon (Inlet.cpp) and what a request for a connection *)
(* does to them.  The inlets are a function from 1..NumInlets to arrays of *)
(* FanIn ports.                                                            *)
(***************************************************************************)
EXTENDS Ports

CONSTANTS
  NumInlets,   \* inlets of a gluon, at most MAX_NUM_INLETS
  FanIn        \* ports of an inlet, MAX_FAN_IN

ASSUME NumInletsAssumption == NumInlets \in Nat \ {0}
ASSUME FanInAssumption == FanIn \in Nat \ {0}

Inlets     == 1..NumInlets
InletState == [Inlets -> Ports(FanIn)]
BareInlets == [i \in Inlets |-> AllIdle(FanIn)]

\* The inlets with a link from node a; the ones with room for one.
InletsOf(ins, a) == {i \in Inlets : HasLink(ins[i], a)}
WithSpace(ins)   == {i \in Inlets : ~IsFull(ins[i])}

\* The port the code looks at when it decides what to do with the links of
\* node a: the first one, in the first inlet that has one.
LinkOf(ins, a) ==
  LET i == Min(InletsOf(ins, a)) IN ins[i][Min(PortsOf(ins[i], a))]

\* The k-th inlet after i, cyclically.
After(i, k) == ((i - 1 + k) % NumInlets) + 1

Result(action, ins) == [action |-> action, inlets |-> ins]

-----------------------------------------------------------------------------
(* A mutation: the move connects the link to the next inlet and forgets to *)
(* disconnect it from the inlet it was on.                                 *)

MoveCopies(ins, a, i, j) == [ins EXCEPT ![j] = Connect(@, Fresh(a))]

-----------------------------------------------------------------------------

MoveLink(ins, a, i, j) ==
  [ins EXCEPT ![i] = Disconnect(@, a), ![j] = Connect(@, Fresh(a))]

DeleteLink(ins, a, i) == [ins EXCEPT ![i] = Disconnect(@, a)]

\* The new link goes to the first inlet with space, if there is one.
AddLink(ins, a) ==
  IF WithSpace(ins) = {}
    THEN Result("none", ins)
    ELSE LET i == Min(WithSpace(ins))
         IN  Result("added", [ins EXCEPT ![i] = Connect(@, Fresh(a))])

\* A node that has no link is added; a FIXED link is deleted; a LOOSE one is
\* moved to the next inlet with space.  A LOOSE link that finds no space in any
\* other inlet is NO_ACTION for requestMoveDeleteInlet, and so the node is
\* added once more, to its own inlet, if that one has space.
RequestForConnexion(ins, a) ==
  IF InletsOf(ins, a) = {}
    THEN AddLink(ins, a)
    ELSE LET i     == Min(InletsOf(ins, a))
             steps == {k \in 1..(NumInlets - 1) : After(i, k) \in WithSpace(ins)}
         IN  IF ~IsLoose(LinkOf(ins, a))
               THEN Result("deleted", DeleteLink(ins, a, i))
               ELSE IF steps # {}
                      THEN Result("moved", MoveLink(ins, a, i, After(i, Min(steps))))
                      ELSE AddLink(ins, a)

-----------------------------------------------------------------------------

OlderInlets(ins) == [i \in Inlets |-> Older(ins[i])]

\* What saveInletArray writes and loadInletArray reads back.
InletImages       == [Inlets -> Images(FanIn)]
SaveInlets(ins)   == [i \in Inlets |-> Image(ins[i])]
LoadInlets(image) == [i \in Inlets |-> Load(image[i])]
=============================================================================
