----------------------------- MODULE PatchTable -----------------------------
(***************************************************************************)
(* What linking promises to a gluon that receives data: for each of its    *)
(* inlets, a set of gluons that feed it, such that none feeds two inlets.  *)
(* A patch cord is plugged, unplugged or moved to another inlet, one at a  *)
(* time, or all the cords are dropped.                                     *)
(***************************************************************************)
EXTENDS Naturals

CONSTANTS Nodes, NumInlets

VARIABLE table   \* table[i]: the nodes that feed inlet i

Inlets == 1..NumInlets

Bare == [i \in Inlets |-> {}]

Init == table = Bare

\* The inlets that node a feeds.
FedBy(a) == {i \in Inlets : a \in table[i]}

Plug(i, a) ==
  /\ FedBy(a) \subseteq {i}
  /\ table' = [table EXCEPT ![i] = @ \cup {a}]

Unplug(i, a) ==
  /\ FedBy(a) = {i}
  /\ table' = [table EXCEPT ![i] = @ \ {a}]

Move(i, j, a) ==
  /\ FedBy(a) = {i}
  /\ table' = [table EXCEPT ![i] = @ \ {a}, ![j] = @ \cup {a}]

Drop == table' = Bare

\* All the cords were dropped, and one was plugged before the table was
\* written again.
Replug(i, a) == table' = [Bare EXCEPT ![i] = {a}]

Next ==
  \/ Drop
  \/ \E i \in Inlets, a \in Nodes :
       \/ Plug(i, a)
       \/ Unplug(i, a)
       \/ Replug(i, a)
       \/ \E j \in Inlets \ {i} : Move(i, j, a)

Spec == Init /\ [][Next]_table
=============================================================================
