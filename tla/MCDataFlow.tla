----------------------------- MODULE MCDataFlow -----------------------------
(* Small instances of DataFlow for TLC.                                    *)
EXTENDS DataFlow, TLC

CONSTANTS n1, n2, n3

\* The dial n1 feeds n2 and n3, and n2 feeds n3.
TriangleOutlet == (n1 :> <<n2, n3>>) @@ (n2 :> <<NoNode, n3>>) @@ (n3 :> <<NoNode, NoNode>>)

TriangleSenders ==
  (n1 :> <<{}, {}>>) @@ (n2 :> <<{n1}, {}>>) @@ (n3 :> <<{n1}, {n2}>>)

\* The dial n1 feeds n2 only.
PairOutlet  == (n1 :> <<n2>>) @@ (n2 :> <<NoNode>>)
PairSenders == (n1 :> <<{}>>) @@ (n2 :> <<{n1}>>)

\* The modes that init() gives a dial and a relay.
FactoryModes == [n \in Nodes |-> IF n \in Dials THEN {"sensor", "any"} ELSE {"any"}]
=============================================================================
