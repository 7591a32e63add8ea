---------------------------- MODULE MCGluonLinks ----------------------------
(* Small instances of GluonLinks for TLC.                                  *)
EXTENDS GluonLinks, TLC

CONSTANTS n1, n2, n3

\* n2 stands between n1 and n3.
Row == {<<n1, n2>>, <<n2, n1>>, <<n2, n3>>, <<n3, n2>>}

\* n1 hears the others, of which n2 hears n1.
Corner == {<<n1, n2>>, <<n1, n3>>, <<n2, n1>>}

\* n1 hears the others, and nobody hears n1.
OneListener == {n1} \X (Nodes \ {n1})

SwapEnds  == Permutations({n1, n3})
AnyTalker == Permutations(Nodes \ {n1})
=============================================================================
