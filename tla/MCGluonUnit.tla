---------------------------- MODULE MCGluonUnit ----------------------------
(* Small instances of GluonUnit for TLC.                                   *)
EXTENDS GluonUnit

\* The counter, which starts with ANY_INLET, has its modes changed and is banged; the
\* others learn.
UnitKeys ==
  [u \in Units |-> CASE u = "COUNT" -> {"first", "periodic", "standby", "bang"}
                     [] u = "METRO" -> {"learn"}
                     [] u = "RANGE" -> {"learn"}]

\* The range finder takes any packet for a bang.
UnitFed == [u \in Units |-> IF u = "RANGE" THEN {1} ELSE {1, 2, 3}]

\* -1 stands for what is far out of every bound.
UnitNumbers == {-1, 1}
=============================================================================
