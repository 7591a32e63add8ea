--------------------------- MODULE MCInfraredLink ---------------------------
(* Small instances of InfraredLink for TLC.                                *)
EXTENDS InfraredLink

\* Codes of three bits; the first bits of one are another, as with the ids of
\* gluons in their beacons.
ThreeBitCodes ==
  {<<"one", "zero", "zero">>, <<"one", "zero", "one">>, <<"zero", "one", "one">>}
=============================================================================
