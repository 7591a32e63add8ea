---------------------------- MODULE RecordStore ----------------------------
(***************************************************************************)
(* What the memory of a gluon promises to the parts that keep something in *)
(* it: a set of records, of which a save rewrites some, one at a time.  A  *)
(* record in the middle of being rewritten may hold anything of its kind;  *)
(* the others hold what they held or what they are to hold.  When the      *)
(* power fails, what is there counts.                                      *)
(***************************************************************************)

CONSTANTS
  Records,
  Kind       \* Kind[r]: the values that record r may hold

VARIABLES
  stored,   \* stored[r]: what record r holds
  before,   \* what it held when the last save began
  wanted    \* what it is to hold

contents == <<stored, before, wanted>>

Init ==
  /\ \A r \in Records : stored[r] \in Kind[r]
  /\ before = stored
  /\ wanted = stored

\* Neither the old value nor the new one.
Torn(r) == stored[r] \notin {before[r], wanted[r]}

\* A save begins when the one before it has ended.
Save ==
  /\ \A r \in Records : stored[r] = wanted[r]
  /\ before' = stored
  /\ wanted' = [r \in Records |-> wanted'[r]]
  /\ \A r \in Records : wanted'[r] \in Kind[r]
  /\ UNCHANGED stored

\* Some part of a record that is not finished, while no other one is torn.
Rewrite(r) ==
  /\ stored[r] # wanted[r]
  /\ \A q \in Records \ {r} : ~Torn(q)
  /\ \E value \in Kind[r] : stored' = [stored EXCEPT ![r] = value]
  /\ UNCHANGED <<before, wanted>>

PowerLoss ==
  /\ wanted' = stored
  /\ before' = stored
  /\ UNCHANGED stored

Next ==
  \/ Save
  \/ \E r \in Records : Rewrite(r)
  \/ PowerLoss

Spec == Init /\ [][Next]_contents
=============================================================================
