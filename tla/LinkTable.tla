----------------------------- MODULE LinkTable -----------------------------
(***************************************************************************)
(* How the table of the links of one inlet, or of the outlet, changes from *)
(* one save to the next (utils.h: ArrayPort).  A table is the sequence of  *)
(* the ids at its active ports, as it is in EEPROM behind their number.    *)
(*                                                                         *)
(* LinkStore takes these changes as what is saved, and GluonLinks shows    *)
(* that its saves are made of them.                                        *)
(***************************************************************************)
EXTENDS Naturals, Sequences

CONSTANT Ids   \* the ids of other gluons

\* connect() takes the first idle port, which may lie between two active ones.
Plugged(old, new) ==
  /\ Len(new) = Len(old) + 1
  /\ \E i \in 1..Len(new) :
       /\ new[i] \in Ids
       /\ \A k \in 1..Len(old) : old[k] = new[IF k < i THEN k ELSE k + 1]

\* disconnect() takes away the ports of one id; the others keep their order.
Unplugged(old, new) ==
  \E a \in Ids :
    LET left == {k \in DOMAIN old : old[k] # a}
    IN  /\ left # DOMAIN old
        /\ \E place \in [DOMAIN new -> left] :
             /\ \A k \in left : \E i \in DOMAIN new : place[i] = k
             /\ \A i, k \in DOMAIN new : i < k => place[i] < place[k]
             /\ \A i \in DOMAIN new : new[i] = old[place[i]]
=============================================================================
