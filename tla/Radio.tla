------------------------------- MODULE Radio -------------------------------
(***************************************************************************)
(* The RFM69 radios of the gluons (moduleRF.cpp, lib/RFM69) and the calls  *)
(* that block a gluon until another one acknowledges its packet.           *)
(*                                                                         *)
(* A radio holds one packet, which a newer packet replaces and any packet  *)
(* for another node erases; to transmit, a node first drops what its radio *)
(* holds, and while it waits for an acknowledgement it throws away every   *)
(* other packet.                                                           *)
(***************************************************************************)
EXTENDS Ports

CONSTANTS
  Retries,   \* NUM_RETRIES
  Events     \* what the environment may do, of which the radio knows:

\* "lost":   a radio packet is not received
\* "noack":  the acknowledgement of a packet is not received
\* "late":   a node does not look at its radio while a caller waits for it
RadioEvents == {"lost", "noack", "late"}

ASSUME RetriesAssumption == Retries \in Nat

VARIABLES
  mail,   \* mail[n]: the packet in its radio that node n has not read yet
  call    \* call[n]: the call to another node that n is blocked in

NoMail == [type |-> "none", from |-> NoNode]
NoCall == [type |-> "none", to |-> NoNode, left |-> 0, acked |-> FALSE]

Free(n) == call[n] = NoCall

\* The call with which a node starts to send a packet of that type.
CallTo(to, type) == [type |-> type, to |-> to, left |-> Retries, acked |-> FALSE]

\* The packet goes out.  Only a node that is not in a call itself keeps it.
Transmit(from, to, packet) ==
  LET emptied == [mail EXCEPT ![from] = NoMail]
  IN  \/ /\ Free(to)
         /\ mail' = [emptied EXCEPT ![to] = packet]
      \/ /\ "lost" \in Events \/ ~Free(to)
         /\ mail' = emptied

\* Node n reads a packet of that type.
Read(n, type) ==
  /\ Free(n)
  /\ mail[n].type = type
  /\ mail' = [mail EXCEPT ![n] = NoMail]

\* The node that reads a packet acknowledges it.  A caller that waits for an
\* answer of that node takes any acknowledgement of it for the answer; the
\* acknowledgement finds nobody waiting when the caller gave up before.
Acknowledge(n, from) ==
  LET waiting == from \in Nodes /\ call[from].to = n
  IN  \/ /\ waiting
         /\ call' = [call EXCEPT ![from].acked = TRUE]
      \/ /\ "noack" \in Events \/ ~waiting
         /\ UNCHANGED call

\* The wait for the acknowledgement is over.  A called node that is not late
\* has read or lost the packet by then.
TimedOut(r) ==
  /\ ~Free(r)
  /\ ~call[r].acked
  /\ "late" \in Events \/ mail[call[r].to].from # r
=============================================================================
