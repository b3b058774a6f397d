---------------------------- MODULE MCVaultSync ----------------------------
(* Model-checking instance of VaultSync: every device belongs to user u1;  *)
(* a second user only writes.  Calls and items are interchangeable, so     *)
(* that they are used in order: r1 before r2, i1 before i2.                *)
EXTENDS VaultSync

CONSTANTS u1, i1, i2, r1, r2, r3

MCUserOf == [c \in Consumers |-> u1]

Sent(r) == input[r] # None

(* Clients write; the second user writes one item.  Restricts what clients *)
(* send, and no step after that.                                           *)
Writing ==
  /\ Sent(r3) => Sent(r2)
  /\ Sent(r2) => Sent(r1)
  /\ (\E r \in Requests : Sent(r) /\ input[r].item = i2) =>
       \E r \in Requests : Sent(r) /\ input[r].item = i1
  /\ \A r \in Requests :
       /\ outcome[r] # "invalid"
       /\ Sent(r) => input[r].kind # "get"
       /\ Sent(r) /\ input[r].user # u1 =>
            \A q \in Requests : Sent(q) => input[q].item = i1

SpecWriting == InitSync /\ [][NextSync /\ Writing']_allVars /\ FairSync

=============================================================================
