----------------------------- MODULE VaultStore -----------------------------
(***************************************************************************)
(* What the vault promises its callers: each request takes effect, and is  *)
(* judged, in one atomic step between its arrival and its answer.  There   *)
(* is no read before the write, no statement, no clock: a change is a      *)
(* compare-and-set of the item's version by its owner, and every refusal   *)
(* is justified by the state of the item at the moment it is decided.      *)
(*                                                                         *)
(* Vault implements this (VaultRefinement).                                *)
(***************************************************************************)
EXTENDS Naturals

CONSTANTS Users, Items, Requests, None

VARIABLES items, status, input, outcome, applied

vars == <<items, status, input, outcome, applied>>

Input == [kind: {"create", "update", "delete", "get"}, user: Users,
          item: Items, expected: Nat]

Init ==
  /\ items = [i \in Items |-> None]
  /\ status = [r \in Requests |-> "idle"]
  /\ input = [r \in Requests |-> None]
  /\ outcome = [r \in Requests |-> "none"]
  /\ applied = [r \in Requests |-> FALSE]

Arrive(r) ==
  /\ status[r] = "idle"
  /\ status' = [status EXCEPT ![r] = "pending"]
  /\ input'[r] \in Input
  /\ input' = [input EXCEPT ![r] = input'[r]]
  /\ UNCHANGED <<items, outcome, applied>>

(* An ill-formed request is refused on arrival.                            *)
Refuse(r) ==
  /\ status[r] = "idle"
  /\ status' = [status EXCEPT ![r] = "done"]
  /\ outcome' = [outcome EXCEPT ![r] = "invalid"]
  /\ UNCHANGED <<items, input, applied>>

(* The request may change its item: it creates one that does not exist, or *)
(* its user owns the live item at exactly the expected version.            *)
MayChange(in) ==
  LET row == items[in.item] IN
  IF in.kind = "create" THEN row = None
  ELSE /\ in.kind \in {"update", "delete"}
       /\ row # None
       /\ row.owner = in.user
       /\ row.version = in.expected
       /\ ~ row.deleted

Changed(r, in) ==
  LET row == items[in.item] IN
  IF in.kind = "create"
  THEN [owner |-> in.user, version |-> 1, content |-> r, deleted |-> FALSE]
  ELSE IF in.kind = "update"
  THEN [row EXCEPT !.version = @ + 1, !.content = r]
  ELSE [row EXCEPT !.version = @ + 1, !.deleted = TRUE]

(* The only step that changes an item.  Its caller is told ok, or gets an  *)
(* internal error when the answer could not be obtained.                   *)
Change(r) ==
  /\ status[r] = "pending"
  /\ MayChange(input[r])
  /\ items' = [items EXCEPT ![input[r].item] = Changed(r, input[r])]
  /\ applied' = [applied EXCEPT ![r] = TRUE]
  /\ status' = [status EXCEPT ![r] = "done"]
  /\ \E out \in {"ok", "internal"} : outcome' = [outcome EXCEPT ![r] = out]
  /\ UNCHANGED input

(* What may be answered without changing anything, and when.               *)
Justified(out, in) ==
  LET row == items[in.item] IN
  \/ out = "internal"
  \/ out = "ok" /\ in.kind = "get" /\ row # None /\ row.owner = in.user
  \/ out = "notfound" /\ row = None
  \/ out = "notfound" /\ row # None /\ row.deleted /\ row.owner = in.user
       /\ in.kind # "get"
  \/ out = "denied" /\ row # None /\ row.owner # in.user
  \/ out = "conflict" /\ row # None /\ row.owner = in.user
       /\ row.version # in.expected

Decline(r) ==
  /\ status[r] = "pending"
  /\ \E out \in {"ok", "notfound", "denied", "conflict", "internal"} :
       /\ Justified(out, input[r])
       /\ outcome' = [outcome EXCEPT ![r] = out]
  /\ status' = [status EXCEPT ![r] = "done"]
  /\ UNCHANGED <<items, input, applied>>

Next ==
  \E r \in Requests :
    Arrive(r) \/ Refuse(r) \/ Change(r) \/ Decline(r)

Spec == Init /\ [][Next]_vars

=============================================================================
