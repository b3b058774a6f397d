-------------------------- MODULE VaultRefinement --------------------------
(***************************************************************************)
(* Vault implements VaultStore.  The steps of a handler between receiving  *)
(* a request and answering it are invisible to the caller: the request is  *)
(* pending.  A change takes effect when its statement commits; a refusal   *)
(* is decided at the read that led to it.                                  *)
(***************************************************************************)
EXTENDS Vault

Status ==
  [r \in Requests |-> IF phase[r] \in {"idle", "done"} THEN phase[r]
                      ELSE "pending"]

Store == INSTANCE VaultStore WITH status <- Status

(* Every behaviour of the handlers, with all the interleavings of their    *)
(* reads and statements, is one in which each request was judged and       *)
(* applied atomically (service.go UpdateItem, DeleteItem and               *)
(* postgres_repository.go UpdateItem, DeleteItem).                         *)
ImplementsStore == Store!Spec

=============================================================================
