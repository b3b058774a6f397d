------------------------------ MODULE MCVault ------------------------------
(* Model-checking instance of Vault and of its refinement: overlapping     *)
(* calls of two users on one item, the users and the calls                 *)
(* interchangeable.                                                        *)
EXTENDS VaultRefinement, TLC

Symmetry == Permutations(Users) \cup Permutations(Items)
            \cup Permutations(Requests)

=============================================================================
