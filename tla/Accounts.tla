------------------------------ MODULE Accounts ------------------------------
(***************************************************************************)
(* What registration and login promise: a login name is taken once, by an  *)
(* account that is whole from its first moment and never changes, and a    *)
(* session holds the vault key of the account it is a session of.          *)
(***************************************************************************)
CONSTANTS
  Logins,    \* names accounts are found by
  Attempts,  \* attempts to register or log in
  Words,     \* passwords
  None       \* no account, no session

VARIABLES
  account,  \* the account of each login, None while it is free
  session   \* what each attempt that succeeded was given

vars == <<account, session>>

Account == [user: Attempts, password: Words, key: Attempts, master: Words]

Init ==
  /\ account = [l \in Logins |-> None]
  /\ session = [a \in Attempts |-> None]

Create(l) ==
  /\ account[l] = None
  /\ \E acc \in Account : account' = [account EXCEPT ![l] = acc]
  /\ UNCHANGED session

Enter(a, l) ==
  /\ account[l] # None
  /\ session[a] = None
  /\ session' = [session EXCEPT ![a] =
       [user |-> account[l].user, key |-> account[l].key]]
  /\ UNCHANGED account

Next ==
  \/ \E l \in Logins : Create(l)
  \/ \E a \in Attempts, l \in Logins : Enter(a, l)

Spec == Init /\ [][Next]_vars

=============================================================================
