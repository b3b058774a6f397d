------------------------------- MODULE MCTui -------------------------------
(* Model-checking instance of Tui.  The safety run has three settings:     *)
(* users who take turns and have one item of few versions; one user and    *)
(* one item of more versions, the last of them written from this terminal; *)
(* one user and two items that are created and deleted but not updated.    *)
(* In the last two every secret is a binary that can be decoded.           *)
EXTENDS Tui, TLC

Symmetry == Permutations(Users) \cup Permutations(Ids)

Existing == {i \in Ids : rows[i] # None}

UsersSeen ==
  ({session} \cup {c.user : c \in inflight}
     \cup {rows[i].owner : i \in Existing}) \ {None}

OneUser == Cardinality(UsersSeen) <= 1

Plain(x) == x # None => x.type = "binary" /\ x.readable

AllPlain ==
  /\ ticks = 0 /\ form.kind # "otp"
  /\ Plain(current) /\ Plain(shown)
  /\ \A i \in Ids : Plain(rows[i])
  /\ \A k \in DOMAIN secrets : Plain(secrets[k])

OneItem ==
  /\ Cardinality(Existing) <= 1
  /\ \A i \in Existing : rows[i].version < MaxVersion

LongHistory ==
  /\ Cardinality(Existing) <= 1
  /\ OneUser /\ AllPlain

TwoItems ==
  /\ \A i \in Existing : rows[i].version = 1 \/ rows[i].deleted
  /\ OneUser /\ AllPlain

Setting == OneItem \/ LongHistory \/ TwoItems

\* Restricts what there is on the server, and nothing that is done with it.
NextSettings ==
  \/ Keys \/ Tick
  \/ \E c \in inflight : Handle(c) \/ (Serve(c) /\ Setting')
  \/ OtherDevice /\ (OneItem \/ TwoItems)'

SpecSettings == Init /\ [][NextSettings]_vars

(* The liveness run: other devices write one-time passwords only.          *)
OthersWriteOtp == OtherDevice => \A i \in Ids : rows'[i].type = "otp"

SpecLive == Init /\ [][Next /\ OthersWriteOtp]_vars /\ Fairness

=============================================================================
