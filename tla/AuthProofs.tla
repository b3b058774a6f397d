----------------------------- MODULE AuthProofs -----------------------------
(***************************************************************************)
(* Proofs about module Auth, for any number of attempts, login names and   *)
(* passwords: accounts are whole and unique, sessions hold stored keys, a  *)
(* refusal is right, and registration and login implement Accounts.        *)
(***************************************************************************)
EXTENDS Auth, TLAPS

(***************************************************************************)
(* The inductive invariant says, of each attempt, what its phase stands    *)
(* for, and of the transactions that are open, that they hold their login. *)
(***************************************************************************)

(* Nothing has come of an attempt before it ends, and one that was not     *)
(* begun has no input.                                                     *)
Ending(a) ==
  /\ phase[a] # "done" => outcome[a] = "none" /\ session[a] = None
  /\ phase[a] \notin {"idle", "done"} => input[a] # None

(* An attempt that has a user is a registration that committed both rows.  *)
Registering(a) ==
  /\ phase[a] \in {"insert", "vault", "commit"} =>
       input[a].op = "register" /\ key[a] = a
  /\ phase[a] \in {"idle", "insert", "vault", "commit", "find", "verify"} =>
       users[a] = None
  /\ users[a] = None => vaults[a] = None
  /\ users[a] # None =>
       /\ input[a] # None
       /\ users[a] = NewUser(a)
       /\ vaults[a] = [key |-> a, master |-> input[a].master]

(* The user a login found, or a registration made, is there.               *)
Finding(a) ==
  /\ phase[a] \in {"verify", "issue"} =>
       found[a] \in Attempts /\ users[found[a]] # None
  /\ phase[a] = "verify" => users[found[a]].login = input[a].login
  /\ phase[a] \in {"find", "verify"} => input[a].op = "login"
  /\ phase[a] = "issue" /\ input[a].op = "register" =>
       found[a] = a /\ key[a] = a

(* The answer names that user and its stored vault key.                    *)
Answering(a) ==
  /\ phase[a] \in {"answered", "save"} =>
       /\ reply[a] # None
       /\ users[reply[a].user] # None
       /\ reply[a].vault = vaults[reply[a].user]
  /\ phase[a] = "answered" /\ input[a].op = "register" =>
       reply[a].user = a /\ key[a] = a
  /\ phase[a] = "save" =>
       reply[a].vault = [key |-> key[a], master |-> input[a].master]

LoserOf(a) ==
  outcome[a] = "exists" =>
    /\ users[a] = None
    /\ \E u \in Attempts \ {a} :
         users[u] # None /\ users[u].login = input[a].login

SessionOf(a) ==
  session[a] # None =>
    /\ users[session[a].user] # None
    /\ vaults[session[a].user] = [key |-> session[a].key,
                                  master |-> input[a].master]

AttemptInv(a) ==
  /\ Ending(a)
  /\ Registering(a)
  /\ Finding(a)
  /\ Answering(a)
  /\ LoserOf(a)
  /\ SessionOf(a)

(* An open transaction is the only one on its login, which is free.        *)
LoginsHeld ==
  \A a, b \in Attempts :
    /\ InTransaction(a) /\ InTransaction(b) /\ input[a].login = input[b].login
         => a = b
    /\ InTransaction(a) => ~ (users[b] # None
                              /\ users[b].login = input[a].login)

LoginsTaken ==
  \A u, v \in Attempts :
    users[u] # None /\ users[v] # None /\ users[u].login = users[v].login
      => u = v

IInv ==
  /\ TypeOK
  /\ \A a \in Attempts : AttemptInv(a)
  /\ LoginsHeld
  /\ LoginsTaken
  /\ TokenFileHasSession

----------------------------------------------------------------------------
(* What a step leaves alone                                                *)

(* The rows there are stay as they are.                                    *)
RowsKept ==
  \A u \in Attempts :
    users[u] # None => users'[u] = users[u] /\ vaults'[u] = vaults[u]

AttemptKept(b) ==
  /\ phase'[b] = phase[b]
  /\ input'[b] = input[b]
  /\ found'[b] = found[b]
  /\ reply'[b] = reply[b]
  /\ key'[b] = key[b]
  /\ session'[b] = session[b]
  /\ outcome'[b] = outcome[b]
  /\ users'[b] = users[b]
  /\ vaults'[b] = vaults[b]

LEMMA KeptInv ==
  ASSUME IInv, NEW b \in Attempts, AttemptKept(b), RowsKept
  PROVE  AttemptInv(b)'
<1>1. AttemptInv(b)
  BY DEF IInv
<1>2. Ending(b)'
  BY <1>1 DEF AttemptInv, Ending, AttemptKept
<1>3. Registering(b)'
  BY <1>1 DEF AttemptInv, Registering, NewUser, AttemptKept
<1>4. Finding(b)'
  BY <1>1 DEF AttemptInv, Finding, AttemptKept, RowsKept
<1>5. Answering(b)'
  <2>1. reply[b] # None => reply[b].user \in Attempts
    BY DEF IInv, TypeOK, Reply
  <2> QED
    BY <1>1, <2>1 DEF AttemptInv, Answering, AttemptKept, RowsKept
<1>6. LoserOf(b)'
  BY <1>1 DEF AttemptInv, LoserOf, AttemptKept, RowsKept
<1>7. SessionOf(b)'
  <2>1. session[b] # None => session[b].user \in Attempts
    BY DEF IInv, TypeOK, Session
  <2> QED
    BY <1>1, <2>1 DEF AttemptInv, SessionOf, AttemptKept, RowsKept
<1> QED
  BY <1>2, <1>3, <1>4, <1>5, <1>6, <1>7 DEF AttemptInv

(* The rows and the sessions are kept, and no attempt but a moves.         *)
Alone(a) ==
  /\ UNCHANGED <<tables, session, tokenFile>>
  /\ \A b \in Attempts \ {a} : AttemptKept(b)

(* Such a step preserves the invariant if it does so for a, and enters no  *)
(* transaction on a login that is held or taken.                           *)
LEMMA AloneInv ==
  ASSUME IInv, NEW a \in Attempts, Alone(a), TypeOK', AttemptInv(a)',
         InTransaction(a)' =>
           /\ \A b \in Attempts :
                InTransaction(b) /\ input[b].login = input'[a].login => b = a
           /\ \A b \in Attempts :
                ~ (users[b] # None /\ users[b].login = input'[a].login)
  PROVE  IInv'
<1>1. \A b \in Attempts : AttemptInv(b)'
  <2> SUFFICES ASSUME NEW b \in Attempts, b # a PROVE AttemptInv(b)'
    OBVIOUS
  <2>1. AttemptKept(b) /\ RowsKept
    BY DEF Alone, tables, RowsKept
  <2> QED
    BY <2>1, KeptInv
<1>2. LoginsHeld'
  BY DEF IInv, LoginsHeld, InTransaction, Alone, AttemptKept, tables
<1>3. LoginsTaken'
  BY DEF IInv, LoginsTaken, Alone, tables
<1>4. TokenFileHasSession'
  BY DEF IInv, TokenFileHasSession, Alone
<1> QED
  BY <1>1, <1>2, <1>3, <1>4 DEF IInv

LEMMA InitInv == Init => IInv
<1> SUFFICES ASSUME Init PROVE IInv
  OBVIOUS
<1>1. TypeOK
  BY DEF Init, TypeOK, NoneOf, Phases, Outcomes
<1>2. \A a \in Attempts : AttemptInv(a)
  BY DEF Init, NoneOf, AttemptInv, Ending, Registering, Finding, Answering,
         LoserOf, SessionOf
<1>3. LoginsHeld /\ LoginsTaken /\ TokenFileHasSession
  BY DEF Init, NoneOf, LoginsHeld, InTransaction, LoginsTaken,
         TokenFileHasSession
<1> QED
  BY <1>1, <1>2, <1>3 DEF IInv

----------------------------------------------------------------------------
(* The terminal                                                            *)

LEMMA BeginInv ==
  ASSUME IInv, NEW a \in Attempts, Begin(a)
  PROVE  IInv'
<1>1. PICK op \in {"register", "login"}, t \in Terminals, name \in Typed,
           p \in Words, m \in Words :
        /\ PasswordsAccepted(t, p, m)
        /\ LoginGiven(name)
        /\ input' = [input EXCEPT ![a] =
             [op |-> op, terminal |-> t, login |-> TrimSpace[name],
              password |-> p, master |-> m]]
        /\ key' = [key EXCEPT ![a] = IF op = "register" THEN a ELSE None]
        /\ Goto(a, IF op = "register" THEN "insert" ELSE "find")
  BY DEF Begin
<1> DEFINE i == [op |-> op, terminal |-> t, login |-> TrimSpace[name],
                 password |-> p, master |-> m]
<1>2. i \in Input /\ i # None /\ i.op = op
  BY <1>1, AuthAssumption DEF Input, LoginGiven
<1>3. phase[a] = "idle" /\ input' = [input EXCEPT ![a] = i]
  BY <1>1 DEF Begin
<1> HIDE DEF i
<1>4. /\ phase' = [phase EXCEPT ![a] = IF op = "register" THEN "insert"
                                                          ELSE "find"]
      /\ UNCHANGED <<tables, found, reply, session, tokenFile, outcome>>
  BY <1>1 DEF Begin, Goto
<1>5. Alone(a)
  BY <1>1, <1>3, <1>4 DEF Alone, AttemptKept, tables, IInv, TypeOK
<1>6. TypeOK'
  BY <1>1, <1>2, <1>3, <1>4 DEF IInv, TypeOK, tables, Phases
<1>7. AttemptInv(a)'
  <2>1. AttemptInv(a)
    BY DEF IInv
  <2>2. /\ phase'[a] = IF op = "register" THEN "insert" ELSE "find"
        /\ input'[a] = i
        /\ key'[a] = IF op = "register" THEN a ELSE None
        /\ UNCHANGED <<users, vaults, found, reply, session, outcome>>
    BY <1>1, <1>3, <1>4 DEF IInv, TypeOK, tables
  <2>3. users[a] = None /\ vaults[a] = None
    BY <1>3, <2>1 DEF AttemptInv, Registering
  <2>4. Ending(a)' /\ Registering(a)'
    BY <1>2, <1>3, <2>1, <2>2, <2>3 DEF AttemptInv, Ending, Registering
  <2>5. Finding(a)' /\ Answering(a)'
    BY <1>2, <2>2 DEF Finding, Answering
  <2>6. LoserOf(a)' /\ SessionOf(a)'
    BY <1>3, <2>1, <2>2 DEF AttemptInv, Ending, LoserOf, SessionOf
  <2> QED
    BY <2>4, <2>5, <2>6 DEF AttemptInv
<1>8. ~ InTransaction(a)'
  BY <1>4 DEF InTransaction, IInv, TypeOK
<1> QED
  BY <1>5, <1>6, <1>7, <1>8, AloneInv

(* An attempt that ends with nothing new, and was not told "exists".       *)
LEMMA EndInv ==
  ASSUME IInv, NEW a \in Attempts, phase[a] # "done",
         NEW out \in Outcomes \ {"none", "exists"}, End(a, out),
         UNCHANGED <<tables, input, found, reply, session, tokenFile>>,
         key' \in [Attempts -> Attempts \cup {None}],
         \A b \in Attempts \ {a} : key'[b] = key[b]
  PROVE  IInv'
<1>1. /\ phase' = [phase EXCEPT ![a] = "done"]
      /\ outcome' = [outcome EXCEPT ![a] = out]
  BY DEF End
<1>2. Alone(a)
  BY <1>1 DEF Alone, AttemptKept, tables, IInv, TypeOK
<1>3. TypeOK'
  BY <1>1 DEF IInv, TypeOK, tables, Phases
<1>4. AttemptInv(a)'
  <2>1. AttemptInv(a)
    BY DEF IInv
  <2>2. /\ phase'[a] = "done" /\ outcome'[a] = out
        /\ UNCHANGED <<users, vaults, input, found, reply, session>>
    BY <1>1 DEF IInv, TypeOK, tables
  <2>3. Ending(a)' /\ Registering(a)'
    BY <2>1, <2>2 DEF AttemptInv, Ending, Registering, NewUser
  <2>4. Finding(a)' /\ Answering(a)' /\ LoserOf(a)'
    BY <2>2 DEF Finding, Answering, LoserOf
  <2>5. SessionOf(a)'
    BY <2>1, <2>2 DEF AttemptInv, SessionOf
  <2> QED
    BY <2>3, <2>4, <2>5 DEF AttemptInv
<1>5. ~ InTransaction(a)'
  BY <1>1 DEF InTransaction, IInv, TypeOK
<1> QED
  BY <1>2, <1>3, <1>4, <1>5, AloneInv

LEMMA RefuseInv ==
  ASSUME IInv, NEW a \in Attempts, Refuse(a)
  PROVE  IInv'
BY EndInv DEF Refuse, client, Outcomes, IInv, TypeOK

LEMMA FailInv ==
  ASSUME IInv, NEW a \in Attempts, Fail(a)
  PROVE  IInv'
BY EndInv DEF Fail, client, Outcomes, IInv, TypeOK

----------------------------------------------------------------------------
(* The server                                                              *)

LEMMA InsertUserInv ==
  ASSUME IInv, NEW a \in Attempts, InsertUser(a)
  PROVE  IInv'
<1>1. /\ phase[a] = "insert"
      /\ UNCHANGED <<users, vaults, input, key, session, tokenFile, found,
                     reply>>
  BY DEF InsertUser, tables, client
<1>2. AttemptInv(a)
  BY DEF IInv
<1>3. CASE InsertVerdict(a) = "insert" /\ Goto(a, "vault")
  <2>1. phase' = [phase EXCEPT ![a] = "vault"] /\ UNCHANGED outcome
    BY <1>3 DEF Goto
  <2>2. Alone(a)
    BY <1>1, <2>1 DEF Alone, AttemptKept, tables, IInv, TypeOK
  <2>3. TypeOK'
    BY <1>1, <2>1 DEF IInv, TypeOK, Phases
  <2>4. AttemptInv(a)'
    BY <1>1, <1>2, <2>1
    DEF IInv, TypeOK, AttemptInv, Ending, Registering, Finding, Answering,
        LoserOf, SessionOf, NewUser
  <2>5. /\ \A b \in Attempts :
             ~ (InTransaction(b) /\ input[b].login = input'[a].login)
        /\ \A b \in Attempts :
             ~ (users[b] # None /\ users[b].login = input'[a].login)
    BY <1>1, <1>3 DEF InsertVerdict, HoldsLogin, Committed
  <2> QED
    BY <2>2, <2>3, <2>4, <2>5, AloneInv
<1>4. CASE InsertVerdict(a) = "exists" /\ End(a, "exists")
  <2>1. /\ phase' = [phase EXCEPT ![a] = "done"]
        /\ outcome' = [outcome EXCEPT ![a] = "exists"]
    BY <1>4 DEF End
  <2>2. Alone(a)
    BY <1>1, <2>1 DEF Alone, AttemptKept, tables, IInv, TypeOK
  <2>3. TypeOK'
    BY <1>1, <2>1 DEF IInv, TypeOK, Phases, Outcomes
  <2>4. users[a] = None
    BY <1>1, <1>2 DEF AttemptInv, Registering
  <2>5. \E u \in Attempts : users[u] # None /\ users[u].login = input[a].login
    BY <1>4 DEF InsertVerdict, Committed
  <2>6. LoserOf(a)'
    BY <1>1, <2>4, <2>5 DEF LoserOf
  <2>7. AttemptInv(a)'
    BY <1>1, <1>2, <2>1, <2>6
    DEF IInv, TypeOK, AttemptInv, Ending, Registering, Finding, Answering,
        SessionOf, NewUser
  <2>8. ~ InTransaction(a)'
    BY <2>1 DEF InTransaction, IInv, TypeOK
  <2> QED
    BY <2>2, <2>3, <2>7, <2>8, AloneInv
<1> QED
  BY <1>3, <1>4 DEF InsertUser

LEMMA InsertVaultInv ==
  ASSUME IInv, NEW a \in Attempts, InsertVault(a)
  PROVE  IInv'
<1>1. /\ phase[a] = "vault"
      /\ phase' = [phase EXCEPT ![a] = "commit"]
      /\ UNCHANGED <<users, vaults, input, key, session, tokenFile, found,
                     reply, outcome>>
  BY DEF InsertVault, Goto, tables, client
<1>2. AttemptInv(a)
  BY DEF IInv
<1>3. Alone(a)
  BY <1>1 DEF Alone, AttemptKept, tables, IInv, TypeOK
<1>4. TypeOK'
  BY <1>1 DEF IInv, TypeOK, Phases
<1>5. AttemptInv(a)'
  BY <1>1, <1>2
  DEF IInv, TypeOK, AttemptInv, Ending, Registering, Finding, Answering,
      LoserOf, SessionOf, NewUser
<1>6. /\ \A b \in Attempts :
           InTransaction(b) /\ input[b].login = input'[a].login => b = a
      /\ \A b \in Attempts :
           ~ (users[b] # None /\ users[b].login = input'[a].login)
  BY <1>1 DEF IInv, LoginsHeld, InTransaction
<1> QED
  BY <1>3, <1>4, <1>5, <1>6, AloneInv

(* COMMIT makes the rows of a visible, for a login no other user has.      *)
LEMMA CommitInv ==
  ASSUME IInv, NEW a \in Attempts, Commit(a)
  PROVE  /\ IInv'
         /\ \A b \in Attempts :
              ~ (users[b] # None /\ users[b].login = input[a].login)
<1> DEFINE user == NewUser(a)
           vault == [key |-> a, master |-> input[a].master]
<1>1. phase[a] = "commit" /\ AttemptInv(a)
  BY DEF Commit, IInv
<1>2. /\ input[a] # None /\ input[a] \in Input /\ input[a].op = "register"
      /\ key[a] = a /\ users[a] = None /\ vaults[a] = None
      /\ outcome[a] = "none" /\ session[a] = None
  BY <1>1 DEF AttemptInv, Ending, Registering, IInv, TypeOK
<1>3. /\ users' = [users EXCEPT ![a] = user]
      /\ vaults' = [vaults EXCEPT ![a] = vault]
      /\ found' = [found EXCEPT ![a] = a]
      /\ UNCHANGED <<input, key, session, tokenFile, reply>>
  BY <1>2 DEF Commit, NewEnvelope, client
<1>4. \/ phase' = [phase EXCEPT ![a] = "issue"] /\ UNCHANGED outcome
      \/ /\ phase' = [phase EXCEPT ![a] = "done"]
         /\ outcome' = [outcome EXCEPT ![a] = "error"]
  BY DEF Commit, Goto, End
<1>5. /\ user \in User /\ user # None
      /\ user = [login |-> input[a].login, password |-> input[a].password]
      /\ vault \in Envelope /\ vault # None
  BY <1>2, AuthAssumption DEF NewUser, User, Envelope, Input
<1> HIDE DEF user, vault
<1>6. \A b \in Attempts :
        ~ (users[b] # None /\ users[b].login = input[a].login)
  BY <1>1 DEF IInv, LoginsHeld, InTransaction
<1>7. TypeOK'
  BY <1>3, <1>4, <1>5 DEF IInv, TypeOK, Phases, Outcomes
<1>8. AttemptInv(a)'
  <2>1. Ending(a)'
    BY <1>2, <1>3, <1>4 DEF Ending, IInv, TypeOK
  <2>2. Registering(a)'
    BY <1>2, <1>3, <1>4, <1>5 DEF Registering, NewUser, IInv, TypeOK, vault
  <2>3. Finding(a)'
    BY <1>2, <1>3, <1>4, <1>5 DEF Finding, IInv, TypeOK
  <2>4. Answering(a)' /\ LoserOf(a)' /\ SessionOf(a)'
    BY <1>2, <1>3, <1>4 DEF Answering, LoserOf, SessionOf, IInv, TypeOK
  <2> QED
    BY <2>1, <2>2, <2>3, <2>4 DEF AttemptInv
<1>9. RowsKept
  BY <1>2, <1>3 DEF RowsKept, IInv, TypeOK
<1>10. \A b \in Attempts : AttemptInv(b)'
  <2> SUFFICES ASSUME NEW b \in Attempts, b # a PROVE AttemptInv(b)'
    BY <1>8
  <2>1. AttemptKept(b)
    BY <1>3, <1>4 DEF AttemptKept, IInv, TypeOK
  <2> QED
    BY <1>9, <2>1, KeptInv
<1>11. LoginsHeld'
  <2> SUFFICES ASSUME NEW b \in Attempts, NEW c \in Attempts,
                      InTransaction(b)'
               PROVE  /\ InTransaction(c)' /\ input'[b].login = input'[c].login
                           => b = c
                      /\ ~ (users'[c] # None
                            /\ users'[c].login = input'[b].login)
    BY DEF LoginsHeld
  <2>1. b # a /\ InTransaction(b)
    BY <1>4 DEF InTransaction, IInv, TypeOK
  <2>2. InTransaction(c)' => InTransaction(c)
    BY <1>4 DEF InTransaction, IInv, TypeOK
  <2>3. input[b].login # input[a].login
    BY <1>1, <2>1 DEF IInv, LoginsHeld, InTransaction
  <2>4. CASE c = a
    BY <1>3, <1>5, <2>1, <2>2, <2>3, <2>4 DEF IInv, TypeOK, LoginsHeld
  <2>5. CASE c # a
    BY <1>3, <2>1, <2>2, <2>5 DEF IInv, TypeOK, LoginsHeld
  <2> QED
    BY <2>4, <2>5
<1>12. LoginsTaken'
  BY <1>3, <1>5, <1>6 DEF IInv, TypeOK, LoginsTaken
<1>13. TokenFileHasSession'
  BY <1>3 DEF IInv, TokenFileHasSession
<1> QED
  BY <1>6, <1>7, <1>10, <1>11, <1>12, <1>13 DEF IInv

LEMMA FindUserInv ==
  ASSUME IInv, NEW a \in Attempts, FindUser(a)
  PROVE  IInv'
<1>1. CASE \E u \in Committed(input[a].login) :
             found' = [found EXCEPT ![a] = u] /\ Goto(a, "verify")
  <2>1. PICK u \in Attempts :
          /\ users[u] # None /\ users[u].login = input[a].login
          /\ found' = [found EXCEPT ![a] = u] /\ Goto(a, "verify")
    BY <1>1 DEF Committed
  <2>2. /\ phase[a] = "find"
        /\ phase' = [phase EXCEPT ![a] = "verify"]
        /\ UNCHANGED <<users, vaults, input, key, session, tokenFile, reply,
                       outcome>>
    BY <2>1 DEF FindUser, Goto, tables, client
  <2>3. AttemptInv(a)
    BY DEF IInv
  <2>4. Alone(a)
    BY <2>1, <2>2 DEF Alone, AttemptKept, tables, IInv, TypeOK
  <2>5. TypeOK'
    BY <2>1, <2>2 DEF IInv, TypeOK, Phases
  <2>6. AttemptInv(a)'
    BY <2>1, <2>2, <2>3
    DEF IInv, TypeOK, AttemptInv, Ending, Registering, Finding, Answering,
        LoserOf, SessionOf, NewUser
  <2>7. ~ InTransaction(a)'
    BY <2>2 DEF InTransaction, IInv, TypeOK
  <2> QED
    BY <2>4, <2>5, <2>6, <2>7, AloneInv
<1>2. CASE End(a, "credentials") /\ UNCHANGED found
  BY <1>2, EndInv DEF FindUser, tables, client, Outcomes, IInv, TypeOK
<1> QED
  BY <1>1, <1>2 DEF FindUser

LEMMA VerifyPasswordInv ==
  ASSUME IInv, NEW a \in Attempts, VerifyPassword(a)
  PROVE  IInv'
<1>1. CASE PasswordVerdict(a) = "issue" /\ Goto(a, "issue")
  <2>1. /\ phase[a] = "verify"
        /\ phase' = [phase EXCEPT ![a] = "issue"]
        /\ UNCHANGED <<users, vaults, input, key, session, tokenFile, found,
                       reply, outcome>>
    BY <1>1 DEF VerifyPassword, Goto, tables, client
  <2>2. AttemptInv(a)
    BY DEF IInv
  <2>3. Alone(a)
    BY <2>1 DEF Alone, AttemptKept, tables, IInv, TypeOK
  <2>4. TypeOK'
    BY <2>1 DEF IInv, TypeOK, Phases
  <2>5. AttemptInv(a)'
    BY <2>1, <2>2
    DEF IInv, TypeOK, AttemptInv, Ending, Registering, Finding, Answering,
        LoserOf, SessionOf, NewUser
  <2>6. ~ InTransaction(a)'
    BY <2>1 DEF InTransaction, IInv, TypeOK
  <2> QED
    BY <2>3, <2>4, <2>5, <2>6, AloneInv
<1>2. CASE End(a, "credentials")
  BY <1>2, EndInv DEF VerifyPassword, tables, client, Outcomes, IInv, TypeOK
<1> QED
  BY <1>1, <1>2 DEF VerifyPassword

LEMMA IssueInv ==
  ASSUME IInv, NEW a \in Attempts, Issue(a)
  PROVE  IInv'
<1> DEFINE r == [user |-> found[a], vault |-> vaults[found[a]]]
<1>1. /\ phase[a] = "issue"
      /\ phase' = [phase EXCEPT ![a] = "answered"]
      /\ reply' = [reply EXCEPT ![a] = r]
      /\ UNCHANGED <<users, vaults, input, key, session, tokenFile, found,
                     outcome>>
  BY DEF Issue, Goto, tables, client
<1>2. AttemptInv(a)
  BY DEF IInv
<1>3. found[a] \in Attempts /\ users[found[a]] # None
  BY <1>1, <1>2 DEF AttemptInv, Finding
<1>4. vaults[found[a]] \in Envelope
  <2>1. AttemptInv(found[a])
    BY <1>3 DEF IInv
  <2>2. input[found[a]] \in Input
    BY <1>3, <2>1 DEF AttemptInv, Registering, IInv, TypeOK
  <2> QED
    BY <1>3, <2>1, <2>2 DEF AttemptInv, Registering, Envelope, Input
<1>5. /\ r \in Reply /\ r # None
      /\ r.user = found[a] /\ r.vault = vaults[found[a]]
  BY <1>3, <1>4, AuthAssumption DEF Reply, Envelope
<1> HIDE DEF r
<1>6. Alone(a)
  BY <1>1 DEF Alone, AttemptKept, tables, IInv, TypeOK
<1>7. TypeOK'
  BY <1>1, <1>5 DEF IInv, TypeOK, Phases
<1>8. AttemptInv(a)'
  <2>1. /\ phase'[a] = "answered" /\ reply'[a] = r
        /\ UNCHANGED <<users, vaults, input, key, session, found, outcome>>
    BY <1>1 DEF IInv, TypeOK
  <2>2. Ending(a)' /\ Registering(a)' /\ Finding(a)'
    BY <1>1, <1>2, <2>1
    DEF AttemptInv, Ending, Registering, Finding, NewUser
  <2>3. Answering(a)'
    BY <1>1, <1>2, <1>3, <1>5, <2>1 DEF AttemptInv, Finding, Answering
  <2>4. LoserOf(a)' /\ SessionOf(a)'
    BY <1>2, <2>1 DEF AttemptInv, LoserOf, SessionOf
  <2> QED
    BY <2>2, <2>3, <2>4 DEF AttemptInv
<1>9. ~ InTransaction(a)'
  BY <1>1 DEF InTransaction, IInv, TypeOK
<1> QED
  BY <1>6, <1>7, <1>8, <1>9, AloneInv

----------------------------------------------------------------------------
(* The client core                                                         *)

LEMMA OpenVaultKeyInv ==
  ASSUME IInv, NEW a \in Attempts, OpenVaultKey(a)
  PROVE  IInv'
<1>1. /\ phase[a] = "answered"
      /\ UNCHANGED <<users, vaults, input, found, reply, session, tokenFile>>
  BY DEF OpenVaultKey, tables
<1>2. AttemptInv(a)
  BY DEF IInv
<1>3. /\ reply[a] \in Reply /\ input[a] \in Input
      /\ reply[a].user \in Attempts /\ reply[a].vault \in Envelope
      /\ users[reply[a].user] # None
      /\ reply[a].vault = vaults[reply[a].user]
  <2>1. reply[a] \in Reply /\ input[a] \in Input
    BY <1>1, <1>2 DEF AttemptInv, Ending, Answering, IInv, TypeOK
  <2> QED
    BY <1>1, <1>2, <2>1 DEF AttemptInv, Answering, Reply
<1>4. CASE key' = key /\ Goto(a, "save") /\ input[a].op = "register"
  <2>1. phase' = [phase EXCEPT ![a] = "save"] /\ UNCHANGED outcome
    BY <1>4 DEF Goto
  <2>2. Alone(a)
    BY <1>1, <1>4, <2>1 DEF Alone, AttemptKept, tables, IInv, TypeOK
  <2>3. TypeOK'
    BY <1>1, <1>4, <2>1 DEF IInv, TypeOK, Phases
  <2>4. reply[a].vault = [key |-> key[a], master |-> input[a].master]
    BY <1>1, <1>2, <1>3, <1>4 DEF AttemptInv, Answering, Registering
  <2>5. AttemptInv(a)'
    BY <1>1, <1>2, <1>4, <2>1, <2>4
    DEF IInv, TypeOK, AttemptInv, Ending, Registering, Finding, Answering,
        LoserOf, SessionOf, NewUser
  <2>6. ~ InTransaction(a)'
    BY <2>1 DEF InTransaction, IInv, TypeOK
  <2> QED
    BY <2>2, <2>3, <2>5, <2>6, AloneInv
<1>5. CASE key' = [key EXCEPT ![a] = DecryptedKey(a)]
  <2>1. DecryptedKey(a) \in Attempts \cup {None}
    BY <1>3 DEF DecryptedKey, Envelope
  <2>2. /\ key' \in [Attempts -> Attempts \cup {None}]
        /\ \A b \in Attempts \ {a} : key'[b] = key[b]
        /\ key'[a] = DecryptedKey(a)
    BY <1>5, <2>1 DEF IInv, TypeOK
  <2>3. CASE End(a, "master")
    BY <1>1, <2>2, <2>3, EndInv DEF tables, Outcomes
  <2>4. CASE Goto(a, "save") /\ DecryptedKey(a) # None
    <3>1. phase' = [phase EXCEPT ![a] = "save"] /\ UNCHANGED outcome
      BY <2>4 DEF Goto
    <3>2. Alone(a)
      BY <1>1, <2>2, <3>1 DEF Alone, AttemptKept, tables, IInv, TypeOK
    <3>3. TypeOK'
      BY <1>1, <2>2, <3>1 DEF IInv, TypeOK, Phases
    <3>4. reply[a].vault = [key |-> key'[a], master |-> input[a].master]
      <4>1. /\ reply[a].vault.master = input[a].master
            /\ key'[a] = reply[a].vault.key
        BY <2>2, <2>4 DEF DecryptedKey
      <4> QED
        BY <1>3, <4>1 DEF Envelope
    <3>5. AttemptInv(a)'
      <4>1. /\ phase'[a] = "save"
            /\ UNCHANGED <<users, vaults, input, found, reply, session,
                           outcome>>
        BY <1>1, <3>1 DEF IInv, TypeOK
      <4>2. Ending(a)' /\ Registering(a)' /\ Finding(a)'
        BY <1>1, <1>2, <4>1
        DEF AttemptInv, Ending, Registering, Finding, NewUser
      <4>3. Answering(a)'
        BY <1>1, <1>2, <3>4, <4>1 DEF AttemptInv, Answering
      <4>4. LoserOf(a)' /\ SessionOf(a)'
        BY <1>2, <4>1 DEF AttemptInv, LoserOf, SessionOf
      <4> QED
        BY <4>2, <4>3, <4>4 DEF AttemptInv
    <3>6. ~ InTransaction(a)'
      BY <3>1 DEF InTransaction, IInv, TypeOK
    <3> QED
      BY <3>2, <3>3, <3>5, <3>6, AloneInv
  <2>5. \/ End(a, "master")
        \/ Goto(a, "save") /\ DecryptedKey(a) # None
    <3>1. CASE input[a].op = "register"
      <4>1. Goto(a, "save") /\ key' = key
        BY <3>1 DEF OpenVaultKey
      <4>2. key[a] \in Attempts
        BY <1>1, <1>2, <3>1 DEF AttemptInv, Answering
      <4>3. key'[a] # None
        BY <4>1, <4>2, AuthAssumption
      <4> QED
        BY <2>2, <4>1, <4>3
    <3>2. CASE input[a].op # "register"
      BY <3>2 DEF OpenVaultKey
    <3> QED
      BY <3>1, <3>2
  <2> QED
    BY <2>3, <2>4, <2>5
<1> QED
  BY <1>4, <1>5 DEF OpenVaultKey

(* What a token saved for a session was made of.                           *)
LEMMA SavedSession ==
  ASSUME IInv, NEW a \in Attempts, phase[a] = "save"
  PROVE  /\ session[a] = None
         /\ reply[a].user \in Attempts
         /\ key[a] \in Attempts
         /\ users[reply[a].user] # None
         /\ vaults[reply[a].user] = [key |-> key[a],
                                     master |-> input[a].master]
<1>1. AttemptInv(a)
  BY DEF IInv
<1>2. reply[a] \in Reply
  BY <1>1 DEF AttemptInv, Answering, IInv, TypeOK
<1>3. reply[a].vault = [key |-> key[a], master |-> input[a].master]
  BY <1>1 DEF AttemptInv, Answering
<1>4. reply[a].vault \in Envelope
  BY <1>2 DEF Reply
<1>5. key[a] \in Attempts
  <2>1. reply[a].vault.key \in Attempts
    BY <1>4 DEF Envelope
  <2> QED
    BY <1>3, <2>1
<1> QED
  BY <1>1, <1>2, <1>3, <1>5 DEF AttemptInv, Answering, Ending, Reply

LEMMA SaveTokenInv ==
  ASSUME IInv, NEW a \in Attempts, SaveToken(a)
  PROVE  IInv'
<1> DEFINE s == [user |-> reply[a].user, key |-> key[a]]
<1>1. /\ phase[a] = "save"
      /\ UNCHANGED <<users, vaults, input, found, reply, key>>
  BY DEF SaveToken, tables
<1>2. CASE UNCHANGED <<tokenFile, session>> /\ End(a, "error")
  BY <1>1, <1>2, EndInv DEF tables, Outcomes, IInv, TypeOK
<1>3. CASE /\ tokenFile' = reply[a].user
           /\ session' = [session EXCEPT ![a] = s]
           /\ End(a, "ok")
  <2>1. /\ session[a] = None
        /\ s \in Session /\ s # None
        /\ s.user = reply[a].user /\ s.key = key[a]
        /\ users[s.user] # None
        /\ vaults[s.user] = [key |-> s.key, master |-> input[a].master]
        /\ reply[a].user \in Attempts
    BY <1>1, SavedSession, AuthAssumption DEF Session
  <2>2. AttemptInv(a)
    BY DEF IInv
  <2> HIDE DEF s
  <2>3. /\ phase' = [phase EXCEPT ![a] = "done"]
        /\ outcome' = [outcome EXCEPT ![a] = "ok"]
    BY <1>3 DEF End
  <2>4. TypeOK'
    BY <1>1, <1>3, <2>1, <2>3 DEF IInv, TypeOK, Phases, Outcomes
  <2>5. /\ phase'[a] = "done" /\ outcome'[a] = "ok" /\ session'[a] = s
    BY <1>3, <2>3 DEF IInv, TypeOK
  <2>6. Ending(a)' /\ Registering(a)'
    BY <1>1, <2>2, <2>5 DEF AttemptInv, Ending, Registering, NewUser
  <2>7. Finding(a)' /\ Answering(a)' /\ LoserOf(a)'
    BY <2>5 DEF Finding, Answering, LoserOf
  <2>8. SessionOf(a)'
    BY <1>1, <2>1, <2>5 DEF SessionOf
  <2>9. \A b \in Attempts : AttemptInv(b)'
    <3> SUFFICES ASSUME NEW b \in Attempts, b # a PROVE AttemptInv(b)'
      BY <2>6, <2>7, <2>8 DEF AttemptInv
    <3>1. AttemptKept(b) /\ RowsKept
      BY <1>1, <1>3, <2>3 DEF AttemptKept, RowsKept, IInv, TypeOK
    <3> QED
      BY <3>1, KeptInv
  <2>10. LoginsHeld' /\ LoginsTaken'
    BY <1>1, <2>3 DEF IInv, TypeOK, LoginsHeld, LoginsTaken, InTransaction
  <2>11. TokenFileHasSession'
    BY <1>3, <2>1, <2>5 DEF TokenFileHasSession
  <2> QED
    BY <2>4, <2>9, <2>10, <2>11 DEF IInv
<1> QED
  BY <1>2, <1>3 DEF SaveToken

LEMMA StepInv == IInv /\ [Next]_vars => IInv'
<1> SUFFICES ASSUME IInv, [Next]_vars PROVE IInv'
  OBVIOUS
<1>1. CASE Next
  <2>1. PICK a \in Attempts : Begin(a) \/ Refuse(a) \/ Serve(a) \/ Fail(a)
    BY <1>1 DEF Next
  <2> QED
    BY <2>1, BeginInv, RefuseInv, FailInv, InsertUserInv, InsertVaultInv,
       CommitInv, FindUserInv, VerifyPasswordInv, IssueInv, OpenVaultKeyInv,
       SaveTokenInv
    DEF Serve
<1>2. CASE UNCHANGED vars
  <2>1. \A b \in Attempts : AttemptKept(b)
    BY <1>2 DEF vars, AttemptKept
  <2>2. RowsKept
    BY <1>2 DEF vars, RowsKept
  <2>3. \A b \in Attempts : AttemptInv(b)'
    BY <2>1, <2>2, KeptInv
  <2>4. TypeOK'
    BY <1>2 DEF vars, IInv, TypeOK
  <2>5. LoginsHeld' /\ LoginsTaken' /\ TokenFileHasSession'
    BY <1>2
    DEF vars, IInv, LoginsHeld, LoginsTaken, TokenFileHasSession, InTransaction
  <2> QED
    BY <2>3, <2>4, <2>5 DEF IInv
<1> QED
  BY <1>1, <1>2

LEMMA InvHolds == Spec => []IInv
BY InitInv, StepInv, PTL DEF Spec

----------------------------------------------------------------------------
(* Theorems                                                                *)

(* The variables keep their types (service.go, postgres_repository.go,     *)
(* auth_flow.go).                                                          *)
THEOREM TypeCorrect == Spec => []TypeOK
<1>1. IInv => TypeOK
  BY DEF IInv
<1> QED
  BY <1>1, InvHolds, PTL

(* A login has one user, and a user its vault key, however registrations   *)
(* race or fail (postgres_repository.go CreateUserWithVault).              *)
THEOREM AccountsStayWhole == Spec => []AccountsAreWhole
<1>1. IInv => AccountsAreWhole
  <2> SUFFICES ASSUME IInv PROVE AccountsAreWhole
    OBVIOUS
  <2>1. ASSUME NEW u \in Attempts
        PROVE  (users[u] = None) = (vaults[u] = None)
    <3>1. Registering(u)
      BY DEF IInv, AttemptInv
    <3>2. CASE users[u] = None
      BY <3>1, <3>2 DEF Registering
    <3>3. CASE users[u] # None
      <4>1. vaults[u] = [key |-> u, master |-> input[u].master]
        BY <3>1, <3>3 DEF Registering
      <4>2. input[u] \in Input
        BY <3>1, <3>3 DEF Registering, IInv, TypeOK
      <4>3. vaults[u] \in Envelope
        BY <4>1, <4>2 DEF Input, Envelope
      <4> QED
        BY <3>3, <4>3, AuthAssumption DEF Envelope
    <3> QED
      BY <3>2, <3>3
  <2> QED
    BY <2>1 DEF IInv, LoginsTaken, AccountsAreWhole
<1> QED
  BY <1>1, InvHolds, PTL

(* Who is told that the login exists has left no row, and another has      *)
(* (service.go Register).                                                  *)
THEOREM LosersLeaveNothing == Spec => []LoserLeavesNothing
<1>1. IInv => LoserLeavesNothing
  BY DEF IInv, AttemptInv, LoserOf, LoserLeavesNothing
<1> QED
  BY <1>1, InvHolds, PTL

(* A session encrypts with the vault key the server stored for its user,   *)
(* under the master password of the session (auth_flow.go).                *)
THEOREM SessionKeysAreStored == Spec => []SessionKeyIsStored
<1>1. IInv => SessionKeyIsStored
  BY DEF IInv, AttemptInv, SessionOf, SessionKeyIsStored
<1> QED
  BY <1>1, InvHolds, PTL

(* The token file names a user whose vault some session here has open      *)
(* (auth_flow.go saves the token last).                                    *)
THEOREM TokenFilesHaveSessions == Spec => []TokenFileHasSession
<1>1. IInv => TokenFileHasSession
  BY DEF IInv
<1> QED
  BY <1>1, InvHolds, PTL

(* A registration leaves a whole account, or nothing (service.go Register, *)
(* postgres_repository.go CreateUserWithVault).                            *)
THEOREM RegistrationIsAllOrNothing == Spec => []AccountsAreAllOrNothing
<1>1. AccountsAreWhole /\ LoserLeavesNothing => AccountsAreAllOrNothing
  BY DEF AccountsAreAllOrNothing
<1> QED
  BY <1>1, AccountsStayWhole, LosersLeaveNothing, PTL

(* A session and the token file are of an account the server stores        *)
(* (auth_flow.go Register, Login).                                         *)
THEOREM SessionsHaveAccounts == Spec => []SessionsAreOfAccounts
<1>1. SessionKeyIsStored /\ TokenFileHasSession => SessionsAreOfAccounts
  BY DEF SessionsAreOfAccounts
<1> QED
  BY <1>1, SessionKeysAreStored, TokenFilesHaveSessions, PTL

(* Credentials are refused only when no user has them (login/service.go).  *)
THEOREM RefusalsAreRight == Spec => RefusalIsRight
<1> DEFINE Right ==
      \A a \in Attempts :
        outcome'[a] = "credentials" /\ outcome[a] # "credentials" =>
          ~ \E u \in Attempts :
              users[u] = [login |-> input[a].login,
                          password |-> input[a].password]
<1>1. IInv /\ [Next]_vars => [Right]_vars
  <2> SUFFICES ASSUME IInv, Next,
                      NEW a \in Attempts, outcome'[a] = "credentials",
                      outcome[a] # "credentials",
                      NEW u \in Attempts,
                      users[u] = [login |-> input[a].login,
                                  password |-> input[a].password]
               PROVE  FALSE
    BY DEF IInv
  <2>1. \/ FindUser(a) /\ Committed(input[a].login) = {}
        \/ VerifyPassword(a) /\ PasswordVerdict(a) = "credentials"
    <3>1. PICK b \in Attempts : Begin(b) \/ Refuse(b) \/ Serve(b) \/ Fail(b)
      BY DEF Next
    <3>2. CASE b # a
      BY <3>1, <3>2
      DEF Begin, Refuse, Serve, Fail, InsertUser, InsertVault, Commit,
          FindUser, VerifyPassword, Issue, OpenVaultKey, SaveToken, Goto, End,
          IInv, TypeOK
    <3>3. CASE FindUser(a)
      <4>1. Committed(input[a].login) = {}
        BY <3>3 DEF FindUser, Goto
      <4> QED
        BY <3>3, <4>1
    <3>4. CASE VerifyPassword(a)
      <4>1. PasswordVerdict(a) = "credentials"
        BY <3>4 DEF VerifyPassword, Goto, PasswordVerdict
      <4> QED
        BY <3>4, <4>1
    <3>5. CASE b = a /\ ~ FindUser(a) /\ ~ VerifyPassword(a)
      BY <3>1, <3>5
      DEF Begin, Refuse, Serve, Fail, InsertUser, InsertVault, Commit, Issue,
          OpenVaultKey, SaveToken, Goto, End, IInv, TypeOK
    <3> QED
      BY <3>2, <3>3, <3>4, <3>5
  <2>2. users[u] # None /\ users[u].login = input[a].login
    <3>1. users[u] = None => FALSE
      <4>1. phase[a] \in {"find", "verify"}
        BY <2>1 DEF FindUser, VerifyPassword
      <4>2. input[a] \in Input
        BY <4>1 DEF IInv, AttemptInv, Ending, TypeOK
      <4>3. users[u] \in User
        BY <4>2 DEF Input, User
      <4> QED
        BY <4>3, AuthAssumption DEF User
    <3> QED
      BY <3>1
  <2>3. CASE Committed(input[a].login) = {}
    BY <2>2, <2>3 DEF Committed
  <2>4. CASE VerifyPassword(a) /\ PasswordVerdict(a) = "credentials"
    <3>1. /\ found[a] \in Attempts /\ users[found[a]] # None
          /\ users[found[a]].login = input[a].login
      BY <2>4 DEF VerifyPassword, IInv, AttemptInv, Finding
    <3>2. found[a] = u
      BY <2>2, <3>1 DEF IInv, LoginsTaken
    <3> QED
      BY <2>4, <3>2 DEF PasswordVerdict
  <2> QED
    BY <2>1, <2>3, <2>4
<1> QED
  BY <1>1, InvHolds, PTL DEF Spec, RefusalIsRight

----------------------------------------------------------------------------
(* Auth implements Accounts                                                *)

(* The account of a login is its one user.                                 *)
LEMMA AccountIs ==
  ASSUME IInv, NEW u \in Attempts, users[u] # None
  PROVE  /\ users[u].login \in Logins
         /\ AccountOf(users[u].login) =
              [user |-> u, password |-> users[u].password,
               key |-> vaults[u].key, master |-> vaults[u].master]
         /\ AccountOf(users[u].login) \in A!Account
         /\ AccountOf(users[u].login) # None
<1> DEFINE l == users[u].login
<1>1. Committed(l) = {u}
  BY DEF Committed, IInv, LoginsTaken
<1>2. (CHOOSE v \in Committed(l) : TRUE) = u
  BY <1>1
<1>3. AccountOf(l) = [user |-> u, password |-> users[u].password,
                      key |-> vaults[u].key, master |-> vaults[u].master]
  BY <1>1, <1>2 DEF AccountOf
<1>4. users[u] \in User
  BY DEF IInv, TypeOK
<1>5. vaults[u] = [key |-> u, master |-> input[u].master]
      /\ input[u] \in Input
  BY DEF IInv, AttemptInv, Registering, TypeOK
<1>6. AccountOf(l) \in A!Account
  BY <1>3, <1>4, <1>5 DEF A!Account, User, Input
<1>7. AccountOf(l) # None
  BY <1>6, AuthAssumption DEF A!Account
<1> QED
  BY <1>3, <1>4, <1>6, <1>7 DEF User

AccountsTyped ==
  \A u \in Attempts :
    users[u] # None => AccountOf(users[u].login) \in A!Account

LEMMA AccountsAreTyped == IInv => AccountsTyped
BY AccountIs DEF AccountsTyped

LEMMA AccountFree ==
  ASSUME NEW l \in Logins,
         \A u \in Attempts : ~ (users[u] # None /\ users[u].login = l)
  PROVE  AccountOf(l) = None
BY DEF AccountOf, Committed

LEMMA InitAccounts == Init => A!Init
<1> SUFFICES ASSUME Init PROVE A!Init
  OBVIOUS
<1>1. \A l \in Logins : AccountOf(l) = None
  BY DEF Init, NoneOf, AccountOf, Committed
<1> QED
  BY <1>1 DEF Init, NoneOf, A!Init, account

(* Only Commit and SaveToken show in Accounts.                             *)
LEMMA AccountsUnchanged ==
  ASSUME UNCHANGED <<users, vaults, session>>
  PROVE  UNCHANGED A!vars
BY DEF A!vars, account, AccountOf, Committed

LEMMA CommitCreates ==
  ASSUME IInv, NEW a \in Attempts, Commit(a)
  PROVE  A!Next
<1> DEFINE l == input[a].login
<1>1. /\ IInv'
      /\ \A b \in Attempts : ~ (users[b] # None /\ users[b].login = l)
  BY CommitInv
<1>2. /\ input[a] \in Input /\ users[a] = None
      /\ users' = [users EXCEPT ![a] = NewUser(a)]
      /\ \A b \in Attempts \ {a} : vaults'[b] = vaults[b]
      /\ UNCHANGED <<session, input>>
  BY DEF Commit, client, IInv, AttemptInv, Ending, Registering, TypeOK
<1>3. l \in Logins /\ NewUser(a) \in User /\ NewUser(a).login = l
  BY <1>2 DEF Input, NewUser, User
<1>4. NewUser(a) # None
  BY <1>3, AuthAssumption DEF User
<1>5. AccountOf(l) = None
  BY <1>1, <1>3, AccountFree
<1>6. users'[a] # None /\ users'[a].login = l
  BY <1>2, <1>3, <1>4 DEF IInv, TypeOK
<1>7. AccountOf(l)' \in A!Account
  <2>1. AccountsTyped'
    BY <1>1, AccountsAreTyped, PTL
  <2>2. AccountOf(users[a].login)' \in A!Account
    BY <1>6, <2>1 DEF AccountsTyped
  <2>3. Committed(users[a].login)' = Committed(l)'
    BY <1>2, <1>6 DEF Committed
  <2> QED
    BY <2>2, <2>3 DEF AccountOf
<1>8. \A m \in Logins \ {l} : AccountOf(m)' = AccountOf(m)
  <2> SUFFICES ASSUME NEW m \in Logins, m # l
               PROVE  AccountOf(m)' = AccountOf(m)
    OBVIOUS
  <2>1. Committed(m)' = Committed(m) /\ a \notin Committed(m)
    BY <1>2, <1>6 DEF Committed, IInv, TypeOK
  <2>2. \A b \in Committed(m) :
          users'[b] = users[b] /\ vaults'[b] = vaults[b]
    BY <1>2, <2>1 DEF Committed, IInv, TypeOK
  <2>3. Committed(m) # {} => (CHOOSE v \in Committed(m) : TRUE) \in Committed(m)
    OBVIOUS
  <2> QED
    BY <2>1, <2>2, <2>3 DEF AccountOf
<1>9. account' = [account EXCEPT ![l] = AccountOf(l)']
  BY <1>2, <1>3, <1>8 DEF account
<1>10. account[l] = None
  BY <1>3, <1>5 DEF account
<1>11. A!Create(l)
  BY <1>2, <1>7, <1>9, <1>10 DEF A!Create
<1> QED
  BY <1>3, <1>11 DEF A!Next

LEMMA SaveTokenEnters ==
  ASSUME IInv, NEW a \in Attempts, SaveToken(a)
  PROVE  [A!Next]_A!vars
<1>1. phase[a] = "save" /\ UNCHANGED <<users, vaults>>
  BY DEF SaveToken, tables
<1>2. CASE UNCHANGED session
  BY <1>1, <1>2, AccountsUnchanged
<1>3. CASE session' = [session EXCEPT ![a] =
                         [user |-> reply[a].user, key |-> key[a]]]
  <2> DEFINE u == reply[a].user
             l == users[u].login
  <2>1. /\ session[a] = None /\ u \in Attempts /\ users[u] # None
        /\ vaults[u] = [key |-> key[a], master |-> input[a].master]
    BY <1>1, SavedSession
  <2>2. /\ l \in Logins
        /\ AccountOf(l) = [user |-> u, password |-> users[u].password,
                           key |-> vaults[u].key, master |-> vaults[u].master]
        /\ AccountOf(l) # None
    BY <2>1, AccountIs
  <2> HIDE DEF l
  <2>3. account[l].user = u /\ account[l].key = key[a] /\ account[l] # None
    BY <2>1, <2>2 DEF account
  <2>4. account' = account
    BY <1>1 DEF account, AccountOf, Committed
  <2>5. A!Enter(a, l)
    BY <1>3, <2>1, <2>3, <2>4 DEF A!Enter
  <2> QED
    BY <2>2, <2>5 DEF A!Next
<1> QED
  BY <1>2, <1>3 DEF SaveToken

LEMMA NextAccounts ==
  ASSUME IInv, [Next]_vars
  PROVE  [A!Next]_A!vars
<1>1. CASE \E a \in Attempts : Commit(a)
  BY <1>1, CommitCreates
<1>2. CASE \E a \in Attempts : SaveToken(a)
  BY <1>2, SaveTokenEnters
<1>3. CASE ~ \E a \in Attempts : Commit(a) \/ SaveToken(a)
  <2>1. UNCHANGED <<users, vaults, session>>
    BY <1>3
    DEF Next, vars, Begin, Refuse, Serve, Fail, InsertUser, InsertVault,
        FindUser, VerifyPassword, Issue, OpenVaultKey, tables, client
  <2> QED
    BY <2>1, AccountsUnchanged
<1> QED
  BY <1>1, <1>2, <1>3

(* Registration and login, in statements that fail and interleave, do what *)
(* the two steps of Accounts do at once.                                   *)
THEOREM Refinement == Spec => ImplementsAccounts
<1>1. Spec => []IInv /\ [][Next]_vars /\ Init
  BY InvHolds, PTL DEF Spec
<1>2. IInv /\ [Next]_vars => [A!Next]_A!vars
  BY NextAccounts
<1> QED
  BY <1>1, <1>2, InitAccounts, PTL DEF ImplementsAccounts, A!Spec

=============================================================================
