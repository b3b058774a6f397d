-------------------------------- MODULE Auth --------------------------------
(***************************************************************************)
(* Registration and login, from the prompt to the open vault: the client   *)
(* core (auth_flow.go, vaultkey.go) and the terminal in front of it, the   *)
(* gRPC handlers, the two services and their PostgreSQL repositories.      *)
(*                                                                         *)
(* An attempt is one register or login command of one terminal.  The       *)
(* server's side of it is a sequence of statements: other attempts run     *)
(* between them, each may fail, and the answer may be lost on its way.     *)
(*                                                                         *)
(* A user id and a vault key are random and unique: both are named by the  *)
(* registration that generated them.  A password hash is the password it   *)
(* was made from, an encrypted vault key the key and the master password   *)
(* that opens it.  Access tokens name their user; see Access.              *)
(***************************************************************************)
EXTENDS Naturals, FiniteSets

CONSTANTS
  Attempts,   \* register and login commands
  Logins,     \* login names as the users table holds them
  Typed,      \* login names as people type them
  TrimSpace,  \* what strings.TrimSpace makes of each, None if nothing is left
  Words,      \* passwords, for login and master alike
  Terminals,  \* the command line client, the terminal UI, or both
  None        \* no row, no answer, no session

ASSUME AuthAssumption ==
  /\ TrimSpace \in [Typed -> Logins \cup {None}]
  /\ Terminals \subseteq {"cli", "tui"}
  /\ None \notin Attempts \cup Logins
  /\ None \notin [login: Logins, password: Words]
  /\ None \notin [key: Attempts, master: Words]
  /\ None \notin [user: Attempts, key: Attempts]
  /\ None \notin [user: Attempts, password: Words, key: Attempts,
                  master: Words]
  /\ None \notin [user: Attempts, vault: [key: Attempts, master: Words]]
  /\ None \notin [op: {"register", "login"}, terminal: Terminals,
                  login: Logins, password: Words, master: Words]

VARIABLES
  users,      \* table users: committed rows, by user id
  vaults,     \* table user_vaults: the encrypted vault key of each user
  phase,      \* where each attempt is
  input,      \* what was typed for it
  found,      \* the user a login's query returned
  reply,      \* the answer: a token for user, and its encrypted vault key
  key,        \* the vault key the client has in hand
  session,    \* the session the attempt gave its terminal
  outcome,    \* how the attempt ended
  tokenFile   \* the user of the token in this machine's token file

tables == <<users, vaults>>
client == <<input, key, session, tokenFile>>
vars == <<users, vaults, phase, input, found, reply, key, session, outcome,
          tokenFile>>

User == [login: Logins, password: Words]
Envelope == [key: Attempts, master: Words]
Input == [op: {"register", "login"}, terminal: Terminals, login: Logins,
          password: Words, master: Words]
Reply == [user: Attempts, vault: Envelope]
Session == [user: Attempts, key: Attempts]
Phases == {"idle", "insert", "vault", "commit", "find", "verify", "issue",
           "answered", "save", "done"}
Outcomes == {"none", "ok", "invalid", "exists", "credentials", "master",
             "error"}

TypeOK ==
  /\ users \in [Attempts -> User \cup {None}]
  /\ vaults \in [Attempts -> Envelope \cup {None}]
  /\ phase \in [Attempts -> Phases]
  /\ input \in [Attempts -> Input \cup {None}]
  /\ found \in [Attempts -> Attempts \cup {None}]
  /\ reply \in [Attempts -> Reply \cup {None}]
  /\ key \in [Attempts -> Attempts \cup {None}]
  /\ session \in [Attempts -> Session \cup {None}]
  /\ outcome \in [Attempts -> Outcomes]
  /\ tokenFile \in Attempts \cup {None}

NoneOf == [a \in Attempts |-> None]

Init ==
  /\ users = NoneOf
  /\ vaults = NoneOf
  /\ phase = [a \in Attempts |-> "idle"]
  /\ input = NoneOf
  /\ found = NoneOf
  /\ reply = NoneOf
  /\ key = NoneOf
  /\ session = NoneOf
  /\ outcome = [a \in Attempts |-> "none"]
  /\ tokenFile = None

Goto(a, ph) ==
  /\ phase' = [phase EXCEPT ![a] = ph]
  /\ UNCHANGED outcome

End(a, out) ==
  /\ phase' = [phase EXCEPT ![a] = "done"]
  /\ outcome' = [outcome EXCEPT ![a] = out]

----------------------------------------------------------------------------
(* The terminal                                                            *)

(* validateDifferentPasswords: the command line client's check.            *)
PasswordsAccepted(terminal, password, master) ==
  terminal = "cli" => password # master

(* strings.TrimSpace(login) == "" is refused, by the client and again by   *)
(* the handler.                                                            *)
LoginGiven(name) == TrimSpace[name] # None

(* The prompt or the form is filled in; register makes a new vault key.    *)
Begin(a) ==
  /\ phase[a] = "idle"
  /\ \E op \in {"register", "login"}, t \in Terminals, name \in Typed,
        p, m \in Words :
       /\ PasswordsAccepted(t, p, m)
       /\ LoginGiven(name)
       /\ input' = [input EXCEPT ![a] =
            [op |-> op, terminal |-> t, login |-> TrimSpace[name],
             password |-> p, master |-> m]]
       /\ key' = [key EXCEPT ![a] = IF op = "register" THEN a ELSE None]
       /\ Goto(a, IF op = "register" THEN "insert" ELSE "find")
  /\ UNCHANGED <<tables, found, reply, session, tokenFile>>

(* An empty login or password, two passwords that are the same: refused by *)
(* the client before the server is called.                                 *)
Refuse(a) ==
  /\ phase[a] = "idle"
  /\ End(a, "invalid")
  /\ UNCHANGED <<tables, client, found, reply>>

----------------------------------------------------------------------------
(* The server                                                              *)

InTransaction_NoRollback(a) ==
  \/ phase[a] \in {"vault", "commit"}
  \/ outcome[a] = "error" /\ key[a] = a /\ users[a] = None

(* The user row is inserted and its transaction has not ended.             *)
InTransaction(a) == phase[a] \in {"vault", "commit"}

Committed(login) ==
  {u \in Attempts : users[u] # None /\ users[u].login = login}

HoldsLogin(a, login) == InTransaction(a) /\ input[a].login = login

InsertVerdict_RaceLost(a) ==
  IF Committed(input[a].login) # {} THEN "exists" ELSE "insert"

(* INSERT ... ON CONFLICT (login) DO NOTHING waits for the transaction     *)
(* that has inserted the same login, then inserts nothing if it committed. *)
InsertVerdict(a) ==
  IF \E b \in Attempts : HoldsLogin(b, input[a].login) THEN "wait"
  ELSE IF Committed(input[a].login) # {}               THEN "exists"
  ELSE "insert"

InsertUser(a) ==
  /\ phase[a] = "insert"
  /\ \/ InsertVerdict(a) = "insert" /\ Goto(a, "vault")
     \/ InsertVerdict(a) = "exists" /\ End(a, "exists")
  /\ UNCHANGED <<tables, client, found, reply>>

InsertVault(a) ==
  /\ phase[a] = "vault"
  /\ Goto(a, "commit")
  /\ UNCHANGED <<tables, client, found, reply>>

NewUser(a) == [login |-> input[a].login, password |-> input[a].password]

NewEnvelope(a) == [key |-> key[a], master |-> input[a].master]

Commit_UserOnly(a) ==
  /\ phase[a] = "commit"
  /\ users' = [users EXCEPT ![a] = NewUser(a)]
  /\ \/ vaults' = [vaults EXCEPT ![a] = NewEnvelope(a)] /\ Goto(a, "issue")
     \/ UNCHANGED vaults /\ End(a, "error")
  /\ found' = [found EXCEPT ![a] = a]
  /\ UNCHANGED <<client, reply>>

(* Both rows become visible; the answer to COMMIT may be lost.             *)
Commit(a) ==
  /\ phase[a] = "commit"
  /\ users' = [users EXCEPT ![a] = NewUser(a)]
  /\ vaults' = [vaults EXCEPT ![a] = NewEnvelope(a)]
  /\ Goto(a, "issue") \/ End(a, "error")
  /\ found' = [found EXCEPT ![a] = a]
  /\ UNCHANGED <<client, reply>>

(* users JOIN user_vaults: one statement, one snapshot.                    *)
FindUser(a) ==
  /\ phase[a] = "find"
  /\ \/ \E u \in Committed(input[a].login) :
          /\ vaults[u] # None
          /\ found' = [found EXCEPT ![a] = u]
          /\ Goto(a, "verify")
     \/ /\ Committed(input[a].login) = {}
        /\ End(a, "credentials")
        /\ UNCHANGED found
  /\ UNCHANGED <<tables, client, reply>>

PasswordVerdict_Master(a) ==
  IF users[found[a]].password = input[a].master THEN "issue" ELSE "credentials"

PasswordVerdict(a) ==
  IF users[found[a]].password = input[a].password
  THEN "issue" ELSE "credentials"

VerifyPassword(a) ==
  /\ phase[a] = "verify"
  /\ IF PasswordVerdict(a) = "issue" THEN Goto(a, "issue")
                                     ELSE End(a, "credentials")
  /\ UNCHANGED <<tables, client, found, reply>>

(* Issue signs a token for the user; the handler answers.                  *)
Issue(a) ==
  /\ phase[a] = "issue"
  /\ reply' = [reply EXCEPT ![a] =
       [user |-> found[a], vault |-> vaults[found[a]]]]
  /\ Goto(a, "answered")
  /\ UNCHANGED <<tables, client, found>>

(* A statement, or Issue, fails; the server or the connection goes down;   *)
(* the answer is lost.  An open transaction is rolled back.                *)
Fail(a) ==
  /\ phase[a] \notin {"idle", "save", "done"}
  /\ End(a, "error")
  /\ UNCHANGED <<tables, client, found, reply>>

----------------------------------------------------------------------------
(* The client core                                                         *)

DecryptedKey_Unchecked(a) == reply[a].vault.key

(* vaultkey.Decrypt authenticates: another master password gives no key.   *)
DecryptedKey(a) ==
  IF reply[a].vault.master = input[a].master THEN reply[a].vault.key ELSE None

(* Register keeps the key it generated; Login opens the one it was sent.   *)
OpenVaultKey(a) ==
  /\ phase[a] = "answered"
  /\ IF input[a].op = "register"
     THEN UNCHANGED key /\ Goto(a, "save")
     ELSE /\ key' = [key EXCEPT ![a] = DecryptedKey(a)]
          /\ IF DecryptedKey(a) = None THEN End(a, "master")
                                       ELSE Goto(a, "save")
  /\ UNCHANGED <<tables, input, found, reply, session, tokenFile>>

(* The session is returned only when the token file has been replaced.     *)
SaveToken(a) ==
  /\ phase[a] = "save"
  /\ \/ /\ tokenFile' = reply[a].user
        /\ session' = [session EXCEPT ![a] =
             [user |-> reply[a].user, key |-> key[a]]]
        /\ End(a, "ok")
     \/ /\ UNCHANGED <<tokenFile, session>>
        /\ End(a, "error")
  /\ UNCHANGED <<tables, input, found, reply, key>>

Serve(a) ==
  \/ InsertUser(a) \/ InsertVault(a)    \/ Commit(a)
  \/ FindUser(a)   \/ VerifyPassword(a) \/ Issue(a)
  \/ OpenVaultKey(a) \/ SaveToken(a)

Next ==
  \E a \in Attempts : Begin(a) \/ Refuse(a) \/ Serve(a) \/ Fail(a)

Spec == Init /\ [][Next]_vars

(* What was begun goes on: handlers and clients run to their end.          *)
Fairness == \A a \in Attempts : WF_vars(Serve(a))

FairSpec == Spec /\ Fairness

----------------------------------------------------------------------------
(* Properties                                                              *)

(* Whatever registrations raced, failed or lost their answer: a login      *)
(* names one user, and a user never exists without its vault key or the    *)
(* key without its user (postgres_repository.go CreateUserWithVault).      *)
AccountsAreWhole ==
  /\ \A u, v \in Attempts :
       users[u] # None /\ users[v] # None /\ users[u].login = users[v].login
         => u = v
  /\ \A u \in Attempts : (users[u] = None) = (vaults[u] = None)

(* "Login already exists" is said only when another registration's user is *)
(* there, and the attempt that is told so has left nothing itself.         *)
LoserLeavesNothing ==
  \A a \in Attempts : outcome[a] = "exists" =>
    /\ users[a] = None
    /\ \E u \in Attempts \ {a} :
         users[u] # None /\ users[u].login = input[a].login

(* A registration stores an account or nothing, and a login that is taken  *)
(* is taken once.                                                          *)
AccountsAreAllOrNothing == AccountsAreWhole /\ LoserLeavesNothing

(* The vault key a session encrypts with is the one the server will hand   *)
(* to the next login of that user, and that login's master password opens: *)
(* nothing is ever encrypted with a key that was not stored.               *)
SessionKeyIsStored ==
  \A a \in Attempts : session[a] # None =>
    /\ users[session[a].user] # None
    /\ vaults[session[a].user] = [key |-> session[a].key,
                                  master |-> input[a].master]

(* Credentials are refused only if, at that moment, no user has them: one  *)
(* who was told that registration failed may have an account, and logs in  *)
(* to it with the words of that attempt.                                   *)
RefusalIsRight ==
  [][\A a \in Attempts :
       outcome'[a] = "credentials" /\ outcome[a] # "credentials" =>
         ~ \E u \in Attempts :
             users[u] = [login |-> input[a].login,
                         password |-> input[a].password]]_vars

(* A login that the server accepted but whose master password is wrong, or *)
(* whose token could not be saved, leaves the token file as it was: the    *)
(* file names a user whose vault was opened here.                          *)
TokenFileHasSession ==
  tokenFile # None => \E a \in Attempts :
    session[a] # None /\ session[a].user = tokenFile

(* What a terminal keeps, the session and the token file, is of an account *)
(* the server has, whatever failed on the way.                             *)
SessionsAreOfAccounts == SessionKeyIsStored /\ TokenFileHasSession

(* Every attempt ends, however many others want the same login.            *)
AttemptsEnd == \A a \in Attempts : phase[a] # "idle" ~> phase[a] = "done"

----------------------------------------------------------------------------
(* Accounts, as this module implements them                                *)

AccountOf(l) ==
  IF Committed(l) = {} THEN None
  ELSE LET u == CHOOSE v \in Committed(l) : TRUE IN
       [user |-> u, password |-> users[u].password, key |-> vaults[u].key,
        master |-> vaults[u].master]

account == [l \in Logins |-> AccountOf(l)]

A == INSTANCE Accounts

(* Registration and login implement Accounts.                              *)
ImplementsAccounts == A!Spec

=============================================================================
