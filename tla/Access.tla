------------------------------- MODULE Access -------------------------------
(***************************************************************************)
(* Access tokens: token.go issues and validates them, the interceptors of  *)
(* the gRPC server ask for one on every method but Register and Login.     *)
(*                                                                         *)
(* A unary call is validated when it arrives and a stream when it opens;   *)
(* what follows runs as the user the token named, however long it takes.   *)
(* The server keeps no session: a token is a signature over a user and an  *)
(* expiry, made with the secret of the process that issued it.             *)
(*                                                                         *)
(* Time is counted in ticks; a JWT stores its expiry in whole seconds.     *)
(***************************************************************************)
EXTENDS Naturals, FiniteSets

CONSTANTS
  Users,           \* user ids
  Calls,           \* private calls, unary or streams
  Secrets,         \* values the JWT secret is configured with
  TicksPerSecond,  \* ticks to a second, the precision of a NumericDate
  TTL,             \* lifetime of a token, in ticks
  MaxTime,         \* bound: when the clock stops
  MaxTokens,       \* bound: how many tokens are issued
  None             \* no token, a token that does not parse

ASSUME AccessAssumption ==
  /\ TicksPerSecond \in Nat \ {0}
  /\ TTL \in Nat \ {0}
  /\ MaxTime \in Nat
  /\ None \notin Users
  /\ None \notin [user: Users, secret: Secrets, exp: Nat, told: Nat]

VARIABLES
  clock,   \* now
  secret,  \* the secret of the running server process
  tokens,  \* tokens that were issued
  phase,   \* where each call is
  bearer,  \* the token a call carries
  caller   \* the user id in the context of the call's handler

vars == <<clock, secret, tokens, phase, bearer, caller>>

Token == [user: Users, secret: Secrets, exp: Nat, told: Nat]

TypeOK ==
  /\ clock \in 0..MaxTime
  /\ secret \in Secrets
  /\ tokens \subseteq Token
  /\ phase \in [Calls -> {"idle", "running", "refused", "done"}]
  /\ bearer \in [Calls -> Token \cup {None}]
  /\ caller \in [Calls -> Users \cup {None}]

Init ==
  /\ clock = 0
  /\ secret \in Secrets
  /\ tokens = {}
  /\ phase = [c \in Calls |-> "idle"]
  /\ bearer = [c \in Calls |-> None]
  /\ caller = [c \in Calls |-> None]

(* jwt.NewNumericDate truncates to a second.                               *)
NumericDate(t) == (t \div TicksPerSecond) * TicksPerSecond

(* Issue, for a user that registered or logged in.  The answer tells the   *)
(* expiry that was computed, the token carries the one that was truncated. *)
Issue(u) ==
  /\ Cardinality(tokens) < MaxTokens
  /\ tokens' = tokens \cup
       {[user |-> u, secret |-> secret, exp |-> NumericDate(clock + TTL),
         told |-> clock + TTL]}
  /\ UNCHANGED <<clock, secret, phase, bearer, caller>>

Valid_AnySecret(t) == t # None /\ clock < t.exp

Valid_WithLeeway(t) ==
  t # None /\ t.secret = secret /\ clock < t.exp + TicksPerSecond

(* Validate: signed with this secret, not expired.  A secret that is empty *)
(* or a TTL that is not positive validates, and issues, nothing.           *)
Valid(t) == t # None /\ t.secret = secret /\ clock < t.exp

(* ContextWithUserID                                                       *)
Accept(c, t) ==
  /\ phase' = [phase EXCEPT ![c] = "running"]
  /\ bearer' = [bearer EXCEPT ![c] = t]
  /\ caller' = [caller EXCEPT ![c] = t.user]

(* AuthUnaryInterceptor and AuthStreamInterceptor                          *)
Intercept(c) ==
  /\ phase[c] = "idle"
  /\ \E t \in tokens \cup {None} :
       IF Valid(t)
       THEN Accept(c, t)
       ELSE /\ phase' = [phase EXCEPT ![c] = "refused"]
            /\ bearer' = [bearer EXCEPT ![c] = t]
            /\ UNCHANGED caller
  /\ UNCHANGED <<clock, secret, tokens>>

(* The handler answers, or the stream ends; the client may call again.     *)
Finish(c) ==
  /\ phase[c] \in {"running", "refused"}
  /\ phase' = [phase EXCEPT ![c] = "idle"]
  /\ bearer' = [bearer EXCEPT ![c] = None]
  /\ caller' = [caller EXCEPT ![c] = None]
  /\ UNCHANGED <<clock, secret, tokens>>

(* A new process, whose secret may have been configured anew: its calls    *)
(* are cut; tokens are not stored anywhere and none is forgotten.          *)
Restart ==
  /\ secret' \in Secrets
  /\ phase' = [c \in Calls |-> "idle"]
  /\ bearer' = [c \in Calls |-> None]
  /\ caller' = [c \in Calls |-> None]
  /\ UNCHANGED <<clock, tokens>>

Tick ==
  /\ clock < MaxTime
  /\ clock' = clock + 1
  /\ UNCHANGED <<secret, tokens, phase, bearer, caller>>

Next ==
  \/ \E u \in Users : Issue(u)
  \/ \E c \in Calls : Intercept(c) \/ Finish(c)
  \/ Restart
  \/ Tick

Spec == Init /\ [][Next]_vars

----------------------------------------------------------------------------
(* Properties                                                              *)

(* A running call, and in particular a stream that goes on after its token *)
(* expired, acts for the user a token of this very process was issued to.  *)
RunsForTokenOwner ==
  \A c \in Calls : phase[c] = "running" =>
    /\ bearer[c] \in tokens
    /\ bearer[c].user = caller[c]
    /\ bearer[c].secret = secret

(* Nobody is let in at or after the expiry they were told.                 *)
NoEntryAfterExpiry ==
  [][\A c \in Calls : phase[c] # "running" /\ phase'[c] = "running" =>
       clock < bearer'[c].told]_vars

(* A token of this process is not refused before the last second of the    *)
(* lifetime its owner was told, restarts with the same secret included.    *)
AcceptedUntilLastSecond ==
  \A c \in Calls : phase[c] = "refused" /\ bearer[c] # None =>
    \/ clock + TicksPerSecond > bearer[c].told
    \/ bearer[c].secret # secret

(* A token lets its owner in until the expiry that was told, give or take  *)
(* the second it is truncated to, and never from then on.                  *)
TokensLastAsTold == []AcceptedUntilLastSecond /\ NoEntryAfterExpiry

=============================================================================
