---------------------------- MODULE ServerProofs ----------------------------
(***************************************************************************)
(* Proofs about the server process and its tokens: Access and Lifecycle,   *)
(* one section each.                                                       *)
(***************************************************************************)
EXTENDS MCServer, TLAPS

----------------------------------------------------------------------------
(* Access, for any lifetime, any precision of the clock and any number of  *)
(* calls: who a call runs for, and how exact the expiry is that the owner  *)
(* of a token was told.                                                    *)

(* NumericDate takes less than a second off, and nothing before 0.         *)
LEMMA NumericDateTruncates ==
  ASSUME NEW t \in Nat
  PROVE  /\ NumericDate(t) \in Nat
         /\ NumericDate(t) <= t
         /\ t < NumericDate(t) + TicksPerSecond
<1> DEFINE k == TicksPerSecond
           q == t \div k
           r == t % k
<1>1. k \in Nat \ {0}
  BY AccessAssumption
<1>2. q \in Nat /\ r \in 0 .. k - 1 /\ t = k * q + r
  BY <1>1
<1>3. q * k = k * q /\ q * k \in Nat
  BY <1>1, <1>2
<1> QED
  BY <1>1, <1>2, <1>3 DEF NumericDate

(* A token says less than the second it was truncated by.                  *)
TokensTruncated ==
  \A t \in tokens : t.exp <= t.told /\ t.told < t.exp + TicksPerSecond

(* RunsForTokenOwner and AcceptedUntilLastSecond are inductive next to     *)
(* what Issue makes of every token.                                        *)
IInv ==
  /\ TypeOK
  /\ TokensTruncated
  /\ RunsForTokenOwner
  /\ AcceptedUntilLastSecond

LEMMA InitInv == Init => IInv
BY AccessAssumption
DEF Init, IInv, TypeOK, Token, TokensTruncated, RunsForTokenOwner,
    AcceptedUntilLastSecond

LEMMA IssueInv ==
  ASSUME IInv, NEW u \in Users, Issue(u)
  PROVE  IInv'
<1> DEFINE t == [user |-> u, secret |-> secret,
                 exp |-> NumericDate(clock + TTL), told |-> clock + TTL]
<1>1. clock + TTL \in Nat
  BY AccessAssumption DEF IInv, TypeOK
<1>2. /\ t \in Token
      /\ t.exp <= t.told
      /\ t.told < t.exp + TicksPerSecond
  BY <1>1, NumericDateTruncates DEF IInv, TypeOK, Token
<1>3. tokens' = tokens \cup {t}
  BY DEF Issue
<1> HIDE DEF t
<1>4. TypeOK'
  BY <1>2, <1>3 DEF IInv, TypeOK, Issue
<1>5. TokensTruncated'
  BY <1>2, <1>3 DEF IInv, TokensTruncated
<1>6. RunsForTokenOwner'
  BY <1>3 DEF IInv, RunsForTokenOwner, Issue
<1>7. AcceptedUntilLastSecond'
  BY DEF IInv, AcceptedUntilLastSecond, Issue
<1> QED
  BY <1>4, <1>5, <1>6, <1>7 DEF IInv

LEMMA InterceptInv ==
  ASSUME IInv, NEW c \in Calls, Intercept(c)
  PROVE  IInv'
<1>1. PICK t \in tokens \cup {None} :
        IF Valid(t)
        THEN Accept(c, t)
        ELSE /\ phase' = [phase EXCEPT ![c] = "refused"]
             /\ bearer' = [bearer EXCEPT ![c] = t]
             /\ UNCHANGED caller
  BY DEF Intercept
<1>2. UNCHANGED <<clock, secret, tokens>>
  BY DEF Intercept
<1>3. TokensTruncated'
  BY <1>2 DEF IInv, TokensTruncated
<1>4. CASE Valid(t)
  <2>1. t \in tokens /\ t \in Token /\ t.secret = secret
    BY <1>4 DEF Valid, IInv, TypeOK
  <2>2. TypeOK'
    BY <1>1, <1>2, <1>4, <2>1 DEF IInv, TypeOK, Token, Accept
  <2>3. RunsForTokenOwner'
    BY <1>1, <1>2, <1>4, <2>1 DEF IInv, TypeOK, RunsForTokenOwner, Accept
  <2>4. AcceptedUntilLastSecond'
    BY <1>1, <1>2, <1>4
    DEF IInv, TypeOK, AcceptedUntilLastSecond, Accept
  <2> QED
    BY <1>3, <2>2, <2>3, <2>4 DEF IInv
<1>5. CASE ~ Valid(t)
  <2>1. t \in Token \cup {None}
    BY DEF IInv, TypeOK
  <2>2. TypeOK'
    BY <1>1, <1>2, <1>5, <2>1 DEF IInv, TypeOK
  <2>3. RunsForTokenOwner'
    BY <1>1, <1>2, <1>5 DEF IInv, TypeOK, RunsForTokenOwner
  <2>4. t # None /\ t.secret = secret =>
          clock + TicksPerSecond > t.told
    <3> SUFFICES ASSUME t # None, t.secret = secret
                 PROVE  clock + TicksPerSecond > t.told
      OBVIOUS
    <3>1. t \in tokens /\ t \in Token /\ clock >= t.exp
      BY <1>5, <2>1 DEF Valid, Token, IInv, TypeOK
    <3>2. t.told < t.exp + TicksPerSecond
      BY <3>1 DEF IInv, TokensTruncated
    <3> QED
      BY <3>1, <3>2, AccessAssumption DEF IInv, TypeOK, Token
  <2>5. AcceptedUntilLastSecond'
    BY <1>1, <1>2, <1>5, <2>4 DEF IInv, TypeOK, AcceptedUntilLastSecond
  <2> QED
    BY <1>3, <2>2, <2>3, <2>5 DEF IInv
<1> QED
  BY <1>4, <1>5

LEMMA FinishInv ==
  ASSUME IInv, NEW c \in Calls, Finish(c)
  PROVE  IInv'
BY DEF IInv, TypeOK, TokensTruncated, RunsForTokenOwner,
       AcceptedUntilLastSecond, Finish

LEMMA RestartInv == IInv /\ Restart => IInv'
BY DEF IInv, TypeOK, TokensTruncated, RunsForTokenOwner,
       AcceptedUntilLastSecond, Restart

LEMMA TickInv == IInv /\ Tick => IInv'
<1> SUFFICES ASSUME IInv, Tick PROVE IInv'
  OBVIOUS
<1>1. clock' = clock + 1 /\ clock < MaxTime
  BY DEF Tick
<1>2. UNCHANGED <<secret, tokens, phase, bearer, caller>>
  BY DEF Tick
<1>3. TypeOK'
  BY <1>1, <1>2, AccessAssumption DEF IInv, TypeOK
<1>4. TokensTruncated' /\ RunsForTokenOwner'
  BY <1>2 DEF IInv, TokensTruncated, RunsForTokenOwner
<1>5. AcceptedUntilLastSecond'
  <2> SUFFICES ASSUME NEW c \in Calls, phase[c] = "refused",
                      bearer[c] # None, bearer[c].secret = secret
               PROVE  clock' + TicksPerSecond > bearer[c].told
    BY <1>2 DEF AcceptedUntilLastSecond
  <2>1. clock + TicksPerSecond > bearer[c].told
    BY DEF IInv, AcceptedUntilLastSecond
  <2>2. bearer[c].told \in Nat /\ clock \in Nat
    BY AccessAssumption DEF IInv, TypeOK, Token
  <2> QED
    BY <1>1, <2>1, <2>2, AccessAssumption
<1> QED
  BY <1>3, <1>4, <1>5 DEF IInv

LEMMA StepInv == IInv /\ [Next]_vars => IInv'
<1> SUFFICES ASSUME IInv, [Next]_vars PROVE IInv'
  OBVIOUS
<1>1. CASE \E u \in Users : Issue(u)
  BY <1>1, IssueInv
<1>2. CASE \E c \in Calls : Intercept(c) \/ Finish(c)
  BY <1>2, InterceptInv, FinishInv
<1>3. CASE Restart
  BY <1>3, RestartInv
<1>4. CASE Tick
  BY <1>4, TickInv
<1>5. CASE UNCHANGED vars
  BY <1>5 DEF vars, IInv, TypeOK, TokensTruncated, RunsForTokenOwner,
              AcceptedUntilLastSecond
<1> QED
  BY <1>1, <1>2, <1>3, <1>4, <1>5 DEF Next

LEMMA InvHolds == Spec => []IInv
BY InitInv, StepInv, PTL DEF Spec

(* The variables keep their types (auth_interceptor.go, token.go).         *)
THEOREM TypeCorrect == Spec => []TypeOK
<1>1. IInv => TypeOK
  BY DEF IInv
<1> QED
  BY <1>1, InvHolds, PTL

(* A call that runs, however long, runs as the user its token was issued   *)
(* to by this process's secret (auth_interceptor.go Unary and Stream).     *)
THEOREM CallsRunForTokenOwner == Spec => []RunsForTokenOwner
<1>1. IInv => RunsForTokenOwner
  BY DEF IInv
<1> QED
  BY <1>1, InvHolds, PTL

(* Truncating the expiry to a second costs a token less than a second of   *)
(* the lifetime its owner was told (token.go Issue, Validate).             *)
THEOREM TokensLastToTheirLastSecond == Spec => []AcceptedUntilLastSecond
<1>1. IInv => AcceptedUntilLastSecond
  BY DEF IInv
<1> QED
  BY <1>1, InvHolds, PTL

(* And never gains it any: a call that starts to run carries a token whose *)
(* told expiry is ahead (token.go Validate).                               *)
THEOREM ExpiredTokensAreRefused == Spec => NoEntryAfterExpiry
<1> DEFINE InTime == \A c \in Calls :
             phase[c] # "running" /\ phase'[c] = "running" =>
               clock < bearer'[c].told
<1>1. IInv /\ [Next]_vars => [InTime]_vars
  <2> SUFFICES ASSUME IInv, [Next]_vars PROVE [InTime]_vars
    OBVIOUS
  <2>1. CASE \E c \in Calls : Intercept(c)
    <3>1. PICK d \in Calls : Intercept(d)
      BY <2>1
    <3>2. PICK t \in tokens \cup {None} :
            IF Valid(t)
            THEN Accept(d, t)
            ELSE /\ phase' = [phase EXCEPT ![d] = "refused"]
                 /\ bearer' = [bearer EXCEPT ![d] = t]
                 /\ UNCHANGED caller
      BY <3>1 DEF Intercept
    <3>3. CASE Valid(t)
      <4>1. t \in tokens /\ t \in Token /\ clock < t.exp
        BY <3>3 DEF Valid, IInv, TypeOK
      <4>2. clock < t.told
        BY <4>1, AccessAssumption DEF IInv, TypeOK, TokensTruncated, Token
      <4>3. \A c \in Calls :
              phase[c] # "running" /\ phase'[c] = "running" =>
                c = d /\ bearer'[c] = t
        BY <3>2, <3>3 DEF Accept, IInv, TypeOK
      <4> QED
        BY <4>2, <4>3
    <3>4. CASE ~ Valid(t)
      BY <3>2, <3>4 DEF IInv, TypeOK
    <3> QED
      BY <3>3, <3>4
  <2>2. CASE ~ \E c \in Calls : Intercept(c)
    <3>1. \A c \in Calls : phase'[c] = "running" => phase[c] = "running"
      BY <2>2 DEF Next, Issue, Finish, Restart, Tick, vars, IInv, TypeOK
    <3> QED
      BY <3>1
  <2> QED
    BY <2>1, <2>2
<1> QED
  BY <1>1, InvHolds, PTL DEF Spec, NoEntryAfterExpiry

(* A token is good for the lifetime its owner was told, to the second      *)
(* (token.go Issue, Validate).                                             *)
THEOREM LifetimesAreAsTold == Spec => TokensLastAsTold
BY TokensLastToTheirLastSecond, ExpiredTokensAreRefused, PTL
DEF TokensLastAsTold

----------------------------------------------------------------------------
(* Lifecycle, for any number of calls: whatever signal, failure or order   *)
(* of its goroutines ends it, the process ends in order.                   *)

(* What is open, and which goroutine runs, at each step of Run.            *)
OpenAt ==
  /\ main \in {"config", "database"} => database = "none"
  /\ main \in {"migrations", "bucket", "server", "select", "stopping"} =>
       database = "open"
  /\ main \in {"config", "database", "migrations", "bucket", "server"} =>
       serve = "none"
  /\ main = "exited" => database # "open"

(* Who closes the listener: Serve when it returns, Stop when it is served. *)
ListenerIs ==
  /\ serve = "none" => listener = "none"
  /\ serve = "returned" => listener = "closed"
  /\ serve = "serving" /\ quit => listener = "closed"
  /\ main \in {"returning", "exited"} /\ ~ quit =>
       serve \in {"none", "returned"}

(* Only a stopped server ends without an error, and only Stop stops it.    *)
AnswerIs ==
  /\ quit => main \in {"stopping", "returning", "exited"}
  /\ main = "stopping" => quit
  /\ errCh # "empty" => serve = "returned"
  /\ errCh \in {"nil", "stopped"} => quit
  /\ main \in {"returning", "exited"} => (result = "ok" <=> quit)

(* No call is answered with the error of a closed pool before Run returns, *)
(* and none at all once the server was stopped.                            *)
CallsEnd ==
  \A c \in Calls :
    /\ serve = "none" => calls[c] = "none"
    /\ main \notin {"returning", "exited"} => calls[c] # "broken"
    /\ quit /\ main \in {"returning", "exited"} =>
         calls[c] \in {"none", "done"}

ProcessInv ==
  Process!TypeOK /\ OpenAt /\ ListenerIs /\ AnswerIs /\ CallsEnd

LEMMA InitProcess == Process!Init => ProcessInv
BY DEF Process!Init, Process!TypeOK, Process!Steps, ProcessInv, OpenAt,
       ListenerIs, AnswerIs, CallsEnd

LEMMA RunInv ==
  ASSUME ProcessInv, Process!RunStep
  PROVE  ProcessInv'
<1> USE DEF ProcessInv, Process!TypeOK, Process!Steps, OpenAt, ListenerIs,
            AnswerIs, Process!Return
<1>1. CASE Process!FailStart
  BY <1>1 DEF Process!FailStart, CallsEnd
<1>2. CASE Process!LoadConfig
  BY <1>2 DEF Process!LoadConfig, CallsEnd
<1>3. CASE Process!OpenDatabase
  BY <1>3 DEF Process!OpenDatabase, CallsEnd
<1>4. CASE Process!Prepare
  BY <1>4 DEF Process!Prepare, CallsEnd
<1>5. CASE Process!NewServer
  BY <1>5 DEF Process!NewServer, CallsEnd
<1>6. CASE Process!Stop
  BY <1>6 DEF Process!Stop, CallsEnd
<1>7. CASE Process!Stopped
  BY <1>7 DEF Process!Stopped, CallsEnd
<1>8. CASE Process!Served
  BY <1>8 DEF Process!Served, CallsEnd
<1>9. CASE Process!CloseDatabase
  BY <1>9 DEF Process!CloseDatabase, CallsEnd
<1>10. CASE Process!Exit
  BY <1>10 DEF Process!Exit, CallsEnd
<1> QED
  BY <1>1, <1>2, <1>3, <1>4, <1>5, <1>6, <1>7, <1>8, <1>9, <1>10
  DEF Process!RunStep

LEMMA ServeInv ==
  ASSUME ProcessInv,
         Process!BeginServe \/ Process!FailServe \/ Process!EndServe
  PROVE  ProcessInv'
<1> USE DEF ProcessInv, Process!TypeOK, Process!Steps, OpenAt, ListenerIs,
            AnswerIs, CallsEnd, Process!Alive
<1>1. CASE Process!BeginServe
  BY <1>1 DEF Process!BeginServe
<1>2. CASE Process!FailServe
  BY <1>2 DEF Process!FailServe
<1>3. CASE Process!EndServe
  BY <1>3 DEF Process!EndServe
<1> QED
  BY <1>1, <1>2, <1>3

LEMMA CallInv ==
  ASSUME ProcessInv, NEW c \in Calls,
         Process!Accept(c) \/ Process!Finish(c)
  PROVE  ProcessInv'
<1>1. UNCHANGED <<main, signalled, database, listener, serve, errCh, quit,
                  result>>
  BY DEF Process!Accept, Process!Finish
<1>2. /\ OpenAt' /\ ListenerIs' /\ AnswerIs'
  BY <1>1 DEF ProcessInv, OpenAt, ListenerIs, AnswerIs
<1>3. Process!TypeOK'
  BY <1>1 DEF ProcessInv, Process!TypeOK, Process!Accept, Process!Finish
<1>4. CASE Process!Accept(c)
  BY <1>1, <1>4 DEF ProcessInv, Process!TypeOK, CallsEnd, ListenerIs,
                    OpenAt, AnswerIs, Process!Accept, Process!Alive
<1>5. CASE Process!Finish(c)
  <2>1. calls[c] = "running"
    BY <1>5 DEF Process!Finish
  <2>2. ~ (quit /\ main \in {"returning", "exited"})
    BY <2>1 DEF ProcessInv, CallsEnd
  <2>3. main \notin {"returning", "exited"} => database = "open"
    BY <2>1 DEF ProcessInv, CallsEnd, OpenAt, Process!TypeOK, Process!Steps
  <2>4. CallsEnd'
    BY <1>1, <1>5, <2>2, <2>3
    DEF ProcessInv, Process!TypeOK, CallsEnd, Process!Finish
  <2> QED
    BY <1>2, <1>3, <2>4 DEF ProcessInv
<1> QED
  BY <1>2, <1>3, <1>4, <1>5 DEF ProcessInv

LEMMA ProcessStep == ProcessInv /\ [Process!Next]_Process!vars => ProcessInv'
<1> SUFFICES ASSUME ProcessInv, [Process!Next]_Process!vars
             PROVE  ProcessInv'
  OBVIOUS
<1>1. CASE Process!Signal
  BY <1>1 DEF Process!Signal, ProcessInv, Process!TypeOK, OpenAt, ListenerIs,
              AnswerIs, CallsEnd
<1>2. CASE UNCHANGED Process!vars
  BY <1>2 DEF Process!vars, ProcessInv, Process!TypeOK, OpenAt, ListenerIs,
              AnswerIs, CallsEnd
<1> QED
  BY <1>1, <1>2, RunInv, ServeInv, CallInv DEF Process!Next

LEMMA ProcessHolds == Process!Spec => []ProcessInv
BY InitProcess, ProcessStep, PTL DEF Process!Spec

(* The variables keep their types; nothing listens before there is a       *)
(* database, and nothing serves before there is a listener (app.go Run).   *)
THEOREM ProcessTypeCorrect == Process!Spec => []Process!TypeOK
<1>1. ProcessInv => Process!TypeOK
  BY DEF ProcessInv
<1> QED
  BY <1>1, ProcessHolds, PTL

(* After a signal every call that was accepted is answered before Run      *)
(* returns; the pool and the listener are released, and the error of a     *)
(* server that failed is never taken for a stop (app.go Run, server.go).   *)
THEOREM ProcessEndsInOrder == Process!Spec => []EndsInOrder
<1>1. ProcessInv => EndsInOrder
  <2> SUFFICES ASSUME ProcessInv PROVE Process!EndsInOrder
    BY DEF EndsInOrder
  <2>1. Process!SignalCutsNothing
    BY DEF ProcessInv, CallsEnd, Process!SignalCutsNothing
  <2>2. Process!ReleasedAtExit
    BY DEF ProcessInv, Process!TypeOK, OpenAt, ListenerIs,
           Process!ReleasedAtExit
  <2>3. Process!ErrorIsReported
    BY DEF ProcessInv, AnswerIs, Process!ErrorIsReported
  <2> QED
    BY <2>1, <2>2, <2>3 DEF Process!EndsInOrder
<1> QED
  BY <1>1, ProcessHolds, PTL

=============================================================================
