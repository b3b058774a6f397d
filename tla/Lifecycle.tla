------------------------------ MODULE Lifecycle ------------------------------
(***************************************************************************)
(* The server process from main to its exit: app.Run opens the resources   *)
(* in order, starts the gRPC server in a goroutine and waits for a signal  *)
(* or for that goroutine; its deferred calls then release the resources in *)
(* the opposite order.  RPC handlers run in goroutines of the gRPC server, *)
(* and use the database while they run.                                    *)
(*                                                                         *)
(* The gRPC server itself is external: Serve accepts calls until it fails  *)
(* or is stopped; GracefulStop closes the listener and waits for the calls *)
(* that run.                                                               *)
(***************************************************************************)
CONSTANTS Calls  \* RPCs that clients make

VARIABLES
  main,       \* where Run is
  signalled,  \* SIGINT or SIGTERM came: the context is done
  database,   \* the connection pool
  listener,   \* the TCP listener
  serve,      \* the goroutine that runs Start
  errCh,      \* the buffered channel it answers on
  quit,       \* GracefulStop was called
  calls,      \* the RPCs
  result      \* what Run returned

vars == <<main, signalled, database, listener, serve, errCh, quit, calls,
          result>>

Steps == {"config", "database", "migrations", "bucket", "server", "select",
          "stopping", "returning", "exited"}

TypeOK ==
  /\ main \in Steps
  /\ signalled \in BOOLEAN
  /\ database \in {"none", "open", "closed"}
  /\ listener \in {"none", "open", "closed"}
  /\ serve \in {"none", "starting", "serving", "returned"}
  /\ errCh \in {"empty", "nil", "stopped", "error"}
  /\ quit \in BOOLEAN
  /\ calls \in [Calls -> {"none", "running", "done", "broken"}]
  /\ result \in {"none", "ok", "error"}
  /\ listener # "none" => database # "none"
  /\ serve # "none" => listener # "none"

Init ==
  /\ main = "config"
  /\ signalled = FALSE
  /\ database = "none"
  /\ listener = "none"
  /\ serve = "none"
  /\ errCh = "empty"
  /\ quit = FALSE
  /\ calls = [c \in Calls |-> "none"]
  /\ result = "none"

----------------------------------------------------------------------------
(* Run                                                                     *)

(* A signal only makes the context done; later ones do nothing more.       *)
Signal ==
  /\ ~ signalled
  /\ main # "exited"
  /\ signalled' = TRUE
  /\ UNCHANGED <<main, database, listener, serve, errCh, quit, calls, result>>

Return(r) ==
  /\ main' = "returning"
  /\ result' = r

(* A step of the start fails, or finds its context done: what is open is   *)
(* released.  New closes its listener itself.                              *)
FailStart ==
  /\ main \in {"config", "database", "migrations", "bucket", "server"}
  /\ Return("error")
  /\ UNCHANGED <<signalled, database, listener, serve, errCh, quit, calls>>

(* config.Load and logger.New.                                             *)
LoadConfig ==
  /\ main = "config"
  /\ main' = "database"
  /\ UNCHANGED <<signalled, database, listener, serve, errCh, quit, calls,
                 result>>

(* database.Open and its ping, under the context.                          *)
OpenDatabase ==
  /\ main = "database"
  /\ ~ signalled
  /\ database' = "open"
  /\ main' = "migrations"
  /\ UNCHANGED <<signalled, listener, serve, errCh, quit, calls, result>>

(* migrations.Up, then EnsureBucket: under the context, unless switched    *)
(* off in the configuration.                                               *)
Prepare ==
  /\ main \in {"migrations", "bucket"}
  /\ main' = IF main = "migrations" THEN "bucket" ELSE "server"
  /\ UNCHANGED <<signalled, database, listener, serve, errCh, quit, calls,
                 result>>

(* grpcserver.New listens; the goroutine is started.                       *)
NewServer ==
  /\ main = "server"
  /\ listener' = "open"
  /\ serve' = "starting"
  /\ main' = "select"
  /\ UNCHANGED <<signalled, database, errCh, quit, calls, result>>

Stop_Abruptly ==
  /\ main = "select"
  /\ signalled
  /\ quit' = TRUE
  /\ listener' = IF serve = "serving" THEN "closed" ELSE listener
  /\ Return("ok")
  /\ UNCHANGED <<signalled, database, serve, errCh, calls>>

(* The context is done: GracefulStop closes the listener it serves ...     *)
Stop ==
  /\ main = "select"
  /\ signalled
  /\ quit' = TRUE
  /\ listener' = IF serve = "serving" THEN "closed" ELSE listener
  /\ main' = "stopping"
  /\ UNCHANGED <<signalled, database, serve, errCh, calls, result>>

Stopped_WaitsForAll ==
  /\ main = "stopping"
  /\ \A c \in Calls : calls[c] = "done"
  /\ Return("ok")
  /\ UNCHANGED <<signalled, database, listener, serve, errCh, quit, calls>>

(* ... and waits, without a limit, for the calls that run.                 *)
Stopped ==
  /\ main = "stopping"
  /\ \A c \in Calls : calls[c] # "running"
  /\ Return("ok")
  /\ UNCHANGED <<signalled, database, listener, serve, errCh, quit, calls>>

(* The goroutine has answered; with both ready, select takes either.       *)
Served ==
  /\ main = "select"
  /\ errCh # "empty"
  /\ errCh' = "empty"
  /\ Return(IF errCh = "error" THEN "error" ELSE "ok")
  /\ UNCHANGED <<signalled, database, listener, serve, quit, calls>>

(* The deferred db.Close, and the end of main.                             *)
CloseDatabase ==
  /\ main = "returning"
  /\ database = "open"
  /\ database' = "closed"
  /\ UNCHANGED <<main, signalled, listener, serve, errCh, quit, calls, result>>

Exit ==
  /\ main = "returning"
  /\ database # "open"
  /\ main' = "exited"
  /\ UNCHANGED <<signalled, database, listener, serve, errCh, quit, calls,
                 result>>

----------------------------------------------------------------------------
(* The gRPC server's goroutines; they end with the process                 *)

Alive == main # "exited"

(* Serve finds the server stopped already, and closes the listener.        *)
BeginServe ==
  /\ Alive
  /\ serve = "starting"
  /\ IF quit
     THEN serve' = "returned" /\ errCh' = "stopped" /\ listener' = "closed"
     ELSE serve' = "serving" /\ UNCHANGED <<errCh, listener>>
  /\ UNCHANGED <<main, signalled, database, quit, calls, result>>

(* Accept fails for good.  The calls that run go on.                       *)
FailServe ==
  /\ Alive
  /\ serve = "serving"
  /\ ~ quit
  /\ serve' = "returned"
  /\ errCh' = "error"
  /\ listener' = "closed"
  /\ UNCHANGED <<main, signalled, database, quit, calls, result>>

(* A stopped server: Serve returns nil when the calls are over.            *)
EndServe ==
  /\ Alive
  /\ serve = "serving"
  /\ quit
  /\ \A c \in Calls : calls[c] # "running"
  /\ serve' = "returned"
  /\ errCh' = "nil"
  /\ UNCHANGED <<main, signalled, database, listener, quit, calls, result>>

Accept(c) ==
  /\ Alive
  /\ serve = "serving"
  /\ ~ quit
  /\ calls[c] = "none"
  /\ calls' = [calls EXCEPT ![c] = "running"]
  /\ UNCHANGED <<main, signalled, database, listener, serve, errCh, quit,
                 result>>

(* The handler answers: as it should, or with the error of a closed pool.  *)
Finish(c) ==
  /\ Alive
  /\ calls[c] = "running"
  /\ calls' = [calls EXCEPT ![c] =
       IF database = "open" THEN "done" ELSE "broken"]
  /\ UNCHANGED <<main, signalled, database, listener, serve, errCh, quit,
                 result>>

----------------------------------------------------------------------------

RunStep ==
  \/ FailStart \/ LoadConfig \/ OpenDatabase \/ Prepare \/ NewServer
  \/ Stop \/ Stopped \/ Served \/ CloseDatabase \/ Exit

Next ==
  \/ Signal \/ RunStep
  \/ BeginServe \/ FailServe \/ EndServe
  \/ \E c \in Calls : Accept(c) \/ Finish(c)

Spec == Init /\ [][Next]_vars

(* main's goroutine is scheduled, and every call ends: its client sends    *)
(* what it has or closes the connection.  The server sets no deadline.     *)
Fairness ==
  /\ WF_vars(RunStep)
  /\ \A c \in Calls : WF_vars(Finish(c))

FairSpec == Spec /\ Fairness

----------------------------------------------------------------------------
(* Properties                                                              *)

(* After a signal no call is cut off: the database is not closed under a   *)
(* handler, nor does the process exit, while one runs, unless the server   *)
(* had failed before, which Run answers without stopping it.               *)
SignalCutsNothing ==
  (quit /\ main \in {"returning", "exited"}) =>
    \A c \in Calls : calls[c] \in {"none", "done"}

(* Whatever way Run returns, the pool it opened is closed before the exit, *)
(* and no listener is left but to a goroutine that has not served yet.     *)
ReleasedAtExit ==
  main = "exited" =>
    /\ database # "open"
    /\ listener = "open" => serve = "starting"

(* Run returns nil exactly when it has called Stop: neither a start that   *)
(* failed nor a server that failed by itself is taken for an orderly end,  *)
(* and a stop never for a failure.                                         *)
ErrorIsReported ==
  main = "exited" => (result = "ok" <=> quit)

(* The process ends in order: calls first, then what serves them, and its  *)
(* exit says how it went.                                                  *)
EndsInOrder == SignalCutsNothing /\ ReleasedAtExit /\ ErrorIsReported

(* Once signalled, the server exits.                                       *)
SignalStops == signalled ~> main = "exited"

=============================================================================
