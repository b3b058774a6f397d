------------------------------ MODULE MCServer ------------------------------
(* The server process and the tokens it issues and checks, in one run: the *)
(* two share no state, so that each is checked while the other rests.      *)
EXTENDS Access

VARIABLES
  part,                                        \* the one at work
  main, signalled, database, listener, serve,  \* of Lifecycle
  errCh, quit, calls, result

Process == INSTANCE Lifecycle

processVars ==
  <<main, signalled, database, listener, serve, errCh, quit, calls, result>>
allVars == <<part, vars, processVars>>

InitServer ==
  /\ part \in {"access", "process"}
  /\ Init /\ Process!Init
  /\ part # "access" => secret = CHOOSE s \in Secrets : TRUE

NextServer ==
  \/ /\ part = "access" /\ Next
     /\ UNCHANGED <<part, processVars>>
  \/ /\ part = "process" /\ Process!Next
     /\ UNCHANGED <<part, vars>>

SpecServer ==
  /\ InitServer /\ [][NextServer]_allVars
  /\ part = "process" => Process!Fairness

----------------------------------------------------------------------------
(* The properties of Lifecycle; those of Access are named in the           *)
(* configuration as they are.                                              *)

(* Module Lifecycle: after a signal no call is cut off, what was opened is *)
(* closed, and Run reports ok exactly when it was asked to stop.           *)
EndsInOrder == Process!EndsInOrder

(* Module Lifecycle: once signalled, the server exits.                     *)
SignalStops == Process!SignalStops

=============================================================================
