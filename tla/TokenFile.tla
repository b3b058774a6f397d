----------------------------- MODULE TokenFile -----------------------------
(***************************************************************************)
(* The token file of the clients (file_token_store.go): Save writes a      *)
(* temporary file beside it and renames it over the old one.               *)
(*                                                                         *)
(* Every process of the command line client and the terminal UI on the     *)
(* machine saves to the same path.  Each file operation is one action; it  *)
(* may fail, and a process may be killed between any two.                  *)
(***************************************************************************)
EXTENDS Naturals, FiniteSets

CONSTANTS
  Processes,  \* processes that save a token; each brings its own
  Path,       \* the token file
  NoFile        \* no such file

ASSUME TokenFileAssumption ==
  /\ Path \notin Processes
  /\ NoFile \notin Processes
  /\ NoFile \notin [token: Processes, whole: BOOLEAN, private: BOOLEAN]

VARIABLES
  files,   \* the directory: the token file, and a temporary per process
  phase,   \* where each Save is
  result   \* what each Save returned

fileVars == <<files, phase, result>>

(* CreateTemp picks a name no file has: temporaries are named by process.  *)
Names == Processes \cup {Path}

File == [token: Processes, whole: BOOLEAN, private: BOOLEAN]

TypeOKFile ==
  /\ files \in [Names -> File \cup {NoFile}]
  /\ phase \in [Processes -> {"idle", "create", "encode", "chmod", "close",
                              "rename", "remove", "done", "killed"}]
  /\ result \in [Processes -> {"none", "saved", "error"}]

InitFile ==
  /\ files = [n \in Names |-> NoFile]
  /\ phase = [p \in Processes |-> "idle"]
  /\ result = [p \in Processes |-> "none"]

Goto(p, ph) == phase' = [phase EXCEPT ![p] = ph]

Put(n, file) == files' = [files EXCEPT ![n] = file]

Return(p, res) == result' = [result EXCEPT ![p] = res]

(* The context is alive, the state and the path are valid, the directory   *)
(* is there or MkdirAll makes it; or Save returns before it made a file.   *)
Start(p) ==
  /\ phase[p] = "idle"
  /\ \/ Goto(p, "create") /\ UNCHANGED result
     \/ Goto(p, "done") /\ Return(p, "error")
  /\ UNCHANGED files

CreateTemp_InPlace(p) ==
  /\ phase[p] = "create"
  /\ Put(Path, [token |-> p, whole |-> FALSE, private |-> TRUE])
  /\ Goto(p, "encode")
  /\ UNCHANGED result

(* os.CreateTemp creates with mode 0600, which Chmod then states again.    *)
CreateTemp(p) ==
  /\ phase[p] = "create"
  /\ Put(p, [token |-> p, whole |-> FALSE, private |-> TRUE])
  /\ Goto(p, "encode")
  /\ UNCHANGED result

Encode(p) ==
  /\ phase[p] = "encode"
  /\ Put(p, [files[p] EXCEPT !.whole = TRUE])
  /\ Goto(p, "chmod")
  /\ UNCHANGED result

Chmod(p) ==
  /\ phase[p] = "chmod"
  /\ Put(p, [files[p] EXCEPT !.private = TRUE])
  /\ Goto(p, "close")
  /\ UNCHANGED result

Close(p) ==
  /\ phase[p] = "close"
  /\ Goto(p, "rename")
  /\ UNCHANGED <<files, result>>

(* rename(2) replaces the token file at once.                              *)
Rename(p) ==
  /\ phase[p] = "rename"
  /\ files' = [files EXCEPT ![Path] = files[p], ![p] = NoFile]
  /\ Goto(p, "remove")
  /\ Return(p, "saved")

(* A file operation fails, perhaps halfway; the deferred Remove is left.   *)
Fail(p) ==
  /\ phase[p] \in {"create", "encode", "chmod", "close", "rename"}
  /\ Goto(p, "remove")
  /\ Return(p, "error")
  /\ UNCHANGED files

(* The deferred Remove of the temporary, which Rename has moved away when  *)
(* it succeeded; its own error is ignored.                                 *)
Remove(p) ==
  /\ phase[p] = "remove"
  /\ Put(p, NoFile)
  /\ Goto(p, "done")
  /\ UNCHANGED result

Kill(p) ==
  /\ phase[p] \notin {"idle", "done", "killed"}
  /\ Goto(p, "killed")
  /\ UNCHANGED <<files, result>>

Save(p) ==
  \/ Start(p) \/ CreateTemp(p) \/ Encode(p) \/ Chmod(p)
  \/ Close(p) \/ Rename(p)     \/ Fail(p)   \/ Remove(p)

NextFile == \E p \in Processes : Save(p) \/ Kill(p)

SpecFile == InitFile /\ [][NextFile]_fileVars

----------------------------------------------------------------------------
(* Properties                                                              *)

(* At every moment, a crash at which included, the token file is one whole *)
(* token of one process and readable by its user alone: never a part of a  *)
(* token, or a mix of two.                                                 *)
TokenFileWhole ==
  files[Path] # NoFile => files[Path].whole /\ files[Path].private

Saved(p) == [token |-> p, whole |-> TRUE, private |-> TRUE]

(* The token file changes exactly when some Save succeeds, from one whole  *)
(* token to another: there is no moment without one in between, and a Save *)
(* that returns an error has left the old one.                             *)
TokenReplacedBySave ==
  [][/\ files'[Path] # files[Path] =>
          \E p \in Processes : result'[p] = "saved" /\ result[p] = "none"
     /\ \A p \in Processes :
          result'[p] = "saved" /\ result[p] = "none" =>
            files'[Path] = Saved(p)]_fileVars

(* Temporary files stay behind only where a process was killed.            *)
OnlyKilledLeaveTemps ==
  \A p \in Processes : phase[p] = "done" => files[p] = NoFile

(* To its readers the token file is one register that a Save writes at     *)
(* once or not at all, and Save leaves nothing else behind.                *)
SavesAreAtomic ==
  [](TokenFileWhole /\ OnlyKilledLeaveTemps) /\ TokenReplacedBySave

(* What each step of Save has made of the temporary, which nobody else     *)
(* writes: the inductive invariant behind the three properties above.      *)
TempOfPhase(p) ==
  /\ phase[p] \in {"idle", "create", "done"} => files[p] = NoFile
  /\ phase[p] \in {"encode", "chmod", "close", "rename"} =>
       files[p] # NoFile /\ files[p].token = p /\ files[p].private
  /\ phase[p] \in {"chmod", "close", "rename"} => files[p].whole
  /\ phase[p] \in {"idle", "create", "encode", "chmod", "close", "rename"} =>
       result[p] = "none"

TokenFileInv ==
  TypeOKFile /\ TokenFileWhole /\ \A p \in Processes : TempOfPhase(p)

=============================================================================
