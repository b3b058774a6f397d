-------------------------------- MODULE Cli ---------------------------------
(***************************************************************************)
(* The command line client: each process runs one command of one user, and *)
(* commands run at the same time, on one machine or on several.            *)
(*                                                                         *)
(* A binary secret is two things on the server, a blob and a vault item    *)
(* whose payload names it, written by two calls of the client; to read one *)
(* the client fetches the item, then the blob, then writes a file.  The    *)
(* server's side is reduced to what a command can tell: one action per     *)
(* vault call (module Vault has their parts), and for an upload its stream *)
(* handler and its abort handler, which go on when the client is gone      *)
(* (module Blob).                                                          *)
(*                                                                         *)
(* The text, login/password and card commands differ in their prompts      *)
(* only: they are one kind of secret here, without a blob.  Contents are   *)
(* the members of Files.  list and sync change nothing, and are left out.  *)
(***************************************************************************)
EXTENDS Naturals, Sequences, SequencesExt

CONSTANTS
  Commands,  \* processes; a process also names the upload it creates
  Ids,       \* ids of vault items
  Files,     \* contents of secrets and files
  Chunks,    \* the number of chunks a file is cut into
  Name,      \* the base name of a file
  Versions,  \* bound: the expected versions users type
  None       \* no blob, no file on the disk, no payload yet

Payload == [file: Files, blob: Commands \cup {None}]
Version == [payload: Payload, deleted: BOOLEAN]

Command ==
  [kind: {"create", "update", "delete", "get"}, binary: BOOLEAN,
   item: Ids \cup {None}, version: Versions \cup {0}, file: Files]

(* What a file of the output directory may hold besides a secret: nothing  *)
(* yet, two downloads mixed, or what another program wrote.                *)
Other == {"empty", "mixed", "foreign"}

ASSUME CliAssumption ==
  /\ Chunks \in [Files -> Nat \ {0}]
  /\ Versions \subseteq Nat \ {0}
  /\ None \notin Commands \cup Files \cup Other \cup Ids \cup Payload
                 \cup Command
  /\ DOMAIN Name = Files

VARIABLES
  history,  \* the versions of each item, the current one last
  upload,   \* blob_uploads.status of each command's upload
  stored,   \* how many of its chunks the stream handler has accepted
  objects,  \* the chunks of it that are in the object store
  handler,  \* its UploadBlob handler
  remover,  \* its AbortBlobUpload handler
  disk,     \* the output directory
  command,  \* what the user asked for
  phase,    \* where the process is
  sent,     \* messages sent on the upload stream, the half-close included
  got,      \* the payload of the item a get has read
  exit      \* how the process ended

server == <<history, upload, stored, objects, handler, remover>>
client == <<command, phase, sent, got, exit>>
vars   == <<server, disk, client>>

Names == {Name[f] : f \in Files}

Phases == {"idle", "upload", "send", "wait", "abort", "write", "get",
            "stat", "download", "open", "fill", "done"}

TypeOK ==
  /\ history \in [Ids -> Seq(Version)]
  /\ upload \in [Commands -> {"none", "open", "ready", "aborted"}]
  /\ stored \in [Commands -> Nat]
  /\ objects \in [Commands -> SUBSET (Nat \ {0})]
  /\ handler \in [Commands -> {"none", "open", "over"}]
  /\ remover \in [Commands -> {"none", "open", "over"}]
  /\ disk \in [Names -> Files \cup Other \cup {None}]
  /\ command \in [Commands -> Command \cup {None}]
  /\ phase \in [Commands -> Phases]
  /\ sent \in [Commands -> Nat]
  /\ got \in [Commands -> Payload \cup {None}]
  /\ exit \in [Commands -> {"none", "ok", "failed"}]

Init ==
  /\ history = [i \in Ids |-> <<>>]
  /\ upload = [c \in Commands |-> "none"]
  /\ stored = [c \in Commands |-> 0]
  /\ objects = [c \in Commands |-> {}]
  /\ handler = [c \in Commands |-> "none"]
  /\ remover = [c \in Commands |-> "none"]
  /\ disk = [n \in Names |-> None]
  /\ command = [c \in Commands |-> None]
  /\ phase = [c \in Commands |-> "idle"]
  /\ sent = [c \in Commands |-> 0]
  /\ got = [c \in Commands |-> None]
  /\ exit = [c \in Commands |-> "none"]

----------------------------------------------------------------------------
(* Processes                                                               *)

Goto(c, ph) == phase' = [phase EXCEPT ![c] = ph] /\ UNCHANGED exit

Exit(c, how) ==
  /\ phase' = [phase EXCEPT ![c] = "done"]
  /\ exit' = [exit EXCEPT ![c] = how]

FileOf(c) == command[c].file

Writes(cmd) == cmd.kind \in {"create", "update"}

(* The first call after the login and the prompts.                         *)
FirstPhase(cmd) ==
  IF Writes(cmd) /\ cmd.binary THEN "upload"
  ELSE IF cmd.kind = "get"     THEN "get"
  ELSE "write"

(* What can be asked: create names no item; only update and delete name a  *)
(* version, which need not be the current one nor the item one of the same *)
(* kind; a binary file, or the secret's fields, are read only to write.    *)
WellFormed(cmd) ==
  /\ (cmd.kind = "create") = (cmd.item = None)
  /\ (cmd.kind \in {"update", "delete"}) = (cmd.version > 0)
  /\ ~ Writes(cmd) =>
       ~ cmd.binary /\ cmd.file = CHOOSE f \in Files : TRUE

Run(c) ==
  /\ phase[c] = "idle"
  /\ \E cmd \in Command :
       /\ WellFormed(cmd)
       /\ command' = [command EXCEPT ![c] = cmd]
       /\ Goto(c, FirstPhase(cmd))
  /\ UNCHANGED <<server, disk, sent, got>>

(* A call is refused or fails without an effect; an answer does not check; *)
(* the process is killed.                                                  *)
Fail(c) ==
  /\ phase[c] \notin {"idle", "done"}
  /\ Exit(c, "failed")
  /\ UNCHANGED <<server, disk, command, sent, got>>

----------------------------------------------------------------------------
(* UploadBinary: the client                                                *)

(* The answer may be lost, and the session is left open.                   *)
CreateUpload(c) ==
  /\ phase[c] = "upload"
  /\ upload' = [upload EXCEPT ![c] = "open"]
  /\ Goto(c, "send") \/ Exit(c, "failed")
  /\ UNCHANGED <<history, stored, objects, handler, remover, disk,
                 command, sent, got>>

(* The next chunk, and after the last one CloseAndRecv.                    *)
Send(c) ==
  /\ phase[c] = "send"
  /\ sent' = [sent EXCEPT ![c] = @ + 1]
  /\ handler' = [handler EXCEPT ![c] = IF @ = "none" THEN "open" ELSE @]
  /\ Goto(c, IF sent[c] = Chunks[FileOf(c)] THEN "wait" ELSE "send")
  /\ UNCHANGED <<history, upload, stored, objects, remover, disk,
                 command, got>>

(* The handler's answer: the blob is ready.                                *)
Uploaded(c) ==
  /\ phase[c] = "wait"
  /\ upload[c] = "ready"
  /\ Goto(c, "write")
  /\ UNCHANGED <<server, disk, command, sent, got>>

GiveUp_UsesBlob(c) ==
  /\ phase[c] \in {"send", "wait"}
  /\ remover' = [remover EXCEPT ![c] = "open"]
  /\ Goto(c, "write")
  /\ UNCHANGED <<history, upload, stored, objects, handler, disk, command,
                 sent, got>>

(* Send or CloseAndRecv returned an error: the server's, or that of a      *)
(* connection whose other end may have committed the upload.               *)
GiveUp(c) ==
  /\ phase[c] \in {"send", "wait"}
  /\ Goto(c, "abort")
  /\ UNCHANGED <<server, disk, command, sent, got>>

(* AbortUpload is called with the same context, and reaches the server     *)
(* unless that context is cancelled or the connection is gone (Fail).  Its *)
(* result is ignored: the command fails with the upload's error.           *)
CallAbort(c) ==
  /\ phase[c] = "abort"
  /\ remover' = [remover EXCEPT ![c] = "open"]
  /\ Exit(c, "failed")
  /\ UNCHANGED <<history, upload, stored, objects, handler, disk, command,
                 sent, got>>

----------------------------------------------------------------------------
(* UploadBinary: the server                                                *)

StoreChunk(c) ==
  /\ handler[c] = "open"
  /\ upload[c] = "open"
  /\ stored[c] < Chunks[FileOf(c)]
  /\ stored[c] < sent[c]
  /\ stored' = [stored EXCEPT ![c] = @ + 1]
  /\ objects' = [objects EXCEPT ![c] = @ \cup {stored[c] + 1}]
  /\ UNCHANGED <<history, upload, handler, remover, disk, client>>

(* At the half-close; what is compared is the rows of the accepted chunks, *)
(* not the objects.                                                        *)
CommitUpload(c) ==
  /\ handler[c] = "open"
  /\ upload[c] = "open"
  /\ sent[c] > Chunks[FileOf(c)]
  /\ stored[c] = Chunks[FileOf(c)]
  /\ upload' = [upload EXCEPT ![c] = "ready"]
  /\ handler' = [handler EXCEPT ![c] = "over"]
  /\ UNCHANGED <<history, stored, objects, remover, disk, client>>

(* A chunk or the commit is refused or fails, or the stream is cut.        *)
EndStream(c) ==
  /\ handler[c] = "open"
  /\ handler' = [handler EXCEPT ![c] = "over"]
  /\ UNCHANGED <<history, upload, stored, objects, remover, disk, client>>

(* Abort removes the objects of the parts it listed, whatever the status.  *)
RemoveObject(c) ==
  /\ remover[c] = "open"
  /\ \E o \in objects[c] :
       objects' = [objects EXCEPT ![c] = @ \ {o}]
  /\ UNCHANGED <<history, upload, stored, handler, remover, disk, client>>

(* And then ends the session, unless it is committed; or stops halfway.    *)
EndAbort(c) ==
  /\ remover[c] = "open"
  /\ remover' = [remover EXCEPT ![c] = "over"]
  /\ \/ upload' = [upload EXCEPT ![c] = IF @ = "open" THEN "aborted" ELSE @]
     \/ UNCHANGED upload
  /\ UNCHANGED <<history, stored, objects, handler, disk, client>>

----------------------------------------------------------------------------
(* CreateSecret, UpdateSecret, DeleteSecret                                *)

NewPayload(c) ==
  [file |-> FileOf(c), blob |-> IF command[c].binary THEN c ELSE None]

CreateSecret(c) ==
  /\ command[c].kind = "create"
  /\ \E i \in Ids :
       /\ history[i] = <<>>
       /\ history' = [history EXCEPT ![i] =
            <<[payload |-> NewPayload(c), deleted |-> FALSE]>>]

Current_AnyVersion(c) ==
  LET versions == history[command[c].item] IN
  versions # <<>> /\ ~ Last(versions).deleted

(* The version the user typed is the item's current one.                   *)
Current(c) ==
  LET versions == history[command[c].item] IN
  /\ versions # <<>>
  /\ Len(versions) = command[c].version
  /\ ~ Last(versions).deleted

UpdateSecret(c) ==
  /\ command[c].kind = "update"
  /\ Current(c)
  /\ history' = [history EXCEPT ![command[c].item] =
       Append(@, [payload |-> NewPayload(c), deleted |-> FALSE])]

DeleteSecret(c) ==
  /\ command[c].kind = "delete"
  /\ Current(c)
  /\ history' = [history EXCEPT ![command[c].item] =
       Append(@, [payload |-> Last(@).payload, deleted |-> TRUE])]

Write_RemovesReplacedBlob(c) ==
  /\ phase[c] = "write"
  /\ CreateSecret(c) \/ UpdateSecret(c) \/ DeleteSecret(c)
  /\ \E how \in {"ok", "failed"} : Exit(c, how)
  /\ objects' = [b \in Commands |->
       IF command[c].kind # "create"
            /\ b = Last(history[command[c].item]).payload.blob
       THEN {} ELSE objects[b]]
  /\ UNCHANGED <<upload, stored, handler, remover, disk, command, sent, got>>

(* The row changes; the answer arrives, or the client sees an error.       *)
Write(c) ==
  /\ phase[c] = "write"
  /\ CreateSecret(c) \/ UpdateSecret(c) \/ DeleteSecret(c)
  /\ \E how \in {"ok", "failed"} : Exit(c, how)
  /\ UNCHANGED <<upload, stored, objects, handler, remover, disk,
                 command, sent, got>>

----------------------------------------------------------------------------
(* runGetSecret and printSecret                                            *)

OutputName(c) == Name[got[c].file]

(* The server answers with a deleted item as with any other.               *)
GetSecret(c) ==
  /\ phase[c] = "get"
  /\ LET versions == history[command[c].item] IN
     /\ versions # <<>>
     /\ got' = [got EXCEPT ![c] = Last(versions).payload]
     /\ IF Last(versions).payload.blob = None
        THEN Exit(c, "ok")
        ELSE Goto(c, "stat")
  /\ UNCHANGED <<server, disk, command, sent>>

(* ensureOutputFileDoesNotExist, then MkdirAll.                            *)
Stat(c) ==
  /\ phase[c] = "stat"
  /\ disk[OutputName(c)] = None
  /\ Goto(c, "download")
  /\ UNCHANGED <<server, disk, command, sent, got>>

(* Every object arrived, and size and checksum are those of the payload.   *)
Intact(payload) ==
  /\ upload[payload.blob] = "ready"
  /\ objects[payload.blob] = 1 .. Chunks[payload.file]
  /\ FileOf(payload.blob) = payload.file

DownloadBinary(c) ==
  /\ phase[c] = "download"
  /\ Intact(got[c])
  /\ Goto(c, "open")
  /\ UNCHANGED <<server, disk, command, sent, got>>

OpenFile_NoTruncate(c) ==
  /\ phase[c] = "open"
  /\ disk' = [disk EXCEPT ![OutputName(c)] = IF @ = None THEN "empty" ELSE @]
  /\ Goto(c, "fill")
  /\ UNCHANGED <<server, command, sent, got>>

(* os.WriteFile opens the file and truncates it ...                        *)
OpenFile(c) ==
  /\ phase[c] = "open"
  /\ disk' = [disk EXCEPT ![OutputName(c)] = "empty"]
  /\ Goto(c, "fill")
  /\ UNCHANGED <<server, command, sent, got>>

(* ... and writes from its start over what is there by then: what another  *)
(* process wrote since is covered, or its tail stays.                      *)
Fill(c) ==
  /\ phase[c] = "fill"
  /\ \E content \in {got[c].file, "mixed"} :
       /\ content = "mixed" => disk[OutputName(c)] \notin {"empty", got[c].file}
       /\ disk' = [disk EXCEPT ![OutputName(c)] = content]
  /\ Exit(c, "ok")
  /\ UNCHANGED <<server, command, sent, got>>

(* Another program creates a file in the output directory.                 *)
OtherProgram(n) ==
  /\ disk[n] = None
  /\ disk' = [disk EXCEPT ![n] = "foreign"]
  /\ UNCHANGED <<server, client>>

----------------------------------------------------------------------------

ClientStep(c) ==
  \/ Run(c) \/ Fail(c) \/ CreateUpload(c) \/ Send(c) \/ Uploaded(c)
  \/ GiveUp(c) \/ CallAbort(c) \/ Write(c)
  \/ GetSecret(c) \/ Stat(c) \/ DownloadBinary(c) \/ OpenFile(c) \/ Fill(c)

ServerStep(c) ==
  StoreChunk(c) \/ CommitUpload(c) \/ EndStream(c) \/ RemoveObject(c)
  \/ EndAbort(c)

Next ==
  \/ \E c \in Commands : ClientStep(c) \/ ServerStep(c)
  \/ \E n \in Names : OtherProgram(n)

Spec == Init /\ [][Next]_vars

----------------------------------------------------------------------------
(* Properties                                                              *)

(* A blob that any version of an item names is ready, has every one of its *)
(* objects and holds the file the payload describes, although the server   *)
(* commits it behind a client that gave up, and an abort removes objects   *)
(* of ready blobs: UploadBinary never returns a blob it may have aborted.  *)
ItemsAreReadable ==
  \A i \in Ids : \A n \in DOMAIN history[i] :
    LET payload == history[i][n].payload IN
    payload.blob # None => Intact(payload)

(* A command that reported success has stored what it was given, as the    *)
(* version that follows the one the user named; no later command took that *)
(* version over.                                                           *)
SuccessIsStored ==
  \A c \in Commands :
    exit[c] = "ok" =>
      CASE command[c].kind = "create" ->
             \E i \in Ids : /\ history[i] # <<>>
                            /\ history[i][1].payload = NewPayload(c)
        [] command[c].kind = "update" ->
             LET versions == history[command[c].item] IN
             /\ Len(versions) > command[c].version
             /\ versions[command[c].version + 1].payload = NewPayload(c)
        [] command[c].kind = "delete" ->
             Len(history[command[c].item]) = command[c].version + 1
        [] command[c].kind = "get" -> TRUE

(* A get that has read an item can still fetch the file its payload names, *)
(* however long its user takes to name a directory: an update or a delete  *)
(* of the item meanwhile, which takes the blob's name out of the current   *)
(* row, leaves the blob whole, and so does an abort that comes late.       *)
ReadSecretsStayFetchable ==
  \A c \in Commands :
    phase[c] \in {"stat", "download"} => Intact(got[c])

PastStat(c) == phase[c] \in {"download", "open", "fill", "done"}

(* The file a get reported is on the disk whole, unless another get of a   *)
(* secret whose file has the same name passed its check before it was      *)
(* there.                                                                  *)
ReportedFileIsWhole ==
  \A c \in Commands :
    /\ exit[c] = "ok" /\ command[c].kind = "get" /\ got[c].blob # None
    /\ \A d \in Commands \ {c} :
         PastStat(d) => got[d] = None \/ OutputName(d) # OutputName(c)
    => disk[OutputName(c)] = got[c].file

=============================================================================
