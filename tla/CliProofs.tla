----------------------------- MODULE CliProofs ------------------------------
(***************************************************************************)
(* Proofs about module Cli, for any number of processes, items and files   *)
(* of any number of chunks: blobs that items name stay whole, also for a   *)
(* get that read the item before it changed, a reported success is stored, *)
(* and a reported file is whole.                                           *)
(***************************************************************************)
EXTENDS Cli, TLAPS

(***************************************************************************)
(* The inductive invariant: until its command calls AbortUpload an upload  *)
(* has exactly the objects it stored, and the command has ended by then;   *)
(* a blob is named only by a command that never calls it.                  *)
(***************************************************************************)

IsBinary(c) == command[c] # None /\ command[c].binary /\ Writes(command[c])

Uploading(c) ==
  /\ phase[c] \in {"upload", "send", "wait", "abort"} => IsBinary(c)
  /\ upload[c] # "none" => IsBinary(c)
  /\ phase[c] \in {"idle", "upload"} => upload[c] = "none"
  /\ phase[c] # "idle" => command[c] # None
  /\ remover[c] = "none" => objects[c] = 1 .. stored[c]
  /\ remover[c] # "none" => phase[c] = "done"
  /\ upload[c] = "ready" => stored[c] = Chunks[FileOf(c)]
  /\ phase[c] = "write" /\ command[c].binary => upload[c] = "ready"

(* A command whose blob a version of an item names.                        *)
Named(c) ==
  phase[c] = "done" /\ remover[c] = "none" /\ upload[c] = "ready"

ItemsNamed ==
  \A i \in Ids : \A n \in 1 .. Len(history[i]) :
    history[i][n].payload.blob # None =>
      /\ Named(history[i][n].payload.blob)
      /\ FileOf(history[i][n].payload.blob) = history[i][n].payload.file

(* A success is that of a command that ended; what a delete leaves is the  *)
(* last version there will be.                                             *)
StoredOf(c) ==
  /\ exit[c] = "ok" => phase[c] = "done"
  /\ phase[c] \in {"get", "stat", "download", "open", "fill"} =>
       command[c].kind = "get"
  /\ phase[c] \in {"stat", "download", "open", "fill"} => got[c] # None
  /\ exit[c] = "ok" /\ command[c].kind = "create" =>
       \E i \in Ids : /\ Len(history[i]) > 0
                      /\ history[i][1].payload = NewPayload(c)
  /\ exit[c] = "ok" /\ command[c].kind = "update" =>
       /\ Len(history[command[c].item]) > command[c].version
       /\ history[command[c].item][command[c].version + 1].payload
            = NewPayload(c)
  /\ exit[c] = "ok" /\ command[c].kind = "delete" =>
       /\ Len(history[command[c].item]) = command[c].version + 1
       /\ Last(history[command[c].item]).deleted

Asked(c) == command[c] = None \/ WellFormed(command[c])

IInv ==
  /\ TypeOK
  /\ \A c \in Commands : Asked(c)
  /\ \A c \in Commands : Uploading(c) /\ StoredOf(c)
  /\ ItemsNamed

----------------------------------------------------------------------------
(* What a step leaves alone                                                *)

Kept(c) ==
  /\ command'[c] = command[c] /\ phase'[c] = phase[c] /\ exit'[c] = exit[c]
  /\ upload'[c] = upload[c]   /\ stored'[c] = stored[c]
  /\ objects'[c] = objects[c] /\ remover'[c] = remover[c]
  /\ got'[c] = got[c]

LEMMA KeptInv ==
  ASSUME NEW c \in Commands, Kept(c), UNCHANGED history
  PROVE  /\ Asked(c) => Asked(c)'
         /\ Uploading(c) => Uploading(c)'
         /\ StoredOf(c) => StoredOf(c)'
         /\ Named(c) => Named(c)'
<1>1. Asked(c) => Asked(c)'
  BY DEF Kept, Asked
<1>2. Uploading(c) => Uploading(c)'
  BY DEF Kept, Uploading, IsBinary, FileOf
<1>3. StoredOf(c) => StoredOf(c)'
  BY DEF Kept, StoredOf, NewPayload, FileOf
<1>4. Named(c) => Named(c)'
  BY DEF Kept, Named
<1> QED
  BY <1>1, <1>2, <1>3, <1>4

(* A step of one command or its handlers, no vault call, preserves the     *)
(* invariant if it does so for that command.                               *)
LEMMA AloneInv ==
  ASSUME IInv, NEW c \in Commands,
         UNCHANGED history, \A b \in Commands \ {c} : Kept(b),
         TypeOK', Asked(c)', Uploading(c)', StoredOf(c)',
         Named(c) => Named(c)' /\ command'[c] = command[c]
  PROVE  IInv'
<1>1. \A b \in Commands : Asked(b)' /\ Uploading(b)' /\ StoredOf(b)'
  BY KeptInv DEF IInv
<1>2. \A b \in Commands :
        Named(b) => Named(b)' /\ FileOf(b)' = FileOf(b)
  BY KeptInv DEF Kept, FileOf
<1>3. \A i \in Ids : \A n \in 1 .. Len(history[i]) :
        history[i][n].payload.blob \in Commands \cup {None}
  <2> SUFFICES ASSUME NEW i \in Ids, NEW n \in 1 .. Len(history[i])
               PROVE  history[i][n].payload.blob \in Commands \cup {None}
    OBVIOUS
  <2>1. history[i] \in Seq(Version)
    BY DEF IInv, TypeOK
  <2>2. history[i][n] \in Version
    BY <2>1
  <2> QED
    BY <2>2 DEF Version, Payload
<1>4. ItemsNamed'
  BY <1>2, <1>3 DEF IInv, ItemsNamed
<1> QED
  BY <1>1, <1>4 DEF IInv

LEMMA InitInv == Init => IInv
<1> SUFFICES ASSUME Init PROVE IInv
  OBVIOUS
<1>1. TypeOK
  <2>1. \A i \in Ids : history[i] \in Seq(Version)
    BY DEF Init
  <2> QED
    BY <2>1 DEF Init, TypeOK, Phases, Other
<1>2. \A c \in Commands : Asked(c) /\ Uploading(c) /\ StoredOf(c)
  BY DEF Init, Asked, Uploading, IsBinary, StoredOf
<1>3. ItemsNamed
  BY DEF Init, ItemsNamed
<1> QED
  BY <1>1, <1>2, <1>3 DEF IInv

----------------------------------------------------------------------------
(* The client                                                              *)

LEMMA RunInv ==
  ASSUME IInv, NEW c \in Commands, Run(c)
  PROVE  IInv'
<1>1. PICK cmd \in Command :
        /\ WellFormed(cmd)
        /\ command' = [command EXCEPT ![c] = cmd]
        /\ phase' = [phase EXCEPT ![c] = FirstPhase(cmd)]
        /\ UNCHANGED exit
  BY DEF Run, Goto
<1>2. /\ phase[c] = "idle"
      /\ UNCHANGED <<history, upload, stored, objects, handler, remover, disk,
                     sent, got>>
  BY DEF Run, server
<1>3. cmd # None
  BY CliAssumption DEF Command
<1>4. FirstPhase(cmd) \in Phases
  BY DEF FirstPhase, Phases
<1>5. TypeOK'
  BY <1>1, <1>2, <1>4 DEF IInv, TypeOK
<1>6. /\ command'[c] = cmd /\ phase'[c] = FirstPhase(cmd)
      /\ exit[c] # "ok"
  BY <1>1, <1>2 DEF IInv, TypeOK, StoredOf
<1>7. Asked(c)'
  BY <1>1, <1>6 DEF Asked
<1>8. Uploading(c)'
  <2>1. /\ Uploading(c) /\ upload[c] = "none"
        /\ remover[c] = "none" /\ remover'[c] = remover[c]
        /\ UNCHANGED <<upload, stored, objects>>
    BY <1>2 DEF IInv, TypeOK, Uploading
  <2>2. FirstPhase(cmd) \in {"upload", "get", "write"}
    BY DEF FirstPhase
  <2>3. FirstPhase(cmd) = "upload" => Writes(cmd) /\ cmd.binary
    BY DEF FirstPhase
  <2>4. FirstPhase(cmd) = "write" => ~ cmd.binary
    BY <1>1 DEF FirstPhase, WellFormed
  <2> QED
    BY <1>3, <1>6, <2>1, <2>2, <2>3, <2>4 DEF Uploading, IsBinary
<1>9. StoredOf(c)'
  BY <1>1, <1>6 DEF StoredOf, FirstPhase, Command, Writes
<1>10. ~ Named(c)
  BY <1>2 DEF Named
<1>11. \A b \in Commands \ {c} : Kept(b)
  BY <1>1, <1>2 DEF Kept, IInv, TypeOK
<1> QED
  BY <1>2, <1>5, <1>7, <1>8, <1>9, <1>10, <1>11, AloneInv

(* A command goes on, or ends, with nothing of the server's changed.       *)
LEMMA MoveInv ==
  ASSUME IInv, NEW c \in Commands,
         phase[c] \notin {"idle", "done"},
         NEW ph \in Phases \ {"idle", "upload", "get"},
         phase' = [phase EXCEPT ![c] = ph],
         NEW how \in {"none", "ok", "failed"},
         exit' = [exit EXCEPT ![c] = how],
         UNCHANGED <<history, upload, stored, objects, remover, command>>,
         TypeOK',
         how = "ok" => ph = "done" /\ command[c].kind = "get",
         ph \in {"send", "wait", "abort"} => IsBinary(c),
         ph = "write" => upload[c] = "ready",
         \A b \in Commands \ {c} : got'[b] = got[b],
         ph \in {"stat", "download", "open", "fill"} =>
           command[c].kind = "get" /\ got'[c] # None
  PROVE  IInv'
<1>1. phase'[c] = ph /\ exit'[c] = how
  BY DEF IInv, TypeOK
<1>2. Asked(c) /\ Uploading(c) /\ StoredOf(c)
  BY DEF IInv
<1>3. Asked(c)'
  BY <1>2 DEF Asked
<1>4. remover[c] = "none"
  BY <1>2 DEF Uploading, IInv, TypeOK
<1>5. Uploading(c)'
  BY <1>1, <1>2, <1>4 DEF Uploading, IsBinary, FileOf
<1>6. StoredOf(c)'
  BY <1>1 DEF StoredOf
<1>7. ~ Named(c)
  BY DEF Named
<1>8. \A b \in Commands \ {c} : Kept(b)
  BY DEF Kept, IInv, TypeOK
<1> QED
  BY <1>3, <1>5, <1>6, <1>7, <1>8, AloneInv

LEMMA FailInv ==
  ASSUME IInv, NEW c \in Commands, Fail(c)
  PROVE  IInv'
<1>1. /\ phase[c] \notin {"idle", "done"}
      /\ phase' = [phase EXCEPT ![c] = "done"]
      /\ exit' = [exit EXCEPT ![c] = "failed"]
      /\ UNCHANGED <<history, upload, stored, objects, handler, remover, disk,
                     command, sent, got>>
  BY DEF Fail, Exit, server
<1>2. TypeOK' /\ "done" \in Phases \ {"idle", "upload", "get"}
  BY <1>1 DEF IInv, TypeOK, Phases
<1> QED
  BY <1>1, <1>2, MoveInv

(* A step to the next phase, with nothing reported.                        *)
LEMMA GoInv ==
  ASSUME IInv, NEW c \in Commands,
         NEW ph \in {"send", "wait", "abort", "write", "stat", "download",
                     "open", "fill"},
         Goto(c, ph),
         phase[c] \in {"send", "wait", "get", "stat", "download", "open"},
         UNCHANGED <<history, upload, stored, objects, remover, command>>,
         handler' \in [Commands -> {"none", "open", "over"}],
         disk' \in [Names -> Files \cup Other \cup {None}],
         sent' \in [Commands -> Nat],
         got' \in [Commands -> Payload \cup {None}],
         ph \in {"send", "wait", "abort", "write"} =>
           phase[c] \in {"send", "wait"},
         ph = "write" => upload[c] = "ready",
         \A b \in Commands \ {c} : got'[b] = got[b],
         ph = "stat" => phase[c] = "get" /\ got'[c] # None,
         ph \in {"download", "open", "fill"} =>
           phase[c] \in {"stat", "download", "open"} /\ got' = got
  PROVE  IInv'
<1>1. /\ phase' = [phase EXCEPT ![c] = ph]
      /\ exit' = exit
      /\ exit' = [exit EXCEPT ![c] = exit[c]]
  BY DEF Goto, IInv, TypeOK
<1>2. Uploading(c) /\ StoredOf(c)
  BY DEF IInv
<1>3. exit[c] \in {"none", "failed"}
  BY <1>2 DEF StoredOf, IInv, TypeOK
<1>4. TypeOK' /\ ph \in Phases \ {"idle", "upload", "get"}
  BY <1>1 DEF IInv, TypeOK, Phases
<1>5. ph \in {"send", "wait", "abort"} => IsBinary(c)
  BY <1>2 DEF Uploading
<1>6. ph \in {"stat", "download", "open", "fill"} =>
        command[c].kind = "get" /\ got'[c] # None
  BY <1>2 DEF StoredOf
<1> QED
  BY <1>1, <1>3, <1>4, <1>5, <1>6, MoveInv

LEMMA UploadMovesInv ==
  ASSUME IInv, NEW c \in Commands, Send(c) \/ Uploaded(c) \/ GiveUp(c)
  PROVE  IInv'
<1>1. CASE Send(c)
  <2>1. PICK ph \in {"send", "wait"} : Goto(c, ph)
    BY <1>1 DEF Send
  <2>2. /\ sent' \in [Commands -> Nat]
        /\ handler' \in [Commands -> {"none", "open", "over"}]
        /\ disk' \in [Names -> Files \cup Other \cup {None}]
        /\ got' \in [Commands -> Payload \cup {None}]
        /\ \A b \in Commands \ {c} : got'[b] = got[b]
    BY <1>1 DEF Send, IInv, TypeOK
  <2>3. /\ phase[c] \in {"send", "wait"}
        /\ UNCHANGED <<history, upload, stored, objects, remover, command>>
    BY <1>1 DEF Send
  <2> QED
    BY <2>1, <2>2, <2>3, GoInv
<1>2. CASE Uploaded(c)
  BY <1>2, GoInv DEF Uploaded, server, IInv, TypeOK
<1>3. CASE GiveUp(c)
  BY <1>3, GoInv DEF GiveUp, server, IInv, TypeOK
<1> QED
  BY <1>1, <1>2, <1>3

LEMMA CreateUploadInv ==
  ASSUME IInv, NEW c \in Commands, CreateUpload(c)
  PROVE  IInv'
<1>1. /\ phase[c] = "upload"
      /\ upload' = [upload EXCEPT ![c] = "open"]
      /\ UNCHANGED <<history, stored, objects, handler, remover, disk, command,
                     sent, got>>
  BY DEF CreateUpload
<1>2. PICK ph \in {"send", "done"}, how \in {"none", "failed"} :
        /\ phase' = [phase EXCEPT ![c] = ph]
        /\ exit' = [exit EXCEPT ![c] = how]
  <2>1. CASE Goto(c, "send")
    <3>1. exit[c] \in {"none", "failed"}
      BY <1>1 DEF IInv, StoredOf, TypeOK
    <3>2. exit' = [exit EXCEPT ![c] = exit[c]]
      BY <2>1 DEF Goto, IInv, TypeOK
    <3> QED
      BY <2>1, <3>1, <3>2 DEF Goto
  <2>2. CASE Exit(c, "failed")
    BY <2>2 DEF Exit
  <2> QED
    BY <2>1, <2>2 DEF CreateUpload
<1>3. TypeOK'
  BY <1>1, <1>2 DEF IInv, TypeOK, Phases
<1>4. phase'[c] = ph /\ exit'[c] = how /\ upload'[c] = "open"
  BY <1>1, <1>2 DEF IInv, TypeOK
<1>5. Asked(c) /\ Uploading(c)
  BY DEF IInv
<1>6. remover[c] = "none"
  BY <1>1, <1>5 DEF Uploading, IInv, TypeOK
<1>7. Asked(c)'
  BY <1>1, <1>5 DEF Asked
<1>8. Uploading(c)'
  BY <1>1, <1>4, <1>5, <1>6 DEF Uploading, IsBinary
<1>9. StoredOf(c)'
  BY <1>4 DEF StoredOf
<1>10. ~ Named(c)
  BY <1>1 DEF Named
<1>11. \A b \in Commands \ {c} : Kept(b)
  BY <1>1, <1>2 DEF Kept, IInv, TypeOK
<1> QED
  BY <1>1, <1>3, <1>7, <1>8, <1>9, <1>10, <1>11, AloneInv

(* The command ends with the call, so the blob it aborts is named nowhere. *)
LEMMA CallAbortInv ==
  ASSUME IInv, NEW c \in Commands, CallAbort(c)
  PROVE  IInv'
<1>1. /\ phase[c] = "abort"
      /\ remover' = [remover EXCEPT ![c] = "open"]
      /\ phase' = [phase EXCEPT ![c] = "done"]
      /\ exit' = [exit EXCEPT ![c] = "failed"]
      /\ UNCHANGED <<history, upload, stored, objects, handler, disk, command,
                     sent, got>>
  BY DEF CallAbort, Exit
<1>2. TypeOK'
  BY <1>1 DEF IInv, TypeOK, Phases
<1>3. phase'[c] = "done" /\ exit'[c] = "failed" /\ remover'[c] = "open"
  BY <1>1 DEF IInv, TypeOK
<1>4. Asked(c) /\ Uploading(c)
  BY DEF IInv
<1>5. Asked(c)' /\ Uploading(c)' /\ StoredOf(c)'
  BY <1>1, <1>3, <1>4 DEF Asked, Uploading, IsBinary, FileOf, StoredOf
<1>6. ~ Named(c)
  BY <1>1 DEF Named
<1>7. \A b \in Commands \ {c} : Kept(b)
  BY <1>1 DEF Kept, IInv, TypeOK
<1> QED
  BY <1>1, <1>2, <1>5, <1>6, <1>7, AloneInv

LEMMA ItemOf ==
  ASSUME IInv, NEW c \in Commands, command[c] # None,
         command[c].kind # "create"
  PROVE  command[c].item \in Ids
BY DEF IInv, TypeOK, Asked, WellFormed, Command

LEMMA LastVersion ==
  ASSUME IInv, NEW i \in Ids, history[i] # <<>>
  PROVE  /\ Len(history[i]) \in Nat \ {0}
         /\ Last(history[i]) = history[i][Len(history[i])]
         /\ Last(history[i]) \in Version
<1>1. history[i] \in Seq(Version)
  BY DEF IInv, TypeOK
<1> QED
  BY <1>1 DEF Last

LEMMA GetMovesInv ==
  ASSUME IInv, NEW c \in Commands,
         \/ GetSecret(c) \/ Stat(c) \/ DownloadBinary(c)
         \/ OpenFile(c) \/ Fill(c)
  PROVE  IInv'
<1>1. CASE GetSecret(c)
  <2> DEFINE p == Last(history[command[c].item]).payload
  <2>1. /\ phase[c] = "get" /\ command[c] # None /\ command[c].kind = "get"
    BY <1>1 DEF GetSecret, IInv, Uploading, StoredOf
  <2>2. p \in Payload
    <3>1. command[c].item \in Ids /\ history[command[c].item] # <<>>
      BY <1>1, <2>1, ItemOf DEF GetSecret
    <3>2. Last(history[command[c].item]) \in Version
      BY <3>1, LastVersion
    <3> QED
      BY <3>2 DEF Version
  <2> HIDE DEF p
  <2>3. /\ got' = [got EXCEPT ![c] = p]
        /\ Exit(c, "ok") \/ Goto(c, "stat")
        /\ UNCHANGED <<history, upload, stored, objects, handler, remover,
                       disk, command, sent>>
    BY <1>1 DEF GetSecret, server, p
  <2>6. got'[c] # None /\ \A b \in Commands \ {c} : got'[b] = got[b]
    BY <2>2, <2>3, CliAssumption DEF IInv, TypeOK
  <2>4. CASE Exit(c, "ok")
    <3>1. /\ phase' = [phase EXCEPT ![c] = "done"]
          /\ exit' = [exit EXCEPT ![c] = "ok"]
      BY <2>4 DEF Exit
    <3>2. TypeOK' /\ "done" \in Phases \ {"idle", "upload", "get"}
      BY <2>2, <2>3, <3>1 DEF IInv, TypeOK, Phases
    <3> QED
      BY <2>1, <2>3, <2>6, <3>1, <3>2, MoveInv
  <2>5. CASE Goto(c, "stat")
    BY <2>1, <2>2, <2>3, <2>5, <2>6, GoInv DEF IInv, TypeOK
  <2> QED
    BY <2>3, <2>4, <2>5
<1>2. CASE Stat(c)
  BY <1>2, GoInv DEF Stat, server, IInv, TypeOK
<1>3. CASE DownloadBinary(c)
  BY <1>3, GoInv DEF DownloadBinary, server, IInv, TypeOK
<1>4. CASE OpenFile(c)
  <2>1. disk' \in [Names -> Files \cup Other \cup {None}]
    BY <1>4 DEF OpenFile, IInv, TypeOK, Other
  <2> QED
    BY <1>4, <2>1, GoInv DEF OpenFile, server, IInv, TypeOK
<1>5. CASE Fill(c)
  <2>1. PICK content \in {got[c].file, "mixed"} :
          disk' = [disk EXCEPT ![OutputName(c)] = content]
    BY <1>5 DEF Fill
  <2>2. phase[c] = "fill" /\ command[c].kind = "get" /\ got[c] # None
    BY <1>5 DEF Fill, IInv, StoredOf
  <2>3. got[c].file \in Files
    BY <2>2 DEF IInv, TypeOK, Payload
  <2>4. disk' \in [Names -> Files \cup Other \cup {None}]
    BY <2>1, <2>3 DEF IInv, TypeOK, Other
  <2>5. /\ phase' = [phase EXCEPT ![c] = "done"]
        /\ exit' = [exit EXCEPT ![c] = "ok"]
        /\ UNCHANGED <<history, upload, stored, objects, handler, remover,
                       command, sent, got>>
    BY <1>5 DEF Fill, Exit, server
  <2>6. TypeOK' /\ "done" \in Phases \ {"idle", "upload", "get"}
    BY <2>4, <2>5 DEF IInv, TypeOK, Phases
  <2> QED
    BY <2>2, <2>5, <2>6, MoveInv
<1> QED
  BY <1>1, <1>2, <1>3, <1>4, <1>5

----------------------------------------------------------------------------
(* The handlers of an upload                                               *)

(* They change nothing that the command has, only its upload.              *)
LEMMA HandlerInv ==
  ASSUME IInv, NEW c \in Commands,
         UNCHANGED <<history, disk, command, phase, sent, got, exit>>,
         TypeOK', Uploading(c)',
         Named(c) => Named(c)',
         \A b \in Commands \ {c} :
           /\ upload'[b] = upload[b] /\ stored'[b] = stored[b]
           /\ objects'[b] = objects[b] /\ remover'[b] = remover[b]
  PROVE  IInv'
<1>1. Asked(c) /\ StoredOf(c)
  BY DEF IInv
<1>2. Asked(c)' /\ StoredOf(c)'
  BY <1>1 DEF Asked, StoredOf, NewPayload, FileOf
<1>3. \A b \in Commands \ {c} : Kept(b)
  BY DEF Kept
<1> QED
  BY <1>2, <1>3, AloneInv

LEMMA StoreChunkInv ==
  ASSUME IInv, NEW c \in Commands, StoreChunk(c)
  PROVE  IInv'
<1>1. /\ upload[c] = "open"
      /\ stored' = [stored EXCEPT ![c] = @ + 1]
      /\ objects' = [objects EXCEPT ![c] = @ \cup {stored[c] + 1}]
      /\ UNCHANGED <<history, upload, handler, remover, disk, command, phase,
                     sent, got, exit>>
  BY DEF StoreChunk, client
<1>2. stored[c] \in Nat /\ stored'[c] = stored[c] + 1
      /\ objects'[c] = objects[c] \cup {stored[c] + 1}
  BY <1>1 DEF IInv, TypeOK
<1>3. TypeOK'
  BY <1>1, <1>2 DEF IInv, TypeOK
<1>4. Uploading(c)'
  <2>1. Uploading(c)
    BY DEF IInv
  <2>2. remover[c] = "none" => objects'[c] = 1 .. stored'[c]
    <3>1. 1 .. stored[c] + 1 = (1 .. stored[c]) \cup {stored[c] + 1}
      BY <1>2
    <3> QED
      BY <1>2, <2>1, <3>1 DEF Uploading
  <2> QED
    BY <1>1, <2>1, <2>2 DEF Uploading, IsBinary
<1>5. ~ Named(c)
  BY <1>1 DEF Named
<1> QED
  BY <1>1, <1>3, <1>4, <1>5, HandlerInv DEF IInv, TypeOK

LEMMA CommitUploadInv ==
  ASSUME IInv, NEW c \in Commands, CommitUpload(c)
  PROVE  IInv'
<1>1. /\ upload[c] = "open" /\ stored[c] = Chunks[FileOf(c)]
      /\ upload' = [upload EXCEPT ![c] = "ready"]
      /\ handler' = [handler EXCEPT ![c] = "over"]
      /\ UNCHANGED <<history, stored, objects, remover, disk, command, phase,
                     sent, got, exit>>
  BY DEF CommitUpload, client
<1>2. TypeOK'
  BY <1>1 DEF IInv, TypeOK
<1>3. Uploading(c)'
  <2>1. Uploading(c) /\ upload'[c] = "ready"
    BY <1>1 DEF IInv, TypeOK
  <2> QED
    BY <1>1, <2>1 DEF Uploading, IsBinary, FileOf
<1>4. ~ Named(c)
  BY <1>1 DEF Named
<1> QED
  BY <1>1, <1>2, <1>3, <1>4, HandlerInv DEF IInv, TypeOK

LEMMA EndStreamInv ==
  ASSUME IInv, NEW c \in Commands, EndStream(c)
  PROVE  IInv'
<1>1. /\ handler' = [handler EXCEPT ![c] = "over"]
      /\ UNCHANGED <<history, upload, stored, objects, remover, disk, command,
                     phase, sent, got, exit>>
  BY DEF EndStream, client
<1>2. TypeOK'
  BY <1>1 DEF IInv, TypeOK
<1>3. Uploading(c)'
  BY <1>1 DEF IInv, Uploading, IsBinary, FileOf
<1>4. Named(c) => Named(c)'
  BY <1>1 DEF Named
<1> QED
  BY <1>1, <1>2, <1>3, <1>4, HandlerInv

(* An abort only runs on the upload of a command that called it.           *)
LEMMA AbortInv ==
  ASSUME IInv, NEW c \in Commands, RemoveObject(c) \/ EndAbort(c)
  PROVE  IInv'
<1>1. /\ remover[c] = "open"
      /\ UNCHANGED <<history, stored, handler, disk, command, phase, sent,
                     got, exit>>
  BY DEF RemoveObject, EndAbort, client
<1>2. /\ TypeOK'
      /\ remover'[c] # "none"
      /\ \/ upload'[c] = upload[c]
         \/ upload[c] = "open" /\ upload'[c] = "aborted"
      /\ \A b \in Commands \ {c} :
           /\ upload'[b] = upload[b] /\ stored'[b] = stored[b]
           /\ objects'[b] = objects[b] /\ remover'[b] = remover[b]
  <2>1. CASE RemoveObject(c)
    <3>1. PICK o \in objects[c] : objects' = [objects EXCEPT ![c] = @ \ {o}]
      BY <2>1 DEF RemoveObject
    <3>2. UNCHANGED <<upload, remover>>
      BY <2>1 DEF RemoveObject
    <3>3. objects[c] \ {o} \in SUBSET (Nat \ {0})
      BY DEF IInv, TypeOK
    <3>4. \A b \in Commands \ {c} : objects'[b] = objects[b]
      BY <3>1 DEF IInv, TypeOK
    <3>5. objects' \in [Commands -> SUBSET (Nat \ {0})]
      BY <3>1, <3>3 DEF IInv, TypeOK
    <3> QED
      BY <1>1, <3>2, <3>4, <3>5 DEF IInv, TypeOK
  <2>2. CASE EndAbort(c)
    <3>1. PICK u \in {"open", "aborted", "ready", "none"} :
            /\ upload' = [upload EXCEPT ![c] = u]
            /\ \/ u = upload[c]
               \/ u = "aborted" /\ upload[c] = "open"
      <4>1. CASE UNCHANGED upload
        <5>1. upload' = [upload EXCEPT ![c] = upload[c]]
          BY <4>1 DEF IInv, TypeOK
        <5>2. upload[c] \in {"open", "aborted", "ready", "none"}
          BY DEF IInv, TypeOK
        <5> QED
          BY <5>1, <5>2
      <4>2. CASE upload' = [upload EXCEPT
                              ![c] = IF @ = "open" THEN "aborted" ELSE @]
        <5>1. upload[c] \in {"open", "aborted", "ready", "none"}
          BY DEF IInv, TypeOK
        <5> QED
          BY <4>2, <5>1
      <4> QED
        BY <2>2, <4>1, <4>2 DEF EndAbort
    <3>2. /\ remover' = [remover EXCEPT ![c] = "over"]
          /\ UNCHANGED objects
      BY <2>2 DEF EndAbort
    <3> QED
      BY <1>1, <3>1, <3>2 DEF IInv, TypeOK
  <2> QED
    BY <2>1, <2>2
<1>3. Uploading(c)'
  BY <1>1, <1>2 DEF IInv, Uploading, IsBinary, FileOf
<1>4. ~ Named(c)
  BY <1>1 DEF Named
<1> QED
  BY <1>1, <1>2, <1>3, <1>4, HandlerInv

----------------------------------------------------------------------------
(* The vault calls                                                         *)

(* Command c appends version v to item i.                                  *)
Appends(c, i, v) ==
  /\ history' = [history EXCEPT ![i] = Append(history[i], v)]
  /\ history[i] # <<>> => ~ Last(history[i]).deleted
  /\ command[c].kind = "create" =>
       history[i] = <<>> /\ v.payload = NewPayload(c)
  /\ command[c].kind \in {"update", "delete"} =>
       /\ i = command[c].item
       /\ history[i] # <<>> /\ Len(history[i]) = command[c].version
  /\ command[c].kind = "update" => v.payload = NewPayload(c)
  /\ command[c].kind = "delete" =>
       v.payload = Last(history[i]).payload /\ v.deleted
  /\ command[c].kind # "get"

LEMMA NewPayloadType ==
  ASSUME IInv, NEW c \in Commands, command[c] # None
  PROVE  /\ NewPayload(c) \in Payload
         /\ NewPayload(c).file = FileOf(c)
         /\ NewPayload(c).blob # None =>
              NewPayload(c).blob = c /\ command[c].binary
         /\ command[c].binary => NewPayload(c).blob = c
BY CliAssumption
DEF IInv, TypeOK, Command, NewPayload, FileOf, Payload

LEMMA WriteAppends ==
  ASSUME IInv, NEW c \in Commands, Write(c)
  PROVE  \E i \in Ids, v \in Version : Appends(c, i, v)
<1>1. command[c] # None
  BY DEF Write, IInv, Uploading
<1>2. NewPayload(c) \in Payload
  BY <1>1, NewPayloadType
<1> DEFINE new == [payload |-> NewPayload(c), deleted |-> FALSE]
<1>3. new \in Version /\ new.payload = NewPayload(c)
  BY <1>2 DEF Version
<1> HIDE DEF new
<1>4. CASE CreateSecret(c)
  <2>1. PICK i \in Ids : history[i] = <<>>
                         /\ history' = [history EXCEPT ![i] = <<new>>]
    BY <1>4 DEF CreateSecret, new
  <2>2. Append(history[i], new) = <<new>>
    BY <2>1
  <2> QED
    BY <1>3, <1>4, <2>1, <2>2 DEF Appends, CreateSecret
<1>5. CASE UpdateSecret(c)
  <2> DEFINE i == command[c].item
  <2>1. i \in Ids
    BY <1>1, <1>5, ItemOf DEF UpdateSecret
  <2>2. /\ history' = [history EXCEPT ![i] = Append(history[i], new)]
        /\ history[i] # <<>> /\ ~ Last(history[i]).deleted
        /\ Len(history[i]) = command[c].version
    BY <1>5, <2>1 DEF UpdateSecret, Current, new, IInv, TypeOK
  <2> QED
    BY <1>3, <1>5, <2>1, <2>2 DEF Appends, UpdateSecret
<1>6. CASE DeleteSecret(c)
  <2> DEFINE i == command[c].item
             v == [payload |-> Last(history[i]).payload, deleted |-> TRUE]
  <2>1. i \in Ids
    BY <1>1, <1>6, ItemOf DEF DeleteSecret
  <2>2. /\ history' = [history EXCEPT ![i] = Append(history[i], v)]
        /\ history[i] # <<>> /\ ~ Last(history[i]).deleted
        /\ Len(history[i]) = command[c].version
    BY <1>6, <2>1 DEF DeleteSecret, Current, IInv, TypeOK
  <2>3. v \in Version
    BY <2>1, <2>2, LastVersion DEF Version
  <2>4. v.payload = Last(history[i]).payload /\ v.deleted
    OBVIOUS
  <2> HIDE DEF v
  <2> QED
    BY <1>6, <2>1, <2>2, <2>3, <2>4 DEF Appends, DeleteSecret
<1> QED
  BY <1>4, <1>5, <1>6 DEF Write

LEMMA WriteInv ==
  ASSUME IInv, NEW c \in Commands, Write(c)
  PROVE  IInv'
<1>1. PICK i \in Ids, v \in Version : Appends(c, i, v)
  BY WriteAppends
<1>2. PICK how \in {"ok", "failed"} :
        /\ phase' = [phase EXCEPT ![c] = "done"]
        /\ exit' = [exit EXCEPT ![c] = how]
  BY DEF Write, Exit
<1>3. /\ phase[c] = "write"
      /\ UNCHANGED <<upload, stored, objects, handler, remover, disk, command,
                     sent, got>>
  BY DEF Write
<1>4. /\ Asked(c) /\ Uploading(c) /\ StoredOf(c) /\ command[c] # None
      /\ remover[c] = "none"
      /\ command[c].binary => upload[c] = "ready"
  BY <1>3 DEF IInv, Uploading
(* The history grows by v, at its end.                                     *)
<1>5. /\ history[i] \in Seq(Version)
      /\ history' = [history EXCEPT ![i] = Append(history[i], v)]
  BY <1>1 DEF Appends, IInv, TypeOK
<1>6. /\ history'[i] \in Seq(Version)
      /\ Len(history'[i]) = Len(history[i]) + 1
      /\ \A n \in 1 .. Len(history[i]) : history'[i][n] = history[i][n]
      /\ history'[i][Len(history[i]) + 1] = v
      /\ \A j \in Ids \ {i} : history'[j] = history[j]
      /\ history' \in [Ids -> Seq(Version)]
  <2>1. history'[i] = Append(history[i], v)
    BY <1>5 DEF IInv, TypeOK
  <2> QED
    BY <1>5, <2>1 DEF IInv, TypeOK
<1>7. TypeOK'
  BY <1>2, <1>3, <1>6 DEF IInv, TypeOK, Phases
<1>8. \A b \in Commands : Asked(b)'
  BY <1>3 DEF IInv, Asked
<1>9. phase'[c] = "done" /\ exit'[c] = how
  BY <1>2 DEF IInv, TypeOK
<1>10. \A b \in Commands : Uploading(b)'
  <2> SUFFICES ASSUME NEW b \in Commands PROVE Uploading(b)'
    OBVIOUS
  <2>1. Uploading(b)
    BY DEF IInv
  <2>2. CASE b = c
    BY <1>3, <1>4, <1>9, <2>1, <2>2 DEF Uploading, IsBinary, FileOf
  <2>3. CASE b # c
    <3>1. phase'[b] = phase[b]
      BY <1>2, <2>3 DEF IInv, TypeOK
    <3> QED
      BY <1>3, <2>1, <3>1 DEF Uploading, IsBinary, FileOf
  <2> QED
    BY <2>2, <2>3
<1> DEFINE NamedThen(b) ==
             phase'[b] = "done" /\ remover'[b] = "none" /\ upload'[b] = "ready"
<1>11. \A b \in Commands : Named(b) => NamedThen(b)
  BY <1>2, <1>3 DEF Named, IInv, TypeOK
<1>12. ItemsNamed'
  <2> DEFINE Good(p) == p.blob # None =>
               NamedThen(p.blob) /\ FileOf(p.blob) = p.file
  <2>1. \A j \in Ids : \A n \in 1 .. Len(history[j]) :
          Good(history[j][n].payload)
    <3> SUFFICES ASSUME NEW j \in Ids, NEW n \in 1 .. Len(history[j]),
                        history[j][n].payload.blob # None
                 PROVE  /\ NamedThen(history[j][n].payload.blob)
                        /\ FileOf(history[j][n].payload.blob)
                             = history[j][n].payload.file
      OBVIOUS
    <3>1. history[j] \in Seq(Version)
      BY DEF IInv, TypeOK
    <3>2. history[j][n] \in Version
      BY <3>1
    <3>3. history[j][n].payload.blob \in Commands
      BY <3>2 DEF Version, Payload
    <3>4. /\ Named(history[j][n].payload.blob)
          /\ FileOf(history[j][n].payload.blob) = history[j][n].payload.file
      BY DEF IInv, ItemsNamed
    <3> HIDE DEF NamedThen
    <3> QED
      BY <1>11, <3>3, <3>4
  <2>2. Good(v.payload)
    <3>1. CASE v.payload = NewPayload(c)
      BY <1>3, <1>4, <1>9, <3>1, NewPayloadType
    <3>2. CASE v.payload # NewPayload(c)
      <4>1. v.payload = Last(history[i]).payload /\ history[i] # <<>>
        BY <1>1, <1>4, <3>2 DEF Appends, IInv, TypeOK, Command
      <4>2. /\ Len(history[i]) \in 1 .. Len(history[i])
            /\ Last(history[i]) = history[i][Len(history[i])]
        BY <4>1, LastVersion
      <4> HIDE DEF Good
      <4>3. Good(history[i][Len(history[i])].payload)
        BY <2>1, <4>2
      <4> QED
        BY <4>1, <4>2, <4>3
    <3> QED
      BY <3>1, <3>2
  <2>3. \A j \in Ids : \A n \in 1 .. Len(history'[j]) :
          Good(history'[j][n].payload)
    <3> SUFFICES ASSUME NEW j \in Ids, NEW n \in 1 .. Len(history'[j])
                 PROVE  Good(history'[j][n].payload)
      OBVIOUS
    <3> HIDE DEF Good
    <3>1. CASE j # i
      BY <1>6, <2>1, <3>1
    <3>2. CASE j = i /\ n = Len(history[i]) + 1
      BY <1>6, <2>2, <3>2
    <3>3. CASE j = i /\ n # Len(history[i]) + 1
      <4>1. Len(history[i]) \in Nat
        BY <1>5
      <4>2. n \in 1 .. Len(history[i])
        BY <1>6, <3>3, <4>1
      <4> QED
        BY <1>6, <2>1, <3>3, <4>2
    <3> QED
      BY <3>1, <3>2, <3>3
  <2> QED
    BY <1>3, <2>3 DEF ItemsNamed, Named, FileOf
<1>13. \A b \in Commands \ {c} : StoredOf(b)'
  <2> SUFFICES ASSUME NEW b \in Commands, b # c PROVE StoredOf(b)'
    OBVIOUS
  <2>1. StoredOf(b) /\ (phase[b] # "idle" => command[b] # None)
    BY DEF IInv, Uploading
  <2>2. /\ phase'[b] = phase[b] /\ exit'[b] = exit[b]
        /\ NewPayload(b)' = NewPayload(b)
    BY <1>2, <1>3 DEF IInv, TypeOK, NewPayload, FileOf
  <2>3. \A j \in Ids : /\ Len(history'[j]) >= Len(history[j])
                       /\ Len(history[j]) \in Nat
                       /\ \A n \in 1 .. Len(history[j]) :
                            history'[j][n] = history[j][n]
    <3> SUFFICES ASSUME NEW j \in Ids
                 PROVE  /\ Len(history'[j]) >= Len(history[j])
                        /\ Len(history[j]) \in Nat
                        /\ \A n \in 1 .. Len(history[j]) :
                             history'[j][n] = history[j][n]
      OBVIOUS
    <3>1. Len(history[j]) \in Nat
      BY DEF IInv, TypeOK
    <3>2. CASE j = i
      BY <1>6, <3>1, <3>2
    <3>3. CASE j # i
      BY <1>6, <3>1, <3>3
    <3> QED
      BY <3>2, <3>3
  <2>4. exit[b] = "ok" /\ command[b].kind = "create" =>
          \E j \in Ids : Len(history'[j]) > 0
                         /\ history'[j][1].payload = NewPayload(b)
    <3> SUFFICES ASSUME exit[b] = "ok", command[b].kind = "create"
                 PROVE  \E j \in Ids :
                          Len(history'[j]) > 0
                          /\ history'[j][1].payload = NewPayload(b)
      OBVIOUS
    <3>1. PICK j \in Ids : Len(history[j]) > 0
                           /\ history[j][1].payload = NewPayload(b)
      BY <2>1 DEF StoredOf
    <3>2. 1 \in 1 .. Len(history[j]) /\ Len(history'[j]) > 0
      BY <1>6, <2>3, <3>1 DEF IInv, TypeOK
    <3> QED
      BY <2>3, <3>1, <3>2
  <2>5. exit[b] = "ok" /\ command[b].kind \in {"update", "delete"} =>
          command[b].item \in Ids /\ command[b].version \in Nat
    <3> SUFFICES ASSUME exit[b] = "ok",
                        command[b].kind \in {"update", "delete"}
                 PROVE  command[b].item \in Ids /\ command[b].version \in Nat
      OBVIOUS
    <3>1. command[b] # None
      BY <2>1 DEF StoredOf
    <3>2. command[b].item \in Ids
      BY <3>1, ItemOf
    <3>3. command[b] \in Command
      BY <3>1 DEF IInv, TypeOK
    <3>4. command[b].version \in Versions \cup {0}
      BY <3>3 DEF Command
    <3>5. Versions \cup {0} \subseteq Nat
      <4>1. Versions \subseteq Nat \ {0}
        BY CliAssumption
      <4> QED
        BY <4>1
    <3> QED
      BY <3>2, <3>4, <3>5
  <2>6. exit[b] = "ok" /\ command[b].kind = "update" =>
          /\ Len(history'[command[b].item]) > command[b].version
          /\ history'[command[b].item][command[b].version + 1].payload
               = NewPayload(b)
    <3> SUFFICES ASSUME exit[b] = "ok", command[b].kind = "update"
                 PROVE  /\ Len(history'[command[b].item]) > command[b].version
                        /\ history'[command[b].item]
                             [command[b].version + 1].payload = NewPayload(b)
      OBVIOUS
    <3> DEFINE j == command[b].item
               n == command[b].version
    <3>1. /\ j \in Ids /\ n \in Nat /\ Len(history[j]) > n
          /\ history[j][n + 1].payload = NewPayload(b)
      BY <2>1, <2>5 DEF StoredOf
    <3> HIDE DEF j, n
    <3>2. n + 1 \in 1 .. Len(history[j]) /\ Len(history'[j]) > n
      BY <1>6, <2>3, <3>1 DEF IInv, TypeOK
    <3>3. history'[j][n + 1].payload = NewPayload(b)
      BY <2>3, <3>1, <3>2
    <3> QED
      BY <3>2, <3>3 DEF j, n
  <2>7. exit[b] = "ok" /\ command[b].kind = "delete" =>
          command[b].item # i
    <3> SUFFICES ASSUME exit[b] = "ok", command[b].kind = "delete",
                        command[b].item = i
                 PROVE  FALSE
      OBVIOUS
    <3>1. Len(history[i]) = command[b].version + 1 /\ Last(history[i]).deleted
      BY <2>1 DEF StoredOf
    <3>2. history[i] # <<>>
      BY <2>5, <3>1
    <3> QED
      BY <1>1, <3>1, <3>2 DEF Appends
  <2>8. exit[b] = "ok" /\ command[b].kind = "delete" =>
          history'[command[b].item] = history[command[b].item]
    BY <1>6, <2>5, <2>7
  <2> QED
    BY <1>3, <2>1, <2>2, <2>4, <2>6, <2>8 DEF StoredOf
<1>14. StoredOf(c)'
  <2> DEFINE n == command[c].version
  <2>1. UNCHANGED command /\ NewPayload(c)' = NewPayload(c)
    BY <1>3 DEF NewPayload, FileOf
  <2>2. CASE command[c].kind = "create"
    <3>1. history[i] = <<>> /\ v.payload = NewPayload(c)
      BY <1>1, <2>2 DEF Appends
    <3>2. Len(history[i]) = 0
      BY <3>1
    <3>3. Len(history'[i]) > 0 /\ history'[i][1].payload = NewPayload(c)
      BY <1>6, <3>1, <3>2
    <3> QED
      BY <1>9, <2>1, <2>2, <3>3 DEF StoredOf
  <2>3. CASE command[c].kind \in {"update", "delete"}
    <3>1. i = command[c].item /\ Len(history[i]) = n /\ n \in Nat
      BY <1>1, <1>5, <2>3 DEF Appends
    <3>2. Len(history'[i]) = n + 1 /\ history'[i][n + 1] = v
      BY <1>6, <3>1
    <3>3. Last(history'[i]) = v
      BY <3>2 DEF Last
    <3>4. n + 1 > n
      BY <3>1
    <3>5. /\ command[c].kind = "update" => v.payload = NewPayload(c)
          /\ command[c].kind = "delete" => v.deleted
      BY <1>1 DEF Appends
    <3> QED
      BY <1>9, <2>1, <2>3, <3>1, <3>2, <3>3, <3>4, <3>5 DEF StoredOf
  <2>4. command[c].kind \in {"create", "update", "delete"}
    BY <1>1, <1>4 DEF Appends, IInv, TypeOK, Command
  <2> QED
    BY <2>2, <2>3, <2>4
<1> QED
  BY <1>7, <1>8, <1>10, <1>12, <1>13, <1>14 DEF IInv

----------------------------------------------------------------------------
(* Theorems                                                                *)

LEMMA OtherProgramInv ==
  ASSUME IInv, NEW n \in Names, OtherProgram(n)
  PROVE  IInv'
<1>1. /\ disk' = [disk EXCEPT ![n] = "foreign"]
      /\ UNCHANGED <<history, upload, stored, objects, handler, remover,
                     command, phase, sent, got, exit>>
  BY DEF OtherProgram, server, client
<1>2. TypeOK'
  BY <1>1 DEF IInv, TypeOK, Other
<1>3. \A c \in Commands :
        Asked(c)' /\ Uploading(c)' /\ StoredOf(c)' /\ (Named(c) => Named(c)')
  BY <1>1, KeptInv DEF IInv, Kept
<1>4. ItemsNamed'
  BY <1>1 DEF IInv, ItemsNamed, Named, FileOf
<1> QED
  BY <1>2, <1>3, <1>4 DEF IInv

LEMMA StepInv == IInv /\ [Next]_vars => IInv'
<1> SUFFICES ASSUME IInv, [Next]_vars PROVE IInv'
  OBVIOUS
<1>1. CASE \E c \in Commands : ClientStep(c)
  BY <1>1, RunInv, FailInv, CreateUploadInv, UploadMovesInv, CallAbortInv,
     WriteInv, GetMovesInv
  DEF ClientStep
<1>2. CASE \E c \in Commands : ServerStep(c)
  BY <1>2, StoreChunkInv, CommitUploadInv, EndStreamInv, AbortInv
  DEF ServerStep
<1>3. CASE \E n \in Names : OtherProgram(n)
  BY <1>3, OtherProgramInv
<1>4. CASE UNCHANGED vars
  <2>1. UNCHANGED <<history, upload, stored, objects, handler, remover, disk,
                    command, phase, sent, got, exit>>
    BY <1>4 DEF vars, server, client
  <2>2. TypeOK'
    BY <2>1 DEF IInv, TypeOK
  <2>3. \A c \in Commands : Asked(c)' /\ Uploading(c)' /\ StoredOf(c)'
    BY <2>1, KeptInv DEF IInv, Kept
  <2>4. ItemsNamed'
    BY <2>1 DEF IInv, ItemsNamed, Named, FileOf
  <2> QED
    BY <2>2, <2>3, <2>4 DEF IInv
<1> QED
  BY <1>1, <1>2, <1>3, <1>4 DEF Next

LEMMA InvHolds == Spec => []IInv
BY InitInv, StepInv, PTL DEF Spec

(* The variables keep their types (vault_commands.go and the calls it      *)
(* makes).                                                                 *)
THEOREM TypeCorrect == Spec => []TypeOK
<1>1. IInv => TypeOK
  BY DEF IInv
<1> QED
  BY <1>1, InvHolds, PTL

(* A blob an item names stays ready and whole, although aborts remove the  *)
(* objects of ready blobs (binary_blob_flow.go UploadBinary: a blob that   *)
(* may have been aborted is never returned).                               *)
THEOREM NamedBlobsAreWhole == Spec => []ItemsAreReadable
<1>1. IInv => ItemsAreReadable
  <2> SUFFICES ASSUME IInv, NEW i \in Ids, NEW n \in DOMAIN history[i],
                      history[i][n].payload.blob # None
               PROVE  Intact(history[i][n].payload)
    BY DEF ItemsAreReadable
  <2> DEFINE p == history[i][n].payload
             b == p.blob
  <2>1. n \in 1 .. Len(history[i]) /\ history[i][n] \in Version
    <3>1. history[i] \in Seq(Version)
      BY DEF IInv, TypeOK
    <3> QED
      BY <3>1
  <2>2. b \in Commands
    BY <2>1 DEF Version, Payload
  <2>3. Named(b) /\ FileOf(b) = p.file
    BY <2>1 DEF IInv, ItemsNamed
  <2>4. Uploading(b)
    BY <2>2 DEF IInv
  <2> HIDE DEF p
  <2> QED
    BY <2>3, <2>4 DEF Intact, Named, Uploading, p
<1> QED
  BY <1>1, InvHolds, PTL

(* What was reported as stored is there, as the version that follows the   *)
(* one the user named (vault_flow.go CreateSecret, UpdateSecret,           *)
(* DeleteSecret).                                                          *)
THEOREM SuccessesAreStored == Spec => []SuccessIsStored
<1>1. IInv => SuccessIsStored
  <2> SUFFICES ASSUME IInv, NEW c \in Commands, exit[c] = "ok"
               PROVE  CASE command[c].kind = "create" ->
                             \E i \in Ids :
                               /\ history[i] # <<>>
                               /\ history[i][1].payload = NewPayload(c)
                        [] command[c].kind = "update" ->
                             LET versions == history[command[c].item] IN
                             /\ Len(versions) > command[c].version
                             /\ versions[command[c].version + 1].payload
                                  = NewPayload(c)
                        [] command[c].kind = "delete" ->
                             Len(history[command[c].item])
                               = command[c].version + 1
                        [] command[c].kind = "get" -> TRUE
    BY DEF SuccessIsStored
  <2>1. StoredOf(c) /\ Uploading(c)
    BY DEF IInv
  <2>2. command[c] \in Command
    BY <2>1 DEF StoredOf, Uploading, IInv, TypeOK
  <2>3. command[c].kind \in {"create", "update", "delete", "get"}
    BY <2>2 DEF Command
  <2>4. \A i \in Ids : Len(history[i]) > 0 => history[i] # <<>>
    BY DEF IInv, TypeOK
  <2> QED
    BY <2>1, <2>3, <2>4 DEF StoredOf
<1> QED
  BY <1>1, InvHolds, PTL

----------------------------------------------------------------------------
(* The files a get writes                                                  *)

(* No other get of a file of that name is past its check.                  *)
Unrivalled(c) ==
  \A d \in Commands \ {c} :
    PastStat(d) => got[d] = None \/ OutputName(d) # OutputName(c)

Reported(c) == exit[c] = "ok" /\ command[c].kind = "get"

(* From its OpenFile on, the file is the command's alone: first empty, and *)
(* whole when it is reported.                                              *)
FileOfGet(c) ==
  /\ got[c] # None => PastStat(c) \/ phase[c] = "stat"
  /\ Reported(c) => got[c] # None
  /\ got[c] # None /\ Unrivalled(c) =>
       /\ phase[c] = "fill" => disk[OutputName(c)] = "empty"
       /\ Reported(c) /\ got[c].blob # None =>
            disk[OutputName(c)] = got[c].file

FilesOfGets == \A c \in Commands : FileOfGet(c)

(* The process moves by its own steps only.                                *)
LEMMA ProcessMoves ==
  ASSUME TypeOK, [Next]_vars, NEW c \in Commands
  PROVE  \/ ClientStep(c)
         \/ /\ phase'[c] = phase[c] /\ exit'[c] = exit[c]
            /\ got'[c] = got[c]     /\ command'[c] = command[c]
<1> DEFINE Same == /\ phase'[c] = phase[c] /\ exit'[c] = exit[c]
                   /\ got'[c] = got[c]     /\ command'[c] = command[c]
<1> USE DEF TypeOK, client, server, Goto, Exit
<1>1. ASSUME NEW d \in Commands, d # c,
             Run(d) \/ Fail(d) \/ CreateUpload(d) \/ Send(d) \/ Uploaded(d)
               \/ GiveUp(d) \/ CallAbort(d) \/ Write(d)
      PROVE  Same
  BY <1>1 DEF Run, Fail, CreateUpload, Send, Uploaded, GiveUp, CallAbort, Write
<1>2. ASSUME NEW d \in Commands, d # c,
             GetSecret(d) \/ Stat(d) \/ DownloadBinary(d) \/ OpenFile(d)
               \/ Fill(d)
      PROVE  Same
  BY <1>2 DEF GetSecret, Stat, DownloadBinary, OpenFile, Fill
<1>3. ASSUME NEW d \in Commands, ServerStep(d) PROVE Same
  BY <1>3 DEF ServerStep, StoreChunk, CommitUpload, EndStream, RemoveObject,
              EndAbort
<1>4. ASSUME NEW n \in Names, OtherProgram(n) PROVE Same
  BY <1>4 DEF OtherProgram
<1>5. CASE UNCHANGED vars
  BY <1>5 DEF vars
<1> QED
  BY <1>1, <1>2, <1>3, <1>4, <1>5 DEF Next, ClientStep

(* Of all the steps only these touch the output directory.                 *)
LEMMA OnlyTheseTouchDisk ==
  ASSUME [Next]_vars
  PROVE  \/ disk' = disk
         \/ \E d \in Commands : OpenFile(d) \/ Fill(d)
         \/ \E n \in Names : OtherProgram(n)
<1> USE DEF server
<1>1. ASSUME NEW d \in Commands, ClientStep(d), ~ OpenFile(d), ~ Fill(d)
      PROVE  disk' = disk
  BY <1>1 DEF ClientStep, Run, Fail, CreateUpload, Send, Uploaded, GiveUp,
              CallAbort, Write, GetSecret, Stat, DownloadBinary
<1>2. ASSUME NEW d \in Commands, ServerStep(d) PROVE disk' = disk
  BY <1>2 DEF ServerStep, StoreChunk, CommitUpload, EndStream, RemoveObject,
              EndAbort
<1>3. CASE UNCHANGED vars
  BY <1>3 DEF vars
<1> QED
  BY <1>1, <1>2, <1>3 DEF Next

(* What a get has read stays, once it is past its check.                   *)
LEMMA PastStays ==
  ASSUME IInv, [Next]_vars, NEW d \in Commands, PastStat(d)
  PROVE  PastStat(d)' /\ got'[d] = got[d]
<1>1. TypeOK
  BY DEF IInv
<1>2. ASSUME ClientStep(d) PROVE PastStat(d)' /\ got'[d] = got[d]
  <2> USE <1>1 DEF TypeOK, PastStat, server, Goto, Exit
  <2>1. CASE Run(d) \/ CreateUpload(d) \/ Send(d) \/ Uploaded(d) \/ GiveUp(d)
               \/ CallAbort(d) \/ Write(d) \/ GetSecret(d) \/ Stat(d)
    BY <2>1 DEF Run, CreateUpload, Send, Uploaded, GiveUp, CallAbort, Write,
                GetSecret, Stat
  <2>2. CASE Fail(d) \/ DownloadBinary(d) \/ OpenFile(d) \/ Fill(d)
    BY <2>2 DEF Fail, DownloadBinary, OpenFile, Fill
  <2> QED
    BY <1>2, <2>1, <2>2 DEF ClientStep
<1> QED
  BY <1>1, <1>2, ProcessMoves DEF PastStat

LEMMA UnrivalledBefore ==
  ASSUME IInv, [Next]_vars, NEW c \in Commands, got'[c] = got[c],
         Unrivalled(c)'
  PROVE  Unrivalled(c)
BY PastStays DEF Unrivalled, OutputName

LEMMA NameOf ==
  ASSUME TypeOK, NEW c \in Commands, got[c] # None
  PROVE  OutputName(c) \in Names
BY DEF TypeOK, Payload, OutputName, Names

(* The file of a get that rests is touched by no one else.                 *)
LEMMA RestingFile ==
  ASSUME IInv, [Next]_vars, NEW c \in Commands, got[c] # None,
         got'[c] = got[c], Unrivalled(c)', ~ OpenFile(c), ~ Fill(c),
         disk[OutputName(c)] # None
  PROVE  disk'[OutputName(c)] = disk[OutputName(c)]
<1>1. TypeOK /\ OutputName(c) \in Names /\ Unrivalled(c)
  BY NameOf, UnrivalledBefore DEF IInv
<1>2. ASSUME NEW d \in Commands, OpenFile(d) \/ Fill(d)
      PROVE  disk'[OutputName(c)] = disk[OutputName(c)]
  <2>1. d # c /\ phase[d] \in {"open", "fill"}
    BY <1>2 DEF OpenFile, Fill
  <2>2. got[d] # None /\ PastStat(d)
    BY <2>1 DEF IInv, StoredOf, PastStat
  <2>3. OutputName(d) # OutputName(c)
    BY <1>1, <2>1, <2>2 DEF Unrivalled
  <2> QED
    BY <1>1, <1>2, <2>3 DEF OpenFile, Fill, TypeOK
<1>3. ASSUME NEW n \in Names, OtherProgram(n)
      PROVE  disk'[OutputName(c)] = disk[OutputName(c)]
  BY <1>1, <1>3 DEF OtherProgram, TypeOK
<1> QED
  BY <1>2, <1>3, OnlyTheseTouchDisk
(* What a get does itself.                                                 *)
LEMMA GetStep ==
  ASSUME IInv, [Next]_vars, NEW c \in Commands, FileOfGet(c),
         GetSecret(c) \/ Stat(c) \/ DownloadBinary(c) \/ OpenFile(c) \/ Fill(c)
  PROVE  FileOfGet(c)'
<1> USE DEF server, Goto, Exit
<1>1. TypeOK /\ StoredOf(c)
  BY DEF IInv
<1>2. CASE GetSecret(c)
  <2> DEFINE p == Last(history[command[c].item]).payload
  <2>1. /\ phase[c] = "get" /\ got'[c] = p
        /\ \/ p.blob = None /\ phase'[c] = "done"
           \/ phase'[c] = "stat" /\ exit'[c] = exit[c]
    BY <1>1, <1>2 DEF GetSecret, TypeOK
  <2> HIDE DEF p
  <2>2. exit[c] # "ok"
    BY <1>1, <2>1 DEF StoredOf
  <2>3. got'[c] # None
    <3>1. command[c] # None /\ command[c].kind = "get"
      BY <1>1, <2>1 DEF IInv, Uploading, StoredOf
    <3>2. command[c].item \in Ids /\ history[command[c].item] # <<>>
      BY <1>2, <3>1, ItemOf DEF GetSecret
    <3>3. Last(history[command[c].item]) \in Version
      BY <3>2, LastVersion
    <3> QED
      BY <2>1, <3>3, CliAssumption DEF p, Version
  <2> QED
    BY <2>1, <2>2, <2>3 DEF FileOfGet, Reported, PastStat
<1>3. CASE Stat(c) \/ DownloadBinary(c)
  <2>1. /\ phase[c] \in {"stat", "download"} /\ phase'[c] \in {"download", "open"}
        /\ exit'[c] = exit[c] /\ got'[c] = got[c]
    BY <1>1, <1>3 DEF Stat, DownloadBinary, TypeOK
  <2>2. exit[c] # "ok"
    BY <1>1, <2>1 DEF StoredOf
  <2> QED
    BY <2>1, <2>2 DEF FileOfGet, Reported, PastStat
<1>4. CASE OpenFile(c)
  <2>1. /\ phase[c] = "open" /\ phase'[c] = "fill"
        /\ exit'[c] = exit[c] /\ got' = got
        /\ disk' = [disk EXCEPT ![OutputName(c)] = "empty"]
    BY <1>1, <1>4 DEF OpenFile, TypeOK
  <2>2. exit[c] # "ok" /\ got[c] # None
    BY <1>1, <2>1 DEF StoredOf
  <2>3. disk'[OutputName(c)] = "empty"
    BY <1>1, <2>1, <2>2, NameOf DEF TypeOK
  <2>4. OutputName(c)' = OutputName(c)
    BY <2>1 DEF OutputName
  <2> QED
    BY <2>1, <2>2, <2>3, <2>4 DEF FileOfGet, Reported, PastStat
<1>5. CASE Fill(c)
  <2>1. PICK content \in {got[c].file, "mixed"} :
          /\ content = "mixed" =>
               disk[OutputName(c)] \notin {"empty", got[c].file}
          /\ disk' = [disk EXCEPT ![OutputName(c)] = content]
    BY <1>5 DEF Fill
  <2>2. /\ phase[c] = "fill" /\ phase'[c] = "done" /\ got' = got
    BY <1>1, <1>5 DEF Fill, TypeOK
  <2>3. got[c] # None
    BY <1>1, <2>2 DEF StoredOf
  <2>4. OutputName(c)' = OutputName(c)
    BY <2>2 DEF OutputName
  <2>5. Unrivalled(c)' => disk'[OutputName(c)] = got[c].file
    <3> SUFFICES ASSUME Unrivalled(c)' PROVE disk'[OutputName(c)] = got[c].file
      OBVIOUS
    <3>1. disk[OutputName(c)] = "empty"
      BY <2>2, <2>3, UnrivalledBefore DEF FileOfGet
    <3>2. content = got[c].file
      BY <2>1, <3>1
    <3> QED
      BY <1>1, <2>1, <2>3, <3>2, NameOf DEF TypeOK
  <2> QED
    BY <2>2, <2>3, <2>4, <2>5 DEF FileOfGet, Reported, PastStat
<1> QED
  BY <1>2, <1>3, <1>4, <1>5

(* What the other commands do is no matter of a get's.                     *)
LEMMA WriterStep ==
  ASSUME IInv, [Next]_vars, NEW c \in Commands, FileOfGet(c),
         \/ Run(c) \/ CreateUpload(c) \/ Send(c) \/ Uploaded(c) \/ GiveUp(c)
         \/ CallAbort(c) \/ Write(c)
  PROVE  FileOfGet(c)'
<1> USE DEF server, Goto, Exit
<1>1. TypeOK /\ StoredOf(c)
  BY DEF IInv
<1>2. /\ phase[c] \in {"idle", "upload", "send", "wait", "abort", "write"}
      /\ got'[c] = got[c]
  BY <1>1 DEF Run, CreateUpload, Send, Uploaded, GiveUp, CallAbort, Write
<1>3. got[c] = None /\ exit[c] # "ok"
  BY <1>1, <1>2 DEF FileOfGet, PastStat, StoredOf
<1>4. ~ Reported(c)'
  <2>1. CASE Write(c)
    <3>1. command[c].kind # "get" /\ command' = command
      BY <2>1 DEF Write, CreateSecret, UpdateSecret, DeleteSecret
    <3> QED
      BY <3>1 DEF Reported
  <2>2. CASE Run(c) \/ Send(c) \/ Uploaded(c) \/ GiveUp(c)
    BY <1>1, <1>3, <2>2 DEF Run, Send, Uploaded, GiveUp, Reported
  <2>3. CASE CreateUpload(c) \/ CallAbort(c)
    BY <1>1, <1>3, <2>3 DEF CreateUpload, CallAbort, Reported, TypeOK
  <2> QED
    BY <2>1, <2>2, <2>3
<1> QED
  BY <1>2, <1>3, <1>4 DEF FileOfGet

LEMMA FilesStep == IInv /\ FilesOfGets /\ [Next]_vars => FilesOfGets'
<1> SUFFICES ASSUME IInv, FilesOfGets, [Next]_vars, NEW c \in Commands
             PROVE  FileOfGet(c)'
  BY DEF FilesOfGets
<1>1. FileOfGet(c) /\ TypeOK
  BY DEF FilesOfGets, IInv
<1>2. CASE Fail(c)
  <2>1. /\ phase[c] \notin {"idle", "done"} /\ phase'[c] = "done"
        /\ exit'[c] = "failed" /\ got'[c] = got[c]
    BY <1>1, <1>2 DEF Fail, Exit, TypeOK
  <2> QED
    BY <1>1, <2>1 DEF FileOfGet, Reported, PastStat
<1>3. CASE /\ phase'[c] = phase[c] /\ exit'[c] = exit[c]
           /\ got'[c] = got[c]     /\ command'[c] = command[c]
  <2>1. OutputName(c)' = OutputName(c) /\ (Reported(c)' <=> Reported(c))
    BY <1>3 DEF OutputName, Reported
  <2>2. ASSUME got[c] # None, Unrivalled(c)', phase[c] = "fill"
        PROVE  disk'[OutputName(c)] = "empty"
    <3>1. disk[OutputName(c)] = "empty"
      BY <1>1, <1>3, <2>2, UnrivalledBefore DEF FileOfGet
    <3>2. ~ OpenFile(c) /\ ~ Fill(c)
      BY <1>1, <1>3, <2>2 DEF OpenFile, Fill, Exit, TypeOK
    <3>3. disk[OutputName(c)] # None
      BY <3>1, CliAssumption DEF Other
    <3> QED
      BY <1>3, <2>2, <3>1, <3>2, <3>3, RestingFile
  <2>3. ASSUME got[c] # None, Unrivalled(c)', Reported(c), got[c].blob # None
        PROVE  disk'[OutputName(c)] = got[c].file
    <3>1. disk[OutputName(c)] = got[c].file
      BY <1>1, <1>3, <2>3, UnrivalledBefore DEF FileOfGet
    <3>2. ~ OpenFile(c) /\ ~ Fill(c)
      BY <2>3 DEF OpenFile, Fill, Reported, IInv, StoredOf
    <3>3. got[c].file # None
      BY <1>1, <2>3, CliAssumption DEF TypeOK, Payload
    <3> QED
      BY <1>3, <2>3, <3>1, <3>2, <3>3, RestingFile
  <2> QED
    BY <1>1, <1>3, <2>1, <2>2, <2>3 DEF FileOfGet, PastStat
<1> QED
  BY <1>1, <1>2, <1>3, GetStep, WriterStep, ProcessMoves DEF ClientStep

(* The file a get reported is whole, unless another get of a file of that  *)
(* name passed its check meanwhile (vault_commands.go printSecret).        *)
THEOREM ReportedFilesAreWhole == Spec => []ReportedFileIsWhole
<1>1. Init => FilesOfGets
  BY DEF Init, FilesOfGets, FileOfGet, Reported
<1>2. FilesOfGets => ReportedFileIsWhole
  BY DEF FilesOfGets, FileOfGet, Reported, Unrivalled, ReportedFileIsWhole
<1> QED
  BY <1>1, <1>2, FilesStep, InvHolds, PTL DEF Spec

----------------------------------------------------------------------------
(* The blobs a get fetches                                                 *)

LEMMA NamedStays ==
  ASSUME IInv, [Next]_vars, NEW b \in Commands, Named(b)
  PROVE  Named(b)' /\ command'[b] = command[b]
<1> USE DEF server, client, Goto, Exit
<1>1. TypeOK
  BY DEF IInv
<1>2. phase[b] = "done" /\ remover[b] = "none" /\ upload[b] = "ready"
  BY DEF Named
<1>3. ~ ClientStep(b)
  BY <1>2 DEF ClientStep, Run, Fail, CreateUpload, Send, Uploaded, GiveUp,
              CallAbort, Write, GetSecret, Stat, DownloadBinary, OpenFile, Fill
<1>4. phase'[b] = phase[b] /\ command'[b] = command[b]
  BY <1>1, <1>3, ProcessMoves
<1> DEFINE Same == remover'[b] = remover[b] /\ upload'[b] = upload[b]
<1>5. ASSUME NEW d \in Commands, ClientStep(d) PROVE Same
  <2>1. d # b
    BY <1>3, <1>5
  <2>2. CASE CreateUpload(d) \/ CallAbort(d)
    BY <1>1, <2>1, <2>2 DEF CreateUpload, CallAbort, TypeOK
  <2>3. CASE ~ CreateUpload(d) /\ ~ CallAbort(d)
    BY <1>5, <2>3 DEF ClientStep, Run, Fail, Send, Uploaded, GiveUp, Write,
                      GetSecret, Stat, DownloadBinary, OpenFile, Fill
  <2> QED
    BY <2>2, <2>3
<1>6. ASSUME NEW d \in Commands, ServerStep(d) PROVE Same
  <2>1. CASE CommitUpload(d) \/ EndAbort(d)
    <3>1. d # b
      BY <1>2, <2>1 DEF CommitUpload, EndAbort
    <3> QED
      BY <1>1, <2>1, <3>1 DEF CommitUpload, EndAbort, TypeOK
  <2>2. CASE StoreChunk(d) \/ EndStream(d) \/ RemoveObject(d)
    BY <2>2 DEF StoreChunk, EndStream, RemoveObject
  <2> QED
    BY <1>6, <2>1, <2>2 DEF ServerStep
<1>7. ASSUME \/ \E n \in Names : OtherProgram(n)
             \/ UNCHANGED vars
      PROVE  Same
  BY <1>7 DEF OtherProgram, vars
<1>8. Same
  BY <1>5, <1>6, <1>7 DEF Next
<1> QED
  BY <1>2, <1>4, <1>8 DEF Named

(* What a get has read was named by its item then, and is still whole.     *)
Fetchable(c) ==
  /\ phase[c] \in {"stat", "download"} => got[c] # None /\ got[c].blob # None
  /\ got[c] # None /\ got[c].blob # None =>
       Named(got[c].blob) /\ FileOf(got[c].blob) = got[c].file

LEMMA GotBlob ==
  ASSUME TypeOK, NEW c \in Commands, got[c] # None, got[c].blob # None
  PROVE  got[c].blob \in Commands
BY DEF TypeOK, Payload

LEMMA FetchableKept ==
  ASSUME IInv, [Next]_vars, NEW c \in Commands, Fetchable(c),
         got'[c] = got[c],
         phase'[c] \in {"stat", "download"} =>
           phase[c] \in {"stat", "download"}
  PROVE  Fetchable(c)'
<1>1. ASSUME got[c] # None, got[c].blob # None
      PROVE  (Named(got[c].blob) /\ FileOf(got[c].blob) = got[c].file)'
  <2>1. PICK b \in Commands : b = got[c].blob
    BY <1>1, GotBlob DEF IInv
  <2>2. Named(b) /\ FileOf(b) = got[c].file
    BY <1>1, <2>1 DEF Fetchable
  <2>3. Named(b)' /\ command'[b] = command[b]
    BY <2>2, NamedStays
  <2> QED
    BY <2>1, <2>2, <2>3 DEF FileOf, Named
<1> QED
  BY <1>1 DEF Fetchable

LEMMA FetchableRead ==
  ASSUME IInv, NEW c \in Commands, GetSecret(c)
  PROVE  Fetchable(c)'
<1> DEFINE i == command[c].item
           p == Last(history[i]).payload
<1>1. /\ TypeOK /\ phase[c] = "get" /\ history[i] # <<>>
      /\ got' = [got EXCEPT ![c] = p]
      /\ IF p.blob = None
         THEN phase' = [phase EXCEPT ![c] = "done"]
         ELSE phase' = [phase EXCEPT ![c] = "stat"]
      /\ UNCHANGED <<upload, remover, command>>
  BY DEF GetSecret, server, Goto, Exit, IInv
<1>2. i \in Ids
  <2>1. command[c] # None /\ command[c].kind = "get"
    BY <1>1 DEF IInv, Uploading, StoredOf
  <2> QED
    BY <2>1, ItemOf
<1>3. /\ Len(history[i]) \in 1 .. Len(history[i])
      /\ Last(history[i]) = history[i][Len(history[i])]
      /\ Last(history[i]) \in Version
  BY <1>1, <1>2, LastVersion
<1>4. p \in Payload /\ p # None
  BY <1>3, CliAssumption DEF Version
<1>5. p.blob # None =>
        p.blob \in Commands /\ Named(p.blob) /\ FileOf(p.blob) = p.file
  BY <1>2, <1>3, <1>4 DEF IInv, ItemsNamed, Payload
<1> HIDE DEF p
<1>6. /\ got'[c] = p
      /\ \/ phase'[c] = "stat" /\ p.blob # None
         \/ phase'[c] = "done"
  BY <1>1 DEF TypeOK
<1>7. ASSUME p.blob # None
      PROVE  /\ phase'[p.blob] = "done" /\ remover'[p.blob] = "none"
             /\ upload'[p.blob] = "ready" /\ command'[p.blob].file = p.file
  BY <1>1, <1>5, <1>7 DEF Named, FileOf, TypeOK
<1> QED
  BY <1>4, <1>6, <1>7 DEF Fetchable, Named, FileOf

LEMMA FetchableStep ==
  ASSUME IInv, [Next]_vars, NEW c \in Commands, Fetchable(c)
  PROVE  Fetchable(c)'
<1> USE DEF server, Goto, Exit
<1>1. TypeOK
  BY DEF IInv
<1>2. CASE Run(c) \/ Fail(c) \/ CreateUpload(c) \/ Send(c) \/ Uploaded(c)
             \/ GiveUp(c) \/ CallAbort(c) \/ Write(c)
  <2>1. got'[c] = got[c] /\ phase'[c] \notin {"stat", "download"}
    BY <1>1, <1>2 DEF Run, FirstPhase, Fail, CreateUpload, Send, Uploaded,
                      GiveUp, CallAbort, Write, TypeOK
  <2> QED
    BY <2>1, FetchableKept
<1>3. CASE Stat(c) \/ DownloadBinary(c) \/ OpenFile(c) \/ Fill(c)
  <2>1. /\ got'[c] = got[c]
        /\ phase'[c] \in {"stat", "download"} =>
             phase[c] \in {"stat", "download"}
    BY <1>1, <1>3 DEF Stat, DownloadBinary, OpenFile, Fill, TypeOK
  <2> QED
    BY <2>1, FetchableKept
<1>4. CASE GetSecret(c)
  BY <1>4, FetchableRead
<1>5. CASE phase'[c] = phase[c] /\ got'[c] = got[c]
  BY <1>5, FetchableKept
<1> QED
  BY <1>1, <1>2, <1>3, <1>4, <1>5, ProcessMoves DEF ClientStep

(* A get that has read an item can fetch the file whatever becomes of the  *)
(* item and of other uploads meanwhile (vault_commands.go runGetSecret and *)
(* printSecret, which asks for the directory in between).                  *)
THEOREM ReadSecretsAreFetchable == Spec => []ReadSecretsStayFetchable
<1> DEFINE AllFetchable == \A c \in Commands : Fetchable(c)
<1>1. Init => AllFetchable
  BY DEF Init, Fetchable
<1>2. IInv /\ AllFetchable /\ [Next]_vars => AllFetchable'
  BY FetchableStep
<1>3. IInv /\ AllFetchable => ReadSecretsStayFetchable
  <2> SUFFICES ASSUME IInv, AllFetchable, NEW c \in Commands,
                      phase[c] \in {"stat", "download"}
               PROVE  Intact(got[c])
    BY DEF ReadSecretsStayFetchable
  <2> DEFINE b == got[c].blob
  <2>1. got[c] # None /\ b # None /\ Named(b) /\ FileOf(b) = got[c].file
    BY DEF Fetchable
  <2>2. b \in Commands
    BY <2>1, GotBlob DEF IInv
  <2>3. Uploading(b)
    BY <2>2 DEF IInv
  <2> QED
    BY <2>1, <2>3 DEF Intact, Named, Uploading
<1> QED
  BY <1>1, <1>2, <1>3, InvHolds, PTL DEF Spec

=============================================================================
