-------------------------------- MODULE Blob --------------------------------
(***************************************************************************)
(* The blob service of the GophKeeper server: upload sessions, their       *)
(* accepted chunks, and the blobs made of them.                            *)
(*                                                                         *)
(* Metadata is in three PostgreSQL tables, the bytes are objects in MinIO, *)
(* and no transaction spans the two.  Every gRPC call is a handler of its  *)
(* own: an UploadBlob stream, an AbortBlobUpload or a DownloadBlob.  Each  *)
(* query, transaction and object operation of a handler is one action, so  *)
(* that handlers interleave between them.                                  *)
(*                                                                         *)
(* A chunk's bytes, and the size and checksum its client declared for      *)
(* them, are one positive number, the size: payloads of different sizes    *)
(* are all the properties tell apart.  0 stands for no row and no object.  *)
(***************************************************************************)
EXTENDS Naturals, FiniteSets, Functions

CONSTANTS
  Users,      \* user ids; authentication has already put one in the context
  Uploads,    \* ids of upload sessions
  Streams,    \* UploadBlob calls; a stream also names the blob it creates
  Aborts,     \* AbortBlobUpload calls
  Downloads,  \* DownloadBlob calls
  Indexes,    \* chunk indexes; nothing bounds them by expected_chunks
  Payloads,   \* bound: the payloads clients send
  Plans,      \* bound: the sizes clients declare to CreateBlobUpload
  None        \* no row; no input received yet

Plan == [chunks: Nat \ {0}, size: Nat \ {0}, limit: Nat \ {0}]

ASSUME BlobAssumption ==
  /\ Indexes \subseteq Nat
  /\ IsFiniteSet(Indexes)
  /\ Payloads \subseteq Nat \ {0}
  /\ Plans \subseteq Plan
  /\ Streams \cap Aborts = {}
  /\ Streams \cap Downloads = {}
  /\ Aborts \cap Downloads = {}
  /\ None \notin Users \cup Uploads \cup Streams
  /\ None \notin [owner: Users, plan: Plan]
  /\ None \notin [index: Indexes, data: Payloads]
  /\ None \notin [owner: Users, upload: Uploads, count: Nat, size: Nat]

VARIABLES
  session,   \* blob_uploads: owner and expectations of each upload
  status,    \* blob_uploads.status
  received,  \* blob_uploads.received_chunks
  expired,   \* expires_at has passed
  parts,     \* blob_upload_parts: the payload declared for each chunk
  objects,   \* MinIO: the payload stored under each chunk's key
  blobs,     \* blobs: the row each stream created
  phase,     \* where the handler of each call is
  user,      \* the authenticated caller
  target,    \* the upload id, or blob id, the call names
  chunk,     \* the chunk a stream is handling
  counted,   \* the COUNT of parts as the stream's UPDATE statement saw it
  rows,      \* the listed parts a call has not come to yet
  sent,      \* the payloads a download has sent
  outcome    \* the status the handler answered with

store == <<session, status, received, expired, parts, objects, blobs>>
calls == <<phase, user, target, chunk, counted, rows, sent, outcome>>
vars  == <<store, calls>>

Calls == Streams \cup Aborts \cup Downloads

NoChunks == [i \in Indexes |-> 0]

Session == [owner: Users, plan: Plan]
Statuses == {"none", "created", "uploading", "committed", "aborted"}
BlobRow == [owner: Users, upload: Uploads, count: Nat, size: Nat]
Phases == {"idle", "find", "put", "part", "counting", "recv", "finish",
           "commit", "list", "remove", "send", "done"}
Outcomes == {"none", "ok", "invalid", "notfound", "denied", "expired",
             "incomplete", "internal"}

TypeOK ==
  /\ session \in [Uploads -> Session \cup {None}]
  /\ status \in [Uploads -> Statuses]
  /\ received \in [Uploads -> Nat]
  /\ expired \in [Uploads -> BOOLEAN]
  /\ parts \in [Uploads -> [Indexes -> Nat]]
  /\ objects \in [Uploads -> [Indexes -> Nat]]
  /\ blobs \in [Streams -> BlobRow \cup {None}]
  /\ phase \in [Calls -> Phases]
  /\ user \in [Calls -> Users \cup {None}]
  /\ target \in [Calls -> Uploads \cup Streams \cup {None}]
  /\ chunk \in [Streams -> [index: Indexes, data: Nat \ {0}] \cup {None}]
  /\ counted \in [Streams -> Nat]
  /\ rows \in [Calls -> [Indexes -> Nat]]
  /\ sent \in [Downloads -> [Indexes -> Nat]]
  /\ outcome \in [Calls -> Outcomes]

Init ==
  /\ session = [u \in Uploads |-> None]
  /\ status = [u \in Uploads |-> "none"]
  /\ received = [u \in Uploads |-> 0]
  /\ expired = [u \in Uploads |-> FALSE]
  /\ parts = [u \in Uploads |-> NoChunks]
  /\ objects = [u \in Uploads |-> NoChunks]
  /\ blobs = [s \in Streams |-> None]
  /\ phase = [c \in Calls |-> "idle"]
  /\ user = [c \in Calls |-> None]
  /\ target = [c \in Calls |-> None]
  /\ chunk = [s \in Streams |-> None]
  /\ counted = [s \in Streams |-> 0]
  /\ rows = [c \in Calls |-> NoChunks]
  /\ sent = [d \in Downloads |-> NoChunks]
  /\ outcome = [c \in Calls |-> "none"]

----------------------------------------------------------------------------
(* Upload sessions                                                         *)

Present(chunks) == {i \in Indexes : chunks[i] # 0}

Sum(chunks) == FoldFunction(+, 0, chunks)

Writable_NotAborted(u) == status[u] \in {"created", "uploading", "committed"}

Writable(u) == status[u] \in {"created", "uploading"}

(* NewID is random: the session's id was not in use.                       *)
CreateUpload(u) ==
  /\ session[u] = None
  /\ \E o \in Users, p \in Plans :
       session' = [session EXCEPT ![u] = [owner |-> o, plan |-> p]]
  /\ status' = [status EXCEPT ![u] = "created"]
  /\ UNCHANGED <<received, expired, parts, objects, blobs, calls>>

(* The upload TTL runs out.  Nothing ever writes the status 'expired'.     *)
Expire(u) ==
  /\ session[u] # None
  /\ ~ expired[u]
  /\ expired' = [expired EXCEPT ![u] = TRUE]
  /\ UNCHANGED <<session, status, received, parts, objects, blobs, calls>>

----------------------------------------------------------------------------
(* Calls                                                                   *)

Answer(c, out) ==
  /\ phase' = [phase EXCEPT ![c] = "done"]
  /\ outcome' = [outcome EXCEPT ![c] = out]

Goto(c, ph) ==
  /\ phase' = [phase EXCEPT ![c] = ph]
  /\ UNCHANGED outcome

(* A check on what a query returned: go on, or answer its verdict.         *)
Check(c, verdict, next) ==
  IF verdict = "pass" THEN Goto(c, next) ELSE Answer(c, verdict)

(* A change has been made: the handler goes on, or the answer of the       *)
(* database or the object store does not reach it.                         *)
GotoOrLost(c, ph) == Goto(c, ph) \/ Answer(c, "internal")

(* Anyone may name any upload, or blob, of anyone.                         *)
Receive(c, ids) ==
  /\ phase[c] = "idle"
  /\ \E o \in Users : user' = [user EXCEPT ![c] = o]
  /\ \E x \in ids : target' = [target EXCEPT ![c] = x]
  /\ Goto(c, "find")
  /\ UNCHANGED <<store, counted, rows, sent>>

(* No user, an empty field, no chunk before the end of the stream, a chunk *)
(* of another upload than the first one's.                                 *)
Refuse(c) ==
  /\ phase[c] \in {"idle", "recv"}
  /\ Answer(c, "invalid")
  /\ UNCHANGED <<store, user, target, chunk, counted, rows, sent>>

Fail_SkipsChunk(c) ==
  /\ phase[c] \in {"put", "part", "counting"}
  /\ Goto(c, "recv")
  /\ UNCHANGED <<store, user, target, chunk, counted, rows, sent>>

(* A query, transaction or object operation failed and changed nothing;    *)
(* the client went away; the object to read is not there.                  *)
Fail(c) ==
  /\ phase[c] \notin {"idle", "done"}
  /\ Answer(c, "internal")
  /\ UNCHANGED <<store, user, target, chunk, counted, rows, sent>>

OwnerVerdict(row, o) ==
  IF row = None             THEN "notfound"
  ELSE IF row.owner # o     THEN "denied"
  ELSE "pass"

----------------------------------------------------------------------------
(* UploadBlob: for each chunk received, UploadChunk                        *)

ReceiveChunk(s) ==
  \E i \in Indexes, p \in Payloads :
    chunk' = [chunk EXCEPT ![s] = [index |-> i, data |-> p]]

FirstChunk(s) ==
  /\ Receive(s, Uploads)
  /\ ReceiveChunk(s)

NextChunk(s) ==
  /\ phase[s] = "recv"
  /\ ReceiveChunk(s)
  /\ Goto(s, "find")
  /\ UNCHANGED <<store, user, target, counted, rows, sent>>

ChunkVerdict(s) ==
  LET u == target[s]
      owner == OwnerVerdict(session[u], user[s]) IN
  IF owner # "pass"                                THEN owner
  ELSE IF status[u] \in {"committed", "aborted"}   THEN "invalid"
  ELSE IF expired[u]                               THEN "expired"
  ELSE IF chunk[s].data > session[u].plan.limit    THEN "invalid"
  ELSE "pass"

FindForChunk(s) ==
  /\ phase[s] = "find"
  /\ Check(s, ChunkVerdict(s), "put")
  /\ UNCHANGED <<store, user, target, chunk, counted, rows, sent>>

PutObject_ErrorIgnored(s) ==
  /\ phase[s] = "put"
  /\ Goto(s, "part")
  /\ UNCHANGED <<store, user, target, chunk, counted, rows, sent>>

PutObject(s) ==
  /\ phase[s] = "put"
  /\ objects' = [objects EXCEPT ![target[s]] =
       [@ EXCEPT ![chunk[s].index] = chunk[s].data]]
  /\ GotoOrLost(s, "part")
  /\ UNCHANGED <<session, status, received, expired, parts, blobs,
                 user, target, chunk, counted, rows, sent>>

(* AddUploadPart has upserted its row, and its UPDATE statement takes the  *)
(* snapshot COUNT is evaluated on: the committed rows and its own.  The *)
(* row stays locked until the transaction ends.                            *)
BeginPart(s) ==
  /\ phase[s] = "part"
  /\ \A q \in Streams :
       phase[q] = "counting" /\ target[q] = target[s] =>
         chunk[q].index # chunk[s].index
  /\ counted' = [counted EXCEPT ![s] =
       Cardinality(Present(parts[target[s]]) \cup {chunk[s].index})]
  /\ Goto(s, "counting")
  /\ UNCHANGED <<store, user, target, chunk, rows, sent>>

(* received_chunks is set to the COUNT, not incremented.                   *)
ReceivedAfter(s) == counted[s]

(* The UPDATE evaluates its WHERE clause on the session's latest version,  *)
(* its COUNT on the snapshot; the transaction commits.                  *)
CommitPart(s) ==
  LET u == target[s] IN
  /\ phase[s] = "counting"
  /\ Writable(u)
  /\ parts' = [parts EXCEPT ![u] =
       [@ EXCEPT ![chunk[s].index] = chunk[s].data]]
  /\ received' = [received EXCEPT ![u] = ReceivedAfter(s)]
  /\ status' = [status EXCEPT ![u] = "uploading"]
  /\ GotoOrLost(s, "recv")
  /\ UNCHANGED <<session, expired, objects, blobs,
                 user, target, chunk, counted, rows, sent>>

(* The UPDATE touched no row: roll back.                                   *)
RollBackPart(s) ==
  /\ phase[s] = "counting"
  /\ ~ Writable(target[s])
  /\ Answer(s, "notfound")
  /\ UNCHANGED <<store, user, target, chunk, counted, rows, sent>>

----------------------------------------------------------------------------
(* UploadBlob: at the end of the stream, CommitUpload                      *)

EndOfStream(s) ==
  /\ phase[s] = "recv"
  /\ Goto(s, "finish")
  /\ UNCHANGED <<store, user, target, chunk, counted, rows, sent>>

CommitVerdict(s) ==
  LET owner == OwnerVerdict(session[target[s]], user[s]) IN
  IF owner = "pass" /\ expired[target[s]] THEN "expired" ELSE owner

FindForCommit(s) ==
  /\ phase[s] = "finish"
  /\ Check(s, CommitVerdict(s), "commit")
  /\ UNCHANGED <<store, user, target, chunk, counted, rows, sent>>

Complete_CountOnly(u) ==
  Cardinality(Present(parts[u])) = session[u].plan.chunks

(* COUNT and SUM(size_bytes) against the session's expectations.        *)
Complete(u) ==
  /\ Cardinality(Present(parts[u])) = session[u].plan.chunks
  /\ Sum(parts[u]) = session[u].plan.size

Committable_AsFound(s) == TRUE

(* Checked in the transaction; the service's own query did not.            *)
Committable(s) == Writable(target[s])

(* The transaction holds the session's row FOR UPDATE, so that no part is  *)
(* accepted and no status changes between its checks and its writes.       *)
CommitBlob(s) ==
  LET u == target[s] IN
  /\ phase[s] = "commit"
  /\ Committable(s)
  /\ Complete(u)
  /\ blobs' = [blobs EXCEPT ![s] =
       [owner |-> user[s], upload |-> u,
        count |-> Cardinality(Present(parts[u])), size |-> Sum(parts[u])]]
  /\ status' = [status EXCEPT ![u] = "committed"]
  /\ received' = [received EXCEPT ![u] = Cardinality(Present(parts[u]))]
  /\ \E out \in {"ok", "internal"} : Answer(s, out)
  /\ UNCHANGED <<session, expired, parts, objects,
                 user, target, chunk, counted, rows, sent>>

RefuseCommit(s) ==
  LET u == target[s] IN
  /\ phase[s] = "commit"
  /\ \/ ~ Committable(s) /\ Answer(s, "invalid")
     \/ Committable(s) /\ ~ Complete(u) /\ Answer(s, "incomplete")
  /\ UNCHANGED <<store, user, target, chunk, counted, rows, sent>>

----------------------------------------------------------------------------
(* AbortBlobUpload                                                         *)

ReceiveAbort(a) == Receive(a, Uploads) /\ UNCHANGED chunk

(* Neither the status nor the expiry of the session is looked at.          *)
FindForAbort(a) ==
  /\ phase[a] = "find"
  /\ Check(a, OwnerVerdict(session[target[a]], user[a]), "list")
  /\ UNCHANGED <<store, user, target, chunk, counted, rows, sent>>

ListForAbort(a) ==
  /\ phase[a] = "list"
  /\ rows' = [rows EXCEPT ![a] = parts[target[a]]]
  /\ Goto(a, "remove")
  /\ UNCHANGED <<store, user, target, chunk, counted, sent>>

(* ORDER BY chunk_index.                                                   *)
NextRow(c, i) ==
  /\ rows[c][i] # 0
  /\ \A j \in Indexes : rows[c][j] # 0 => i <= j

RowDone(c, i) == rows' = [rows EXCEPT ![c] = [@ EXCEPT ![i] = 0]]

(* Removing an object that is not there succeeds.                          *)
RemoveObject(a) ==
  /\ phase[a] = "remove"
  /\ \E i \in Indexes :
       /\ NextRow(a, i)
       /\ RowDone(a, i)
       /\ objects' = [objects EXCEPT ![target[a]] = [@ EXCEPT ![i] = 0]]
  /\ GotoOrLost(a, "remove")
  /\ UNCHANGED <<session, status, received, expired, parts, blobs,
                 user, target, chunk, counted, sent>>

AbortSession(a) ==
  /\ phase[a] = "remove"
  /\ rows[a] = NoChunks
  /\ Writable(target[a])
  /\ status' = [status EXCEPT ![target[a]] = "aborted"]
  /\ \E out \in {"ok", "internal"} : Answer(a, out)
  /\ UNCHANGED <<session, received, expired, parts, objects, blobs,
                 user, target, chunk, counted, rows, sent>>

NothingToAbort_RowsIgnored(a) ==
  /\ phase[a] = "remove"
  /\ rows[a] = NoChunks
  /\ ~ Writable(target[a])
  /\ Answer(a, "ok")
  /\ UNCHANGED <<store, user, target, chunk, counted, rows, sent>>

(* The UPDATE touched no row: committed or aborted already.                *)
NothingToAbort(a) ==
  /\ phase[a] = "remove"
  /\ rows[a] = NoChunks
  /\ ~ Writable(target[a])
  /\ Answer(a, "notfound")
  /\ UNCHANGED <<store, user, target, chunk, counted, rows, sent>>

----------------------------------------------------------------------------
(* DownloadBlob                                                            *)

ReceiveDownload(d) == Receive(d, Streams) /\ UNCHANGED chunk

FindBlob(d) ==
  /\ phase[d] = "find"
  /\ Check(d, OwnerVerdict(blobs[target[d]], user[d]), "list")
  /\ UNCHANGED <<store, user, target, chunk, counted, rows, sent>>

ListForDownload(d) ==
  /\ phase[d] = "list"
  /\ rows' = [rows EXCEPT ![d] = parts[blobs[target[d]].upload]]
  /\ Goto(d, "send")
  /\ UNCHANGED <<store, user, target, chunk, counted, sent>>

(* OpenObject, ReadAll and Send; an object that is not there fails.        *)
SendChunk(d) ==
  LET u == blobs[target[d]].upload IN
  /\ phase[d] = "send"
  /\ \E i \in Indexes :
       /\ NextRow(d, i)
       /\ objects[u][i] # 0
       /\ RowDone(d, i)
       /\ sent' = [sent EXCEPT ![d] = [@ EXCEPT ![i] = objects[u][i]]]
  /\ UNCHANGED <<store, phase, user, target, chunk, counted, outcome>>

EndDownload(d) ==
  /\ phase[d] = "send"
  /\ rows[d] = NoChunks
  /\ Answer(d, "ok")
  /\ UNCHANGED <<store, user, target, chunk, counted, rows, sent>>

----------------------------------------------------------------------------
Upload(s) ==
  \/ FirstChunk(s)
  \/ NextChunk(s)
  \/ FindForChunk(s)
  \/ PutObject(s)
  \/ BeginPart(s)
  \/ CommitPart(s)
  \/ RollBackPart(s)
  \/ EndOfStream(s)
  \/ FindForCommit(s)
  \/ CommitBlob(s)
  \/ RefuseCommit(s)

Abort(a) ==
  \/ ReceiveAbort(a)
  \/ FindForAbort(a)
  \/ ListForAbort(a)
  \/ RemoveObject(a)
  \/ AbortSession(a)
  \/ NothingToAbort(a)

Download(d) ==
  \/ ReceiveDownload(d)
  \/ FindBlob(d)
  \/ ListForDownload(d)
  \/ SendChunk(d)
  \/ EndDownload(d)

Next ==
  \/ \E u \in Uploads : CreateUpload(u) \/ Expire(u)
  \/ \E c \in Calls : Refuse(c) \/ Fail(c)
  \/ \E s \in Streams : Upload(s)
  \/ \E a \in Aborts : Abort(a)
  \/ \E d \in Downloads : Download(d)

Spec == Init /\ [][Next]_vars

----------------------------------------------------------------------------
(* Properties                                                              *)

BlobsOf(u) == {s \in Streams : blobs[s] # None /\ blobs[s].upload = u}

(* However many streams and aborts race on an upload, it ends in one way:  *)
(* it is committed exactly when one blob was made of it, and an aborted or *)
(* open upload has none (CommitUpload checks the status again FOR UPDATE;  *)
(* no constraint of the blobs table says so).                              *)
OneBlobPerUpload ==
  \A u \in Uploads :
    IF status[u] = "committed"
    THEN \E s \in Streams : BlobsOf(u) = {s}
    ELSE BlobsOf(u) = {}

(* The manifest of a blob is frozen: the accepted parts of its upload are  *)
(* still as many, and as large, as were counted when it was created, and   *)
(* as its client declared, whatever chunk arrives late.                    *)
ManifestFrozen ==
  \A s \in Streams : blobs[s] # None =>
    LET u == blobs[s].upload IN
    /\ blobs[s].count = Cardinality(Present(parts[u]))
    /\ blobs[s].size = Sum(parts[u])
    /\ blobs[s].count = session[u].plan.chunks
    /\ blobs[s].size = session[u].plan.size
    /\ received[u] = blobs[s].count

(* Calls that got past the owner check of an abort.                        *)
AbortBegan(u) ==
  \E a \in Aborts :
    /\ target[a] = u
    /\ \/ phase[a] \in {"list", "remove"}
       \/ phase[a] = "done" /\ outcome[a] \notin {"invalid", "denied"}

(* A chunk is accepted only once its object is stored: a part without an   *)
(* object means that the owner asked to abort the upload.                  *)
PartsHaveObjects ==
  \A u \in Uploads, i \in Indexes :
    parts[u][i] # 0 /\ objects[u][i] = 0 => AbortBegan(u)

StreamsOn(u) == {s \in Streams : target[s] = u}

(* A blob is what its stream sent: if no other stream and no abort ever    *)
(* named its upload, each of its objects holds the payload its part        *)
(* declares, through every failure and lost answer on the way.             *)
SoleWriterIntact ==
  \A s \in Streams : blobs[s] # None =>
    LET u == blobs[s].upload IN
    StreamsOn(u) = {s} /\ ~ AbortBegan(u) => objects[u] = parts[u]

(* The answer tells the truth: ok means that the stream's blob exists, the *)
(* upload was aborted, or all chunks of the blob were sent to its owner; a *)
(* refused stream created no blob.  Only "internal" leaves the client      *)
(* unsure.                                                                 *)
AnswerMatchesEffect ==
  /\ \A s \in Streams :
       /\ outcome[s] = "ok" =>
            /\ blobs[s] # None
            /\ blobs[s].owner = user[s]
            /\ blobs[s].upload = target[s]
       /\ outcome[s] \notin {"ok", "internal"} => blobs[s] = None
  /\ \A a \in Aborts : outcome[a] = "ok" => status[target[a]] = "aborted"
  /\ \A d \in Downloads : outcome[d] = "ok" =>
       LET b == blobs[target[d]] IN
       /\ b # None
       /\ b.owner = user[d]
       /\ Cardinality(Present(sent[d])) = b.count
       /\ Present(sent[d]) = Present(parts[b.upload])

(* Committed and aborted are final, and what they decided stays: no late   *)
(* part, commit or abort changes the session, its parts or its blob.       *)
DecisionIsFinal ==
  [][/\ \A u \in Uploads : status[u] \in {"committed", "aborted"} =>
          status'[u] = status[u] /\ parts'[u] = parts[u]
             /\ received'[u] = received[u]
     /\ \A s \in Streams : blobs[s] # None => blobs'[s] = blobs[s]]_vars

(* Only calls of an upload's owner change its rows and its objects: the    *)
(* owner is read in an earlier query than the one that writes.             *)
OnlyOwnerChanges ==
  [][\A u \in Uploads :
       \/ <<status[u], parts[u], objects[u]>>' =
            <<status[u], parts[u], objects[u]>>
       \/ session[u] = None
       \/ \E c \in Streams \cup Aborts :
            /\ target[c] = u
            /\ user[c] = session[u].owner
            /\ <<phase[c], rows[c]>>' # <<phase[c], rows[c]>>]_vars

----------------------------------------------------------------------------
(* Why they hold: the inductive invariant                                  *)

(* Where each kind of handler can be, and that it knows what it is at.     *)
Place(c) ==
  /\ c \in Streams =>
       /\ phase[c] \in {"idle", "find", "put", "part", "counting", "recv",
                       "finish", "commit", "done"}
       /\ phase[c] \notin {"idle", "done"} =>
            target[c] \in Uploads /\ chunk[c] # None
  /\ c \in Aborts =>
       /\ phase[c] \in {"idle", "find", "list", "remove", "done"}
       /\ phase[c] \notin {"idle", "done"} \/ outcome[c] = "ok" =>
            target[c] \in Uploads
  /\ c \in Downloads =>
       /\ phase[c] \in {"idle", "find", "list", "send", "done"}
       /\ phase[c] \notin {"idle", "done"} => target[c] \in Streams

PlacesKnown == \A c \in Calls : Place(c)

(* Only an answered call has an outcome.                                   *)
OutcomesLast ==
  \A c \in Calls : phase[c] # "done" => outcome[c] = "none"

Writing(c) ==
  /\ c \in Streams \cup Aborts
  /\ phase[c] \in {"put", "part", "counting", "recv", "finish", "commit",
                  "list", "remove"}

(* A handler that may write works on a session of its caller; one that     *)
(* reads a blob's chunks, on a blob of its caller.                         *)
Owned(c) ==
  /\ Writing(c) =>
       session[target[c]] # None /\ session[target[c]].owner = user[c]
  /\ c \in Downloads /\ phase[c] \in {"list", "send"} =>
       blobs[target[c]] # None /\ blobs[target[c]].owner = user[c]

OwnerChecked == \A c \in Calls : Owned(c)

SessionsCreated ==
  \A u \in Uploads : status[u] = "none" <=> session[u] = None

(* A stream's blob is of the upload it named and its last act.             *)
BlobLast(s) ==
  blobs[s] # None =>
    /\ phase[s] = "done"
    /\ outcome[s] \in {"ok", "internal"}
    /\ blobs[s].upload = target[s]
    /\ blobs[s].owner = user[s]

BlobsLast == \A s \in Streams : BlobLast(s)

(* A stream past its PutObject stored the object it is about to declare.   *)
ObjectFirst(s) ==
  phase[s] \in {"part", "counting"} =>
    objects[target[s]][chunk[s].index] # 0 \/ AbortBegan(target[s])

ObjectsFirst == \A s \in Streams : ObjectFirst(s)

(* What is listed and what is sent make up the blob's parts.               *)
Progress(d) ==
  /\ phase[d] \in {"idle", "find", "list"} => sent[d] = NoChunks
  /\ phase[d] = "send" \/ outcome[d] = "ok" =>
       /\ target[d] \in Streams
       /\ blobs[target[d]] # None
       /\ blobs[target[d]].owner = user[d]
       /\ \A i \in Indexes :
            parts[blobs[target[d]].upload][i] # 0 <=>
              rows[d][i] # 0 \/ sent[d][i] # 0
  /\ outcome[d] = "ok" => rows[d] = NoChunks

DownloadsProgress == \A d \in Downloads : Progress(d)

(* The chunk whose object a stream has stored and whose part it has not    *)
(* declared yet.                                                           *)
Declaring(s, u, i) ==
  target[s] = u /\ phase[s] \in {"part", "counting"} /\ chunk[s].index = i

(* A stream that ended without a blob may have ended between the two.      *)
GaveUp(s, u) == target[s] = u /\ phase[s] = "done" /\ blobs[s] = None

(* Only with its first chunk a stream names an upload.                     *)
IdleStreams == \A s \in Streams : phase[s] = "idle" => target[s] = None

(* While one stream alone writes to an upload, each object holds what its  *)
(* part declares, or what the stream is about to declare.                  *)
SoleWriters ==
  \A u \in Uploads, s \in Streams :
    StreamsOn(u) \subseteq {s} /\ ~ AbortBegan(u) /\ ~ GaveUp(s, u) =>
      \A i \in Indexes :
        objects[u][i] = IF Declaring(s, u, i) THEN chunk[s].data
                        ELSE parts[u][i]

BlobInv ==
  /\ PlacesKnown
  /\ OutcomesLast
  /\ OwnerChecked
  /\ SessionsCreated
  /\ BlobsLast
  /\ OneBlobPerUpload
  /\ ManifestFrozen
  /\ PartsHaveObjects
  /\ ObjectsFirst
  /\ DownloadsProgress
  /\ AnswerMatchesEffect

----------------------------------------------------------------------------
(* What comments and docs of the repository say, and the code does not do  *)

(* A ready blob is ready: the objects of the permanent blob are stored     *)
(* (BlobStatusReady; migrations/000002: metadata of permanent objects).    *)
ReadyBlobHasObjects ==
  \A s \in Streams : blobs[s] # None =>
    LET u == blobs[s].upload IN
    \A i \in Indexes : parts[u][i] # 0 => objects[u][i] # 0

=============================================================================
