------------------------------ MODULE BlobSizes -----------------------------
(***************************************************************************)
(* The sizes of one binary upload: how the client cuts a file, what each   *)
(* chunk becomes on its way, what it declares of the whole to              *)
(* CreateBlobUpload, and the limits these numbers meet.  The steps of the  *)
(* upload and their failures are in modules Blob and Cli; here every call  *)
(* succeeds unless a size is refused.                                      *)
(*                                                                         *)
(* A chunk is sealed with AES-GCM, encoded as JSON with base64, and sent   *)
(* as the data of one gRPC message, which the server's transport refuses   *)
(* when it is longer than MaxMessage.                                      *)
(***************************************************************************)
EXTENDS Naturals, Sequences

CONSTANTS
  Lengths,     \* bound: the lengths of the files
  ChunkSize,   \* defaultBinaryPlaintextChunkSize
  MaxSize,     \* GOPHKEEPER_BLOB_MAX_SIZE
  MaxMessage   \* what a gRPC server accepts unless told otherwise

VARIABLES
  length,    \* the file's length
  offset,    \* where the loop of encryptedBinaryChunks is
  chunks,    \* the plaintext length of each chunk cut
  total,     \* encryptedSize: the encoded lengths added up
  accepted,  \* how many chunks the server has accepted
  size,      \* SUM(size_bytes) over them
  verdict    \* what became of the upload, or the step it is at

vars == <<length, offset, chunks, total, accepted, size, verdict>>

TypeOK ==
  /\ length \in Lengths
  /\ offset \in Nat
  /\ chunks \in Seq(Nat \ {0})
  /\ total \in Nat
  /\ accepted \in 0 .. Len(chunks)
  /\ size \in Nat
  /\ verdict \in {"cut", "send", "ready", "exceeds max size",
                  "exceeds chunk size", "exceeds message", "incomplete"}

Init ==
  /\ length \in Lengths
  /\ offset = 0
  /\ chunks = <<>>
  /\ total = 0
  /\ accepted = 0
  /\ size = 0
  /\ verdict = "cut"

----------------------------------------------------------------------------

(* aead.Seal appends a tag of 16 bytes.                                    *)
Sealed(n) == n + 16

(* base64 with padding.                                                    *)
Base64(n) == 4 * ((n + 2) \div 3)

(* json.Marshal of EncryptedPayload: the names, and the nonce's 16 signs.  *)
Encoded(n) == 44 + Base64(Sealed(n))

(* The message's other fields: the upload's id, the index, the checksum.   *)
Message(n) == Encoded(n) + 109

NextChunk_Whole == ChunkSize

(* end := offset + size, but no further than the data.                     *)
NextChunk == IF offset + ChunkSize > length THEN length - offset ELSE ChunkSize

(* One turn of the loop of encryptedBinaryChunks.                          *)
Cut ==
  /\ verdict = "cut"
  /\ offset < length
  /\ chunks' = Append(chunks, NextChunk)
  /\ total' = total + Encoded(NextChunk)
  /\ offset' = offset + ChunkSize
  /\ UNCHANGED <<length, accepted, size, verdict>>

(* maxBlobChunkSize: only the last chunk may be shorter than the first.    *)
Declared == Encoded(chunks[1])

(* The declared chunk size is taken as it is: only the whole is limited.   *)
CreateUpload ==
  /\ verdict = "cut"
  /\ offset >= length
  /\ verdict' = IF total > MaxSize THEN "exceeds max size" ELSE "send"
  /\ UNCHANGED <<length, offset, chunks, total, accepted, size>>

(* The transport, then UploadChunk.                                        *)
ChunkVerdict(n) ==
  IF Message(n) > MaxMessage    THEN "exceeds message"
  ELSE IF Encoded(n) > Declared THEN "exceeds chunk size"
  ELSE "send"

Send ==
  LET n == chunks[accepted + 1] IN
  /\ verdict = "send"
  /\ accepted < Len(chunks)
  /\ verdict' = ChunkVerdict(n)
  /\ IF ChunkVerdict(n) = "send"
     THEN accepted' = accepted + 1 /\ size' = size + Encoded(n)
     ELSE UNCHANGED <<accepted, size>>
  /\ UNCHANGED <<length, offset, chunks, total>>

(* The stream has ended: what arrived against what was declared.           *)
Commit ==
  /\ verdict = "send"
  /\ accepted = Len(chunks)
  /\ verdict' = IF size = total THEN "ready" ELSE "incomplete"
  /\ UNCHANGED <<length, offset, chunks, total, accepted, size>>

Next == Cut \/ CreateUpload \/ Send \/ Commit

Spec == Init /\ [][Next]_vars

----------------------------------------------------------------------------
(* Properties                                                              *)

(* The chunks cut the file without a gap or an overlap: each byte is in    *)
(* the chunk its position says, within that chunk's length, and there is   *)
(* no byte too many.                                                       *)
ChunksCoverFile ==
  verdict # "cut" =>
    /\ \A b \in 0 .. length - 1 :
         /\ b \div ChunkSize < Len(chunks)
         /\ b % ChunkSize < chunks[b \div ChunkSize + 1]
    /\ (Len(chunks) - 1) * ChunkSize + chunks[Len(chunks)] = length

(* What the client declares of an upload is what it sends: the server      *)
(* refuses none of its chunks for the declared chunk size, nor the commit  *)
(* for the declared total.                                                 *)
DeclaredIsSent == verdict \notin {"exceeds chunk size", "incomplete"}

(* An upload is the file, cut as it was declared.                          *)
UploadIsTheFile == ChunksCoverFile /\ DeclaredIsSent

(* README.md, GOPHKEEPER_BLOB_MAX_SIZE=1073741824: a file whose encoding   *)
(* is within that limit is not refused for its size.                       *)
MaxSizeIsTheLimit == verdict # "exceeds message"

=============================================================================
