------------------------------ MODULE MCClient ------------------------------
(* What the clients do without the server, in one run: one-time password   *)
(* codes, the token file, the sizes of an upload, and the fields of forms. *)
(* The four share no state, so that each is checked while the others rest. *)
EXTENDS Totp, TokenFile, TLC

CONSTANTS Lengths, ChunkSize, MaxSize, MaxMessage

VARIABLES
  part,                                                       \* the one at work
  length, offset, chunks, total, accepted, size, verdict,     \* of BlobSizes
  field, vault, writer, typed, form, opened                   \* of Forms

Sizes == INSTANCE BlobSizes
Field == INSTANCE Forms

\* UploadBinary refuses a file with nothing in it.
ASSUME SizesAssumption ==
  /\ Lengths \subseteq Nat \ {0}
  /\ ChunkSize \in Nat \ {0}
  /\ MaxSize \in Nat
  /\ MaxMessage \in Nat

\* None is no text and no client.
ASSUME FormsAssumption == None \notin Field!Text \cup {"cli", "tui"}

sizeVars == <<length, offset, chunks, total, accepted, size, verdict>>
formVars == <<field, vault, writer, typed, form, opened>>
allVars == <<part, vars, fileVars, sizeVars, formVars>>

\* Around every multiple of a small chunk size.
SmallLengths == 1 .. 40

\* Bytes that depend on the key, the algorithm and the counter, the largest
\* ones among them; sums of 20 bytes, the shortest there are.
AnyMac ==
  [k \in Keys |-> [a \in Algorithms |-> [c \in 0 .. MaxClock |->
     [i \in 1 .. 20 |->
        IF a = "SHA1" THEN 255 - ((c * i) % 7)
        ELSE (c * 37 + i * i * 11) % 256]]]]

Symmetry == Permutations(Processes)

OneOf(S) == CHOOSE x \in S : TRUE

InitClient ==
  /\ part \in {"codes", "token file", "upload", "form"}
  /\ Init /\ InitFile /\ Sizes!Init /\ Field!Init
  /\ part # "codes" => payload = OneOf(
       [secret: Keys, algorithm: Algorithms, digits: {6}, period: {0}])
  /\ part # "upload" => length = OneOf(Lengths)
  /\ part # "form" => field = "title"

NextClient ==
  \/ /\ part = "codes" /\ Next
     /\ UNCHANGED <<part, fileVars, sizeVars, formVars>>
  \/ /\ part = "token file" /\ NextFile
     /\ UNCHANGED <<part, vars, sizeVars, formVars>>
  \/ /\ part = "upload" /\ Sizes!Next
     /\ UNCHANGED <<part, vars, fileVars, formVars>>
  \/ /\ part = "form" /\ Field!Next
     /\ UNCHANGED <<part, vars, fileVars, sizeVars>>

SpecClient == InitClient /\ [][NextClient]_allVars

----------------------------------------------------------------------------
(* The properties of BlobSizes and Forms; those of Totp and TokenFile are  *)
(* named in the configuration as they are.                                 *)

(* Module BlobSizes: each byte of the file is in one chunk, and no size    *)
(* that was declared is exceeded or missed.                                *)
UploadIsTheFile == Sizes!UploadIsTheFile

(* Module Forms: what is in the vault can be edited and saved again, and a *)
(* form saved as it was opened changes no field it can hold.               *)
FieldsSurviveForms == Field!FieldsSurviveForms

=============================================================================
