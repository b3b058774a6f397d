# Verification of GophKeeper

TLA+ models of GophKeeper (server and clients of an end-to-end encrypted
secret manager), the TLC configurations that check them, and TLAPS proofs
about them. Paths below are relative to the repository, which is `src/`.

## The system

A Go server answers gRPC calls over PostgreSQL and MinIO; a CLI and a terminal
UI share a client core that encrypts before it sends and decrypts what it
receives. The server sees ciphertext, owners, versions and times only.

| Component | State | Operations | Interacts with | What is hard |
|---|---|---|---|---|
| Vault service `internal/server/vault`, `handler/vault.go` | table `vault_items`: owner, version, ciphertext, `updated_at`, `deleted_at` | CreateItem, GetItem, ListItems, UpdateItem, DeleteItem | PostgreSQL, one statement at a time | read, check and conditional UPDATE are separate statements; a commit may be followed by an error |
| Synchronisation `SyncItems`, `SyncSecrets` | what a device was sent, `next_changed_after` | Sync with and without `changed_after` | reads what the vault service writes | `updated_at` is taken when a statement starts and seen when it commits |
| Blob service `internal/server/blob`, `minio/store.go`, `handler/blob.go` | tables `blob_uploads`, `blob_upload_parts`, `blobs`; objects in MinIO | CreateBlobUpload, UploadBlob (stream), AbortBlobUpload, DownloadBlob (stream) | PostgreSQL transactions and object operations, which nothing makes atomic together | streams, aborts and downloads of one upload interleave; any step may fail |
| Registration, login `internal/server/auth` | tables `users`, `user_vaults` | Register, Login | token issuer, password hasher | the commit and the token are two steps; the login is unique only in the database |
| Tokens, interceptors `auth/token`, `grpcserver` | none (signed JWT) | Issue, Validate | every private call | a stream is checked when it opens |
| Client core `internal/client/core` | session (token and vault key), token file | Register, Login, secrets, binaries, blobs | one gRPC call after another | UploadBinary and the item that refers to it are several calls |
| Token store `file_token_store.go` | a file | Save | the file system | temp file, chmod, rename |
| OTP `internal/client/otp` | none | GenerateTOTP, RemainingSeconds | the clock | integer conversions, period boundaries |
| Terminal UI `cmd/gophkeeper-tui` | screen, busy flag, selection, form | key handlers and messages | client core, in goroutines | answers arrive later as messages; tick chains |
| CLI `cmd/gophkeeper-cli` | none between runs | one command per process | client core | compound commands that fail half way |
| Server process `server/app` | listener, gRPC server | start, graceful stop | the parent context | start failure and stop race |

Password hashing, encryption, configuration, logging, migrations, generated
code and scripts keep no state a model would tell apart; `PROJECT.json` lists
them with the reason they are left out or how far they appear.

What would make each component correct:

- vault: no update lost or applied twice, true answers, final tombstones, only
  the owner's calls change a row; the interleaved handlers look atomic;
- synchronisation: a device never goes back, sees only its own rows, and in
  the end sees everything;
- blobs: one outcome per upload, a frozen manifest, every accepted chunk
  stored, a complete download or an error;
- accounts: one user and one vault key per login or nothing, a session only
  with the key the server keeps, a token good for exactly its lifetime;
- commands: what is reported as stored is stored, an item never names a blob
  that is not whole, what a get has read can be fetched whatever happens to the
  item meanwhile;
- UI: a late answer never shows or changes the wrong secret, nothing of the
  user before is shown, keys come back, timers die out;
- token file: whole at every moment, whatever fails; OTP: code, expiry and
  remaining seconds agree; the process: a signal ends it and cuts no call.

## Modules

| Module | What it is | Checked by | Proofs |
|---|---|---|---|
| `Vault` | the vault service, one action per database round trip | `MCVault` | `VaultProofs` |
| `VaultStore`, `VaultRefinement` | a store whose operations are atomic; the refinement mapping | `MCVault` | `VaultProofs` |
| `VaultSync` | devices that call Sync, composed with `Vault` | `MCVaultSync` | `VaultSyncProofs` |
| `Blob` | the blob service, one action per query, transaction and object operation | `MCBlob` | `BlobProofs` |
| `Auth` | registration and login, server and client | `MCAuth` | `AuthProofs` |
| `Accounts` | what they promise: a table of whole accounts | `MCAuth` | `AuthProofs` |
| `Access` | tokens, the interceptors, time, restarts | `MCServer` | `ServerProofs` |
| `Lifecycle` | the server process from `main` to its exit | `MCServer` | `ServerProofs` |
| `Cli` | commands of the CLI, with the server reduced to what they can tell | `MCCli` | `CliProofs` |
| `Tui` | the terminal UI: screens, keys, commands, messages, ticks | `MCTui` | `TuiProofs` |
| `Forms` | what becomes of a field between prompt, schema, vault and edit form | `MCClient` | `ClientProofs` |
| `BlobSizes` | cutting a file, encoded sizes, limits | `MCClient`, `MCBlobSizes` | `ClientProofs` |
| `Totp` | codes, remaining seconds, expiry | `MCClient` | `ClientProofs` |
| `TokenFile` | Save of the token file by several processes | `MCClient` | `ClientProofs` |

`MCClient` and `MCServer` put modules that share no variable side by side: the
variable `part` picks the one that moves and the others rest in one state, so
that the run is the sum of their state spaces and not the product. The other
compositions are real: `VaultSync` extends `Vault` and reads its rows, `Auth`
holds both sides of the calls, `Cli` and `Tui` carry the server's part with
them. Operators whose name has an underscore, such as `Matches_NoVersion`, are
broken variants: each refutes the property `PROJECT.json` lists it under.

### Vault

`Requests` are the calls the server receives; each is served by a handler with
a `phase`. `ReceiveCreate` and `ReceiveOther` choose any input that parses and
validates, `Refuse` one that does not. `Find` is `FindItemByID` with the
service's checks; `BeginStatement` is the start of the INSERT or UPDATE, when
PostgreSQL fixes `NOW()`; `CommitStatement`, `NoRows` and `FailStatement` are
how it ends; `Refind` is the second read after an UPDATE of no row. The
`WHERE id, user_id, version, deleted_at IS NULL` clause is `Matches`. PostgreSQL
runs at READ COMMITTED: an UPDATE that waited for a row lock evaluates its WHERE
clause again on the newest committed version, so it is evaluated at the commit.
`CommitStatement` may answer `internal`: the row has changed and the client is
not told. `content` stands for the ciphertext: it names the request that sent
it. `applied` is a history variable.

DeleteItem carries an expected version like UpdateItem. A stale version of a
deleted item is answered NotFound, not Aborted, since the tombstone is tested
first. GetItem returns tombstones too; ListItems reads the same rows and is
left out.

`VaultStore` has the same inputs and answers and one atomic action per call.
A request's effect happens at its `CommitStatement` and its refusal where the
handler read the row; in between, the abstract call is still pending.

### VaultSync

`SyncItems` is the SELECT by `updated_at > changed_after`, one snapshot, with
the cursor the answer carries. `SyncFull` is what CLI and TUI send (no
`changed_after`; README.md:841 of the repository), `SyncFromCursor` what the
API offers. `page_size` and `page_token` are parsed and then ignored by the
repository, so an answer holds every row. `known` is an abstract device: the
versions it was sent.

### Blob

Chunks are `[index, data]`; the bytes, the declared size and the checksum of a
chunk are one positive number, its size, since payloads of different sizes are
all the properties tell apart; 0 is no row and no object. A stream's blob is
named by the stream, since CommitUpload draws a fresh id per call.

`FindForChunk`, `PutObject`, `BeginPart` and `CommitPart` are UploadChunk;
`FindForCommit` and `CommitBlob` CommitUpload, `FindForAbort` to `AbortSession`
AbortUpload, `FindBlob` to `EndDownload` DownloadBlob. A statement's transaction
is one action where PostgreSQL makes it one: CommitUpload holds its session row
FOR UPDATE from its first check to its last write. AddUploadPart is two. Its
first statement upserts the part and locks that row. The UPDATE of the session
then takes its snapshot, on which its `COUNT` is evaluated, and may wait for
the session's row; the WHERE clause is evaluated again after the wait and the
`COUNT` is not (READ COMMITTED re-evaluates only the locked row). `BeginPart`
is that snapshot, `CommitPart` the write. An insert into
`blob_upload_parts` takes a FOR KEY SHARE lock on the session, which conflicts
with FOR UPDATE; it delays a stream or a commit and, as the UPDATE's WHERE
clause is tested afterwards, changes no outcome. `Fail` is any
operation that fails with no effect, and an `internal` answer after an effect
is a lost response. MinIO's RemoveObject of an absent object succeeds.

Removed from the data: checksums (stored and never compared), the object key
(a function of upload and index), content types.

### Auth and Accounts

`Attempts` are register and login commands, each with a `phase`. `Begin` and
`Refuse` are what the terminal accepts (`PasswordsAccepted` is the CLI's check
alone; the TUI has none). `InsertUser`, `InsertVault` and `Commit` are the
statements of CreateUserWithVault in one transaction: `INSERT ... ON CONFLICT
DO NOTHING` waits for a transaction that inserted the same login, which is the
verdict `wait`, and inserts nothing if it committed. `FindUser` and
`VerifyPassword` are Login, `Issue` the token and the answer, `OpenVaultKey` and
`SaveToken` the end of Register and Login in the client core. `Commit` may
answer an error with both rows stored; `Fail` is any other failure or lost
answer, with the rollback of an open transaction. User ids and vault keys are
named by the attempt that drew them; a hash is the password it was made of; an
encrypted vault key opens with the master password it was sealed with.

`Accounts` has two actions, `Create` a whole account and `Enter` one. The
account of a login is `AccountOf` the user rows that are committed; a session is
entered at `SaveToken`.

### Access

Time is counted in ticks, several to a second. `Issue` computes the expiry that
the client is told and the one in the token, which `NumericDate` truncates to a
second. `Intercept` is both interceptors: a stream is validated when it opens
and then runs, however long, until `Finish`. `Restart` may change the secret.

### Lifecycle

`main` is where `app.Run` is; `serve` is the goroutine of `Start`, `errCh` the
channel of capacity one it answers on. `Signal` makes the context done at any
time; `Stop` and `Stopped` are GracefulStop, `Served` the other branch of the
select (with both ready Go takes either), `CloseDatabase` and `Exit` the
deferred calls. The gRPC server is external: it accepts calls, fails, or stops
when the calls are over.

### Cli

A process runs one command: `Run` chooses it, `CreateUpload`, `Send`,
`Uploaded`, `GiveUp` and `CallAbort` are UploadBinary, `Write` the vault call
(`CreateSecret`, `UpdateSecret`, `DeleteSecret`), `GetSecret`, `Stat`,
`DownloadBinary`, `OpenFile` and `Fill` are get with its output file. The
server's handlers (`StoreChunk`, `CommitUpload`, `EndStream`, `RemoveObject`,
`EndAbort`) go on when the client has given up. `history` is every version an
item had. Any call may fail, and an effect may go with a failed command. The
abort of a committed upload removes objects here as it does in `Blob`; that no
item ever names such a blob is `ItemsAreReadable`. Another program may create
the output file (`OtherProgram`).

### Tui

One action per key of a screen and per message (`AuthDone` to `SaveDone`,
`Tick`); `inflight` are the commands that run or whose answer is on its way.
`Serve` is the vault service seen from a terminal, `OtherDevice` everyone else
who writes, `Fail` a refusal or a lost answer. `current` is the secret in the
model's field, `shown` the one the detail page was rendered from, `inputs` the
form the fields belong to and the secret they were filled from. Typing is left
out, since it changes nothing else; `Forms` has what is typed. `older` orders the
rows by `updated_at`: for each item it has those that were written before it. It is
the ORDER BY of ListItems and decides which secret a selection means after the list
was replaced; no property depends on that order.

### Forms, BlobSizes, Totp, TokenFile

`Forms` follows one field: a text is how many words it has, whether blanks
surround it and whether it has line breaks, which is what TrimSpace, the
prompts, the TUI's input (2048 characters, one line) and the checks of the
Encode functions tell apart.

`BlobSizes` counts bytes: `Cut` is encryptedBinaryChunks, `Sealed`, `Base64` and
`Encoded` what AES-GCM, JSON and base64 make of a length, `Declared` the chunk
size and total that are announced, `ChunkVerdict` and `Commit` the limits they
meet.

`Totp` has the operators of `totp.go` and CurrentOTPCode: `Counter`, `Hotp` with
its truncation, `RemainingSeconds`, `ExpiresAt`. The HMAC is a constant
function to sequences of bytes.

`TokenFile` has an action per system call of Save (`CreateTemp`, `Encode`,
`Chmod`, `Close`, `Rename`, `Remove`), each of which may fail, and `Kill` at any
point. Loading is not there because the repository has no Load.

## Runs

| Run | Instance | Shows | Distinct states |
|---|---|---|---|
| `vault` | 2 users, 1 item, 4 calls, versions to 2, 3 clock values | the safety of the vault service, and that it implements `VaultStore` | 628 259 |
| `sync` | 2 users, 2 items, 3 calls, 1 device, full and incremental Sync | exact answers, a device never goes back, and converges | 282 704 |
| `sync_cursor` | 1 user, 2 items, 3 calls, overlapping statements, incremental Sync only | violated: a tombstone is never seen | |
| `blob` | 1 upload of 2 chunks, 2 users, 2 streams, 1 abort, 1 download | the safety of the blob service | 1 913 440 |
| `blob_ready` | 1 upload, 1 stream, 1 abort | violated: a ready blob without its objects | |
| `auth` | 2 attempts of any kind, or 3 for one login; 2 terminals, 2 logins, typed in 4 ways | whole accounts, sessions of accounts, right refusals, `Accounts`; every attempt ends | 75 596 |
| `server` | 2 users, 2 calls, 2 secrets, 2 tokens, 3 seconds in halves; the process with 2 calls | lifetimes of tokens, calls for their owners; an ordered end, and that it comes | 45 242 |
| `cli` | 2 commands of any kind, or a create and 2 gets, or a create, a get and an update or delete; files of 1 and 2 chunks | readable items, stored successes, fetchable secrets, whole output files | 300 502 |
| `tui` | 2 users and 1 item of 2 versions, or 1 user and 1 binary of 3 or 2 binaries | busy flag, screens, forms, details, whose secrets, what is changed | 1 093 602 |
| `tui_live` | 1 user, 1 item of 2 versions, OTP or binary, 2 ticks | keys come back, ticks die out | 408 709 |
| `client` | 65 seconds in halves, 4 periods; 3 Saves; files of 1 to 40 bytes in chunks of 5; every field | codes, token file, uploads, forms | 153 218 |
| `blob_sizes_limit` | the real sizes, files around one chunk | violated: a full chunk is refused | |

Every passing run checks the properties `PROJECT.json` lists for it. The type
invariants of the modules are proved, and the run `vault` checks one; a property
that joins two (`NoUpdateIsLost`, `SyncIsExact`, `CodeIsAsSaid` and others)
holds the statements the modules define before it.

Why the bounds are enough to meet the cases that matter.

- `vault`: four calls on one item make a create and three writers, so that two
  writers race with the same expected version and a third follows.
  `MaxVersion = 2` lets a client expect the version before and after an update;
  higher versions come from the stored row. Items do not interact.
- `sync`: the cursor is shared by items, hence two of them; two clock values
  make statements that share a stamp and statements that follow one another.
  Calls and items are interchangeable and are used in order; the second user
  writes one item, which is enough to be sent to the wrong device or to move its
  cursor. `overlap` is a history variable: it says whether statements ever
  overlapped or shared a stamp, the case in which a cursor is not safe.
- `blob`: two streams and an abort are the smallest set in which a commit, an
  accepted part and an abort race; they race for one user and without expiry.
  In the other setting one stream, an abort and a download of either user meet
  an upload that may expire. Two indexes and payload sizes 1 and 2 give the
  plan of two chunks and size 3 two fillings that fit and two that do not.
  Uploads do not interact.
- `auth`: two attempts make every race of two kinds; a third one is needed for a
  loser whose winner rolls back, and then only one login matters.
- `server`: a TTL of one and a half seconds from a clock in halves puts the
  issue, the truncated and the told expiry on either side of a second. Two
  calls of the process: one that ends before the signal and one that does not.
- `cli`: two commands of any kind are a writer with any other; three are needed
  for two gets of one file, whose content then does not matter, and for an item
  that changes while it is read, where one file of one chunk is enough. Uploads
  meet in items only, so that one of two chunks is enough at a time; another
  program's file is looked at where a command gets.
- `tui`: two users take turns with one item, of either type, with an update or a
  deletion; a third version, which a write with a version that is no longer the
  current one would make, belongs to one user and is a readable binary; so are
  two items, for the selection in a list that changes, which are not updated.
  One pending tick tells a chain from none; `tui_live` has two. Its item is
  created, updated or deleted from this terminal, and a binary saved to a file;
  there other devices write one-time passwords only.
- `client`: the files surround every multiple of the chunk size up to eight; the
  periods 0 (the default of 30 seconds), 1, 3 and 7 have boundaries at most
  instants; three Saves make two that race with a killed one.

The settings of `MCBlob`, `MCCli`, `MCAuth` and `MCVaultSync` restrict what
clients and users start, never a step of what was started. That of `MCTui`
restricts which vaults are looked at: a request whose effect would lead to
another one stays unanswered in that run, its keys dropped.
`CHECK_DEADLOCK FALSE`, where it is said: once the bounded calls are answered
nothing is left to do. The symmetry sets permute users, calls or items that no
formula tells apart; the liveness runs use none.

### Fairness

- `VaultSync`: handlers run in goroutines of their own with no locks held between
  statements, and Go and PostgreSQL serve each of them eventually: weak fairness
  of each call's `Serve`. That a device keeps syncing is the assumption of the
  property: weak fairness of its Sync, which is always enabled. No client is
  obliged to send anything, and the clock need not tick.
- `Auth`: weak fairness of each attempt's next step, which a failure or a lost
  answer ends as well. Nobody is obliged to begin one. An insert that waits is
  enabled again when the transaction it waits for ends, which its own fairness
  brings about; a third attempt may take its place, but attempts are finite.
- `Tui`: a command ends and its message is delivered, and timers fire (the
  program's event loop takes every message). Nobody has to press a key.
- `Lifecycle`: `Run` and the calls go on. GracefulStop has no deadline, so that
  every call ends is an assumption about its client: it finishes its stream or
  closes the connection. No call need be made and no signal need come.

### Findings

- `sync_cursor`: following `next_changed_after` misses changes whose statement
  started before a later-stamped one that was synced, and committed after it.
  `docs/sync.md:11` says other clients see deletions. The repository's clients
  do not use the cursor; run `sync` shows that the cursor is sound as long as
  statements do not overlap.
- `blob_ready`: AbortUpload removes the objects of an upload that is already
  committed, and only then is refused. UploadBinary aborts after any failed
  Upload, a lost answer included. `ItemsAreReadable` shows that the CLI never
  makes an item of such a blob.
- `blob_sizes_limit`: a chunk of 3 MiB is more than 4 MiB once it is sealed and
  encoded, and the server accepts no message over 4 MiB, the default of the gRPC
  library it does not change: files of 3 MiB and more cannot be uploaded,
  whatever `GOPHKEEPER_BLOB_MAX_SIZE` (README.md:487, docs/binary-storage.md:81).

Where code and documents differ without a run, or the code leaves something
behind, the models follow the code: a secret opened after another client deleted
it is shown like any other (README.md:1636 says deleted items are not shown as
active); the TUI accepts a login password that equals the master password
(docs/security.md:14 forbids it); a token is refused up to a second before the
expiry its owner was told; the CLI overwrites an output file that appeared after
its check (docs/cli.md:98); a chunk accepted between an abort's listing and its
UPDATE keeps its object; the blob of an update that failed, and the one a
successful update or delete replaced, stay where they are; `received_chunks` may
lag behind the parts while streams race; the TUI cuts what is longer than 2048
characters and joins lines.

## Proofs

All theorems hold for every value of the constants that satisfies the named
assumption of the module: that `None` is no member of the sets it is added to,
that the three kinds of calls of `Blob` are disjoint, that bounds are naturals,
payloads and plans positive, that a MAC has at least 20 bytes, that a file has at
least one byte (`SizesAssumption`: UploadBinary refuses an empty one,
`binary_blob_flow.go:37`). Nothing else is assumed. Each proof module shows that
the initial states satisfy an inductive invariant, that each action keeps it, with
one lemma per action, and that it implies the properties.

The theorems are about the module's own specification. A run whose specification
leaves out some of its behaviours (`SpecSettings`, `SpecWriting`) checks the same
formula on what remains. `Lifecycle`, `BlobSizes` and `Forms` are proved as the
instances `Process`, `Sizes` and `Field` that the runs check.

`VaultProofs`: `VaultInv` is the inductive invariant of `Vault`. The read-then-write
handlers are carried by `TargetStands`: a handler past its read aims at a row that
still exists and is still its user's, and whose version has not fallen below the
one expected; if the version is still the expected one the row is live. From it
follows that a matching statement produces the next version and no other
request has produced it (`EveryVersionHasOneWriter`). `InsertIsFresh` keeps
inserts off existing rows, `StampsFollowRows` carries `UpdatedAtNeverBack`:
a statement that can still match was stamped after the row it matches.
`VaultImplementsStore` needs nothing more than the same invariant: initial
states map to initial states, and each action to the abstract action of its
call or to a stutter.

`VaultSyncProofs` builds on it. `KnownIsPast` and `CursorIsPast` say that what a
device holds was once so: versions that rows have reached, a cursor that some row
of its user has reached, so that `UpdatedAtNeverBack` carries
`DeviceNeverGoesBack`. That nothing lies at or below the cursor unseen needs a
fact about time (`LatestInFlight`): as long as statements have not overlapped, the
one in flight was stamped after every row and every cursor, and what it commits
comes above them. The cursor is a `Max` over a set of times; `MaxOfBounded` proves,
by well-foundedness, that it exists for any set that has a bound.

`BlobProofs`: `BlobInv` is the inductive invariant of `Blob`. `PlacesKnown`,
`OutcomesLast` and `OwnerChecked` locate each handler and what it has checked;
`BlobsLast` says that creating the blob is a stream's last act, so that no
second blob of a stream can be made; with `SessionsCreated` this gives that
rows stay (`RowsStay`) and decisions stay (`DecisionsStay`), from which
`OneBlobPerUpload` and `ManifestFrozen` follow without looking into
`Cardinality` or `Sum`. `ObjectsFirst` carries `PartsHaveObjects`: a stream past
its PutObject still has its object, unless an abort began, which is never
forgotten (`AbortBeganStays`). `DownloadsProgress` says that what is listed and
what was sent make up the blob's frozen parts. `SoleWriterIntact` speaks of a
committed upload; inductive is `SoleWriters`, which speaks of every upload that
one stream alone has named: its objects are its parts except for the one chunk
between PutObject and AddUploadPart, and a stream that gave up there never commits.

`AuthProofs`: `AttemptInv` says what each phase of an attempt has stored and
knows; `LoginsHeld` that two open transactions never hold one login, and
`LoginsTaken` that none holds a login that is committed. They make the
constraint the only judge of a race, and `Commit` the moment an account is
created in `Accounts`; a session is entered at `SaveToken`, with the key of
`SessionOf`.

`ServerProofs`: of `Access`, a token's expiry is the told one rounded down
(`TokensTruncated`), which bounds both errors of a second. Of `Lifecycle`,
`ProcessInv` ties the step of `Run` to what is open (`OpenAt`), to who closes the
listener (`ListenerIs`) and to what the goroutine of `Start` has said
(`AnswerIs`): only a process that was asked to stop finds `ErrServerStopped`
there, and it closes the database after the last call (`CallsEnd`).

`ClientProofs`: of `TokenFile`, `TempOfPhase` says what a temporary holds in each
phase of its own Save, whoever renames meanwhile. Of `Totp`, the code is that of
the moment it was made (`CodeIsOfMadeAt`); the rest is the arithmetic of `\div` and
`%` (`DivRem`, `DivMonotonic`, `RemainingEndsPeriod`) and of four bytes below 2^31
(`BinaryCodeFits`). Of `BlobSizes`, `SizesInv` says that every chunk but the last
is full, so that offsets, sizes and totals are products (`ChunkOf`, `SizeOf`), and
no chunk encodes to more than the first. Of `Forms`, `FormInv` says that what the
TUI wrote fits its inputs (`Settled`), and that what is stored has what its schema
requires (`Required`).

`CliProofs`: `Uploading` and `StoredOf` tie the client's phase to what its upload
has on the server: an abort began only if the client gave up, and a client that
gave up never writes an item; `ItemsNamed` follows for every version. Nothing
takes that back later (`NamedStays`), so what a get has read stays whole until it
fetches it (`Fetchable`). `FileOfGet`
follows the file of a get from its OpenFile on: whoever could touch it later would
have passed the check before (`Unrivalled`).

`TuiProofs`: `TuiInv` has five parts besides the types. `OneCommand`: there is a
command exactly while keys are dropped, and no other. `ScreenIs`: what each screen
needs. `Held`: every secret in the model, on the screen or off it, is one of the
user logged in and, as long as its row's version is the one it carries, equal to
its row (`KnownIn`); rows only gain versions (`Grown`), so other devices never
break it, and with no session nothing can be held, which is why ListQuit must
clear everything. `CommandIs`: a command is under way on the screen it was started
from (`Origin`), asks for what is on that screen (`AskedFor`), and is answered from
its user's vault (`AnsweredWith`). They come together in `ChangesWhatWasOnScreen`:
the version in a request stands for everything that was shown.

| Module | Theorems |
|---|---|
| `VaultProofs` | `TypeCorrect`, `UpdatesAreKept`, `AnswersHaveGrounds`, `TombstonesAreFinal`, `ChangesAreOwners`, `UpdatedAtGrows`, `VaultImplementsStore` |
| `VaultSyncProofs` | `SyncTypeCorrect`, `DevicesAreExact`, `DevicesGoForward` |
| `BlobProofs` | `BlobInvariant`, `BlobTypeCorrect`, `UploadEndsOneWay`, `ManifestIsFrozen`, `AcceptedPartHasObject`, `BlobAnswersAreTrue`, `DecisionsAreFinal`, `BlobChangesAreOwners`, `SoleWriterKeepsBytes` |
| `AuthProofs` | `TypeCorrect`, `RegistrationIsAllOrNothing`, `SessionsHaveAccounts`, `RefusalsAreRight`, `Refinement` |
| `ServerProofs` | `TypeCorrect`, `CallsRunForTokenOwner`, `LifetimesAreAsTold`, `ProcessTypeCorrect`, `ProcessEndsInOrder` |
| `CliProofs` | `TypeCorrect`, `NamedBlobsAreWhole`, `SuccessesAreStored`, `ReadSecretsAreFetchable`, `ReportedFilesAreWhole` |
| `ClientProofs` | `TypeCorrect`, `CodesAreAsSaid`, `TokenFileInvHolds`, `SaveIsAtomic`, `SizesTypeCorrect`, `UploadsAreFiles`, `FormsKeepFields` |
| `TuiProofs` | `TuiTypeCorrect`, `OneCommandAtATime`, `HandlersFindTheirState`, `FormsKeepTheirTarget`, `UsersSeeTheirOwn`, `DetailStaysCurrent`, `WritesWhatWasOnScreen` |

Every invariant, every action property and both refinements that a passing run
checks are proved. Only model-checked is liveness (`DevicesConverge`,
`KeysComeBack`, `TicksDieOut`, `AttemptsEnd`, `SignalStops`), which is beyond the
prover. So is induction over data: that a user's live rows have exactly one order
by `updated_at` (`LiveSecrets` of `Tui` is never empty) was checked by TLC; the
proofs hold for whichever list is answered. What the fold `Sum` of `Blob` and
the other folds of the community modules compute is never needed by a proof.

## What is not modelled

- Cryptography: Argon2id, AES-GCM, HMAC and JWT signatures are opaque; that a
  wrong key opens nothing is an assumption (`DecryptedKey`, `Valid`).
- Paging of Sync (the repository has none), `created_at`, the checksum columns,
  upload statuses that are never written (`expired`), bucket creation.
- A crash of the server is no action of its own in `Vault`, `Blob`, `Auth` and
  `Cli`: what it leaves is what failures and lost answers leave, a handler that
  ends between two operations, and the server keeps nothing else in memory.
- `list` and `sync` of the CLI, which print; the resolution of output paths;
  prompts and their wording; rendering and key hints of the TUI.
- The contents of configuration, log lines, migrations; generated code; scripts.
- A clock that stands before 1970 or is set back.
