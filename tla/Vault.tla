------------------------------- MODULE Vault -------------------------------
(***************************************************************************)
(* The vault service of the GophKeeper server: encrypted items with        *)
(* optimistic versions and tombstones, kept in the vault_items table.      *)
(*                                                                         *)
(* Every gRPC call is one element of Requests, served by its own           *)
(* goroutine.  A handler is not one database transaction: UpdateItem and   *)
(* DeleteItem first read the row (FindItemByID), then run a conditional    *)
(* UPDATE as a separate statement, and read the row again when the UPDATE  *)
(* touched no row.  Each of these database round trips is an action here,  *)
(* so that any number of handlers interleave between them.                 *)
(*                                                                         *)
(* A statement is split once more: its NOW() is taken when it starts and   *)
(* its effect becomes visible when it commits.                             *)
(***************************************************************************)
EXTENDS Naturals

CONSTANTS
  Users,       \* user ids; authentication has already put one in the context
  Items,       \* vault item ids
  Requests,    \* the calls the server receives, each served once
  None,        \* no row in vault_items; no input received yet
  MaxVersion,  \* bound: the largest expected_version a client sends
  MaxTime      \* bound: the last value of the database clock

ASSUME VaultAssumption ==
  /\ MaxVersion \in Nat
  /\ MaxTime \in Nat
  /\ None \notin [owner: Users, version: Nat, content: Requests,
                  deleted: BOOLEAN]
  /\ None \notin [kind: {"create", "update", "delete", "get"},
                  user: Users, item: Items, expected: Nat]

VARIABLES
  items,      \* vault_items: the row of each id, without updated_at
  updatedAt,  \* vault_items.updated_at of each id
  clock,      \* the database clock, read by NOW()
  phase,      \* where the handler of each request is
  input,      \* the parsed request
  stamp,      \* NOW() of the request's INSERT or UPDATE statement
  outcome,    \* the status the handler answered with
  applied     \* history: the request's statement changed the row

vars == <<items, updatedAt, clock, phase, input, stamp, outcome, applied>>

Kinds == {"create", "update", "delete", "get"}

(* The payload, metadata, nonces, type and algorithm of a row change      *)
(* together, and only a request supplies them: content names the request  *)
(* they came from.                                                         *)
Row == [owner: Users, version: Nat, content: Requests, deleted: BOOLEAN]

Input == [kind: Kinds, user: Users, item: Items, expected: Nat]

Phases == {"idle", "find", "write", "stamped", "refind", "done"}

Outcomes == {"none", "ok", "invalid", "notfound", "denied", "conflict",
             "internal"}

TypeOK ==
  /\ items \in [Items -> Row \cup {None}]
  /\ updatedAt \in [Items -> Nat]
  /\ clock \in Nat
  /\ phase \in [Requests -> Phases]
  /\ input \in [Requests -> Input \cup {None}]
  /\ stamp \in [Requests -> Nat]
  /\ outcome \in [Requests -> Outcomes]
  /\ applied \in [Requests -> BOOLEAN]

(* The clock starts at 1: 0 is the zero time, before every updated_at.     *)
Init ==
  /\ items = [i \in Items |-> None]
  /\ updatedAt = [i \in Items |-> 0]
  /\ clock = 1
  /\ phase = [r \in Requests |-> "idle"]
  /\ input = [r \in Requests |-> None]
  /\ stamp = [r \in Requests |-> 0]
  /\ outcome = [r \in Requests |-> "none"]
  /\ applied = [r \in Requests |-> FALSE]

----------------------------------------------------------------------------
(* Receiving a request                                                     *)

ExpectedVersions_Unchecked == (0 - 1) .. MaxVersion

(* Validate requires a positive expected_version.                          *)
ExpectedVersions == 1 .. MaxVersion

Answer(r, out) ==
  /\ phase' = [phase EXCEPT ![r] = "done"]
  /\ outcome' = [outcome EXCEPT ![r] = out]

(* NewID returns a random UUID: no row has it and no other insert got it.  *)
NewID(i) ==
  /\ items[i] = None
  /\ \A q \in Requests : 
       input[q] # None => ~ (input[q].kind = "create" /\ input[q].item = i)

ReceiveCreate(r) ==
  /\ phase[r] = "idle"
  /\ \E u \in Users, i \in Items :
       /\ NewID(i)
       /\ input' = [input EXCEPT ![r] =
            [kind |-> "create", user |-> u, item |-> i, expected |-> 0]]
  /\ phase' = [phase EXCEPT ![r] = "write"]
  /\ UNCHANGED <<items, updatedAt, clock, stamp, outcome, applied>>

(* Any item id and any positive expected_version may be sent: the item     *)
(* may belong to someone else or not exist, the version be stale.          *)
ReceiveOther(r) ==
  /\ phase[r] = "idle"
  /\ \E k \in Kinds \ {"create"}, u \in Users, i \in Items,
        e \in ExpectedVersions :
       input' = [input EXCEPT ![r] =
            [kind |-> k, user |-> u, item |-> i,
             expected |-> IF k = "get" THEN 0 ELSE e]]
  /\ phase' = [phase EXCEPT ![r] = "find"]
  /\ UNCHANGED <<items, updatedAt, clock, stamp, outcome, applied>>

(* Validate refuses the input (empty field, expected_version <= 0).        *)
Refuse(r) ==
  /\ phase[r] = "idle"
  /\ Answer(r, "invalid")
  /\ UNCHANGED <<items, updatedAt, clock, input, stamp, applied>>

----------------------------------------------------------------------------
(* FindItemByID and the service's checks on the row it returned            *)

FindVerdict(row, in) ==
  IF row = None                       THEN "notfound"
  ELSE IF row.owner # in.user         THEN "denied"
  ELSE IF in.kind = "get"             THEN "ok"
  ELSE IF row.deleted                 THEN "notfound"
  ELSE IF row.version # in.expected   THEN "conflict"
  ELSE "write"

Find(r) ==
  /\ phase[r] = "find"
  /\ LET verdict == FindVerdict(items[input[r].item], input[r])
     IN  IF verdict = "write"
         THEN /\ phase' = [phase EXCEPT ![r] = "write"]
              /\ UNCHANGED outcome
         ELSE Answer(r, verdict)
  /\ UNCHANGED <<items, updatedAt, clock, input, stamp, applied>>

(* The query failed, or NewID did: "vault operation failed".               *)
FailBeforeStatement(r) ==
  /\ phase[r] \in {"find", "write"}
  /\ Answer(r, "internal")
  /\ UNCHANGED <<items, updatedAt, clock, input, stamp, applied>>

----------------------------------------------------------------------------
(* The INSERT or UPDATE statement                                          *)

BeginStatement(r) ==
  /\ phase[r] = "write"
  /\ phase' = [phase EXCEPT ![r] = "stamped"]
  /\ stamp' = [stamp EXCEPT ![r] = clock]
  /\ UNCHANGED <<items, updatedAt, clock, input, outcome, applied>>

Matches_NoVersion(r) ==
  LET row == items[input[r].item] IN
  row # None /\ row.owner = input[r].user /\ ~ row.deleted

Matches_OwnerOnly(r) ==
  LET row == items[input[r].item] IN
  row # None /\ row.owner = input[r].user

(* The WHERE clause, evaluated on the row's latest committed version: a    *)
(* statement that waited for the row's lock evaluates it again.            *)
Matches(r) ==
  LET row == items[input[r].item] IN
  /\ row # None
  /\ row.owner = input[r].user
  /\ row.version = input[r].expected
  /\ ~ row.deleted

InsertedRow(r) ==
  [owner |-> input[r].user, version |-> 1, content |-> r, deleted |-> FALSE]

UpdatedRow(r, row) ==
  [row EXCEPT !.version = @ + 1, !.content = r]

DeletedRow(r, row) ==
  [row EXCEPT !.version = @ + 1, !.deleted = TRUE]

(* The row the statement leaves behind.                                    *)
NewRow(r) ==
  LET row == items[input[r].item] IN
  IF input[r].kind = "create" THEN InsertedRow(r)
  ELSE IF input[r].kind = "update" THEN UpdatedRow(r, row)
  ELSE DeletedRow(r, row)

(* The statement commits.  The handler learns of it and answers ok, or     *)
(* loses the connection or its context after the commit.                   *)
CommitStatement(r) ==
  /\ phase[r] = "stamped"
  /\ input[r].kind # "create" => Matches(r)
  /\ items' = [items EXCEPT ![input[r].item] = NewRow(r)]
  /\ updatedAt' = [updatedAt EXCEPT ![input[r].item] = stamp[r]]
  /\ applied' = [applied EXCEPT ![r] = TRUE]
  /\ \E out \in {"ok", "internal"} : Answer(r, out)
  /\ UNCHANGED <<clock, input, stamp>>

NoRows_Ignored(r) ==
  /\ phase[r] = "stamped"
  /\ input[r].kind # "create"
  /\ ~ Matches(r)
  /\ Answer(r, "ok")
  /\ UNCHANGED <<items, updatedAt, clock, input, stamp, applied>>

(* The UPDATE touched no row: ErrVersionConflict from the repository.      *)
NoRows(r) ==
  /\ phase[r] = "stamped"
  /\ input[r].kind # "create"
  /\ ~ Matches(r)
  /\ phase' = [phase EXCEPT ![r] = "refind"]
  /\ UNCHANGED <<items, updatedAt, clock, input, stamp, outcome, applied>>

FailStatement(r) ==
  /\ phase[r] = "stamped"
  /\ Answer(r, "internal")
  /\ UNCHANGED <<items, updatedAt, clock, input, stamp, applied>>

(* After a conflict the service reads the row again.  A tombstone answers  *)
(* not found; a live row, or a read that failed, leaves the conflict.      *)
Refind(r) ==
  /\ phase[r] = "refind"
  /\ \/ /\ items[input[r].item] # None
        /\ items[input[r].item].deleted
        /\ Answer(r, "notfound")
     \/ Answer(r, "conflict")
  /\ UNCHANGED <<items, updatedAt, clock, input, stamp, applied>>

Tick ==
  /\ clock < MaxTime
  /\ clock' = clock + 1
  /\ UNCHANGED <<items, updatedAt, phase, input, stamp, outcome, applied>>

(* What the server does for a request it has received.                     *)
Serve(r) ==
  \/ Find(r)
  \/ FailBeforeStatement(r)
  \/ BeginStatement(r)
  \/ CommitStatement(r)
  \/ NoRows(r)
  \/ FailStatement(r)
  \/ Refind(r)

Next ==
  \/ \E r \in Requests :
       \/ ReceiveCreate(r)
       \/ ReceiveOther(r)
       \/ Refuse(r)
       \/ Serve(r)
  \/ Tick

Spec == Init /\ [][Next]_vars

----------------------------------------------------------------------------
(* Properties                                                              *)

(* The version of the row a request's statement produced, when it did.     *)
Produced(r) == input[r].expected + 1

Writers(i) == {r \in Requests : applied[r] /\ input[r].item = i}

OneWriterEach(i) ==
  /\ items[i] = None => Writers(i) = {}
  /\ items[i] # None =>
       /\ \A r \in Writers(i) : Produced(r) \in 1 .. items[i].version
       /\ \A v \in 1 .. items[i].version :
            \E r \in Writers(i) :
              /\ Produced(r) = v
              /\ \A q \in Writers(i) : Produced(q) = v => q = r

(* No update is lost and none is applied twice: whatever the interleaving  *)
(* of reads and conditional statements, each version 1..n of a stored item *)
(* was produced by exactly one request, and an item with no row by none    *)
(* (service.go UpdateItem, DeleteItem: read, check, conditional UPDATE).   *)
EveryVersionHasOneWriter == \A i \in Items : OneWriterEach(i)

NewestContent(i) ==
  items[i] # None =>
    LET c == items[i].content IN
    /\ c \in Writers(i)
    /\ input[c].kind # "delete"
    /\ Produced(c) + (IF items[i].deleted THEN 1 ELSE 0) = items[i].version

(* The stored payload is that of the last writer which supplied one: a     *)
(* writer that read an older version never overwrites a newer payload, and *)
(* a tombstone keeps the payload it buried.                                *)
StoredContentIsNewest == \A i \in Items : NewestContent(i)

(* No update is lost, none is applied twice, and what is stored is what    *)
(* the newest of them brought (service.go UpdateItem, DeleteItem).         *)
NoUpdateIsLost == EveryVersionHasOneWriter /\ StoredContentIsNewest

(* The answer tells the truth about the effect: ok means the row changed,  *)
(* a refusal means it did not.  Only "internal" leaves the client unsure.  *)
AnswerMatchesEffect ==
  \A r \in Requests :
    /\ outcome[r] = "ok" /\ input[r].kind # "get" => applied[r]
    /\ outcome[r] \in {"invalid", "notfound", "denied", "conflict"} =>
         ~ applied[r]

(* While a handler waits to read the row again after a conflict, the row   *)
(* really is past the version the client expected: the conflict is never   *)
(* spurious (ErrVersionConflict: the item changed after the version known  *)
(* to the client).                                                         *)
ConflictIsReal ==
  \A r \in Requests : phase[r] = "refind" =>
    /\ items[input[r].item] # None
    /\ items[input[r].item].version > input[r].expected

(* Neither a refusal nor a conflict is told for nothing, and a success     *)
(* never without its effect (service.go UpdateItem, DeleteItem).           *)
AnswersAreFounded == AnswerMatchesEffect /\ ConflictIsReal

(* A tombstone is final: no late writer, however stale its read, changes   *)
(* or resurrects a deleted row.                                            *)
TombstoneIsFinal ==
  [][\A i \in Items :
       items[i] # None =>
         /\ items[i].deleted => items'[i] = items[i]
         /\ items'[i] # None]_vars

(* A row changes only through a statement of its owner's own request, one  *)
(* version at a time, and never changes hands.                             *)
OnlyOwnerChanges ==
  [][\A i \in Items : items'[i] # items[i] =>
       /\ items'[i].version =
            (IF items[i] = None THEN 1 ELSE items[i].version + 1)
       /\ items[i] # None => items'[i].owner = items[i].owner
       /\ \E r \in Requests :
            /\ ~ applied[r] /\ applied'[r]
            /\ input[r].item = i
            /\ input[r].user = items'[i].owner]_vars

(* updated_at of an item never goes back, although it is taken when the    *)
(* statement starts and not when it commits: the version check before the  *)
(* statement orders the stamps of an item's successive writers.            *)
UpdatedAtNeverBack ==
  [][\A i \in Items : updatedAt'[i] >= updatedAt[i]]_vars

----------------------------------------------------------------------------
(* Why they hold: the inductive invariant                                  *)

InputKnown ==
  \A r \in Requests : phase[r] \in {"find", "write", "stamped", "refind"} =>
    input[r] \in Input

(* A handler past its read aims at a row that exists and is its user's;    *)
(* the row's version can only have grown since, and if it has not, the row *)
(* is still live.                                                          *)
TargetStands ==
  \A r \in Requests :
    phase[r] \in {"write", "stamped", "refind"} /\ input[r].kind # "create" =>
      LET row == items[input[r].item] IN
      /\ input[r].kind \in {"update", "delete"}
      /\ row # None
      /\ row.owner = input[r].user
      /\ row.version >= input[r].expected
      /\ row.deleted \/ phase[r] = "refind" => row.version > input[r].expected

(* No two inserts share an id, and none finds a row there.                 *)
InsertIsFresh ==
  \A r \in Requests : input[r] # None /\ input[r].kind = "create" =>
    /\ input[r].expected = 0
    /\ phase[r] \in {"write", "stamped", "done"}
    /\ phase[r] # "done" => items[input[r].item] = None
    /\ \A q \in Requests :
         input[q] # None /\ input[q].kind = "create"
           /\ input[q].item = input[r].item => q = r

(* A statement that can still match was stamped after its row was.         *)
StampsFollowRows ==
  /\ \A i \in Items :
       /\ updatedAt[i] <= clock
       /\ items[i] = None => updatedAt[i] = 0
  /\ \A r \in Requests :
       phase[r] = "stamped" =>
         /\ stamp[r] <= clock
         /\ Matches(r) => updatedAt[input[r].item] <= stamp[r]

(* Only an answered request has an outcome or an effect.                   *)
AnsweredOnce ==
  \A r \in Requests :
    /\ phase[r] # "done" => outcome[r] = "none" /\ ~ applied[r]
    /\ phase[r] = "idle" => input[r] = None
    /\ applied[r] => input[r] \in Input /\ input[r].kind # "get"

VaultInv ==
  /\ InputKnown
  /\ TargetStands
  /\ InsertIsFresh
  /\ StampsFollowRows
  /\ AnsweredOnce
  /\ EveryVersionHasOneWriter
  /\ StoredContentIsNewest
  /\ AnswerMatchesEffect

=============================================================================
