----------------------------- MODULE VaultSync -----------------------------
(***************************************************************************)
(* Reading the vault through Sync: an API consumer keeps the versions it   *)
(* was sent and the next_changed_after cursor, while the handlers of Vault *)
(* create, update and delete items.                                        *)
(*                                                                         *)
(* The server's SELECT is one snapshot.  It filters by updated_at, which a *)
(* writer takes when its statement starts, not when it commits, so a       *)
(* change may become visible below a cursor that was handed out before.    *)
(*                                                                         *)
(* known is what a consumer has been sent; a tombstone is a version like   *)
(* any other, delivered with deleted_at set.                               *)
(***************************************************************************)
EXTENDS Vault, FiniteSetsExt

CONSTANTS
  Consumers,      \* the devices that follow a vault through Sync
  UserOf          \* the user each device is logged in as

ASSUME UserOfAssumption == UserOf \in [Consumers -> Users]

VARIABLES
  known,   \* version of each item a consumer was last sent, 0 if none
  cursor,  \* next_changed_after of the consumer's last Sync
  overlap  \* history: a statement overlapped another one, or a Sync

syncVars == <<known, cursor>>
allVars == <<vars, syncVars, overlap>>

TypeOKSync ==
  /\ TypeOK
  /\ known \in [Consumers -> [Items -> Nat]]
  /\ cursor \in [Consumers -> Nat]
  /\ overlap \in BOOLEAN

InitSync ==
  /\ Init
  /\ known = [c \in Consumers |-> [i \in Items |-> 0]]
  /\ cursor = [c \in Consumers |-> 0]
  /\ overlap = FALSE

(* WHERE user_id = $1 AND updated_at > $2                                  *)
ChangedItems(u, changedAfter) ==
  {i \in Items : /\ items[i] # None
                 /\ items[i].owner = u
                 /\ updatedAt[i] > changedAfter}

NextChangedAfter_RowsOnly(rows, changedAfter) ==
  Max({updatedAt[i] : i \in rows} \cup {0})

NextChangedAfter_ServerClock(rows, changedAfter) == clock

(* NextChangedAfter: the greatest updated_at sent, or changed_after itself *)
(* when nothing was.                                                       *)
NextChangedAfter(rows, changedAfter) ==
  Max({updatedAt[i] : i \in rows} \cup {changedAfter})

(* Sync with changed_after; what it returns is merged by the consumer.     *)
SyncItems(c, changedAfter) ==
  LET rows == ChangedItems(UserOf[c], changedAfter) IN
  /\ known' = [known EXCEPT ![c] =
       [i \in Items |-> IF i \in rows THEN items[i].version ELSE @[i]]]
  /\ cursor' = [cursor EXCEPT ![c] = NextChangedAfter(rows, changedAfter)]
  /\ UNCHANGED vars

(* The consumer passes the cursor it was given.                            *)
SyncFromCursor(c) == SyncItems(c, cursor[c])

SyncFull_FromCursor(c) == SyncItems(c, cursor[c])

(* The CLI and the TUI send no changed_after: the zero time, every row.    *)
SyncFull(c) == SyncItems(c, 0)

Quiet == UNCHANGED syncVars

InFlight(r) == phase[r] = "stamped"

(* No two statements share a timestamp: NOW() has microseconds.            *)
DistinctStamps ==
  \A r \in Requests : InFlight(r)' /\ ~ InFlight(r) =>
    \A q \in Requests : stamp[q] < clock

(* Moreover the statements do not overlap, with each other or with a Sync. *)
NoOverlap ==
  /\ \A r \in Requests : InFlight(r)' /\ ~ InFlight(r) =>
       \A q \in Requests : ~ InFlight(q)
  /\ syncVars' # syncVars => \A r \in Requests : ~ InFlight(r)

Recorded == overlap' = (overlap \/ ~ (DistinctStamps /\ NoOverlap))

NextCursor ==
  /\ (Next /\ Quiet) \/ \E c \in Consumers : SyncFromCursor(c)
  /\ Recorded

NextSync ==
  /\ \/ Next /\ Quiet
     \/ \E c \in Consumers : SyncFromCursor(c) \/ SyncFull(c)
  /\ Recorded

(* A device keeps syncing, and the server keeps serving what it received.  *)
(* Nothing obliges a client to send a request, nor the clock to tick.      *)
FairSync ==
  /\ \A r \in Requests : WF_allVars(Serve(r) /\ Quiet /\ Recorded)
  /\ \A c \in Consumers : WF_allVars(SyncFull(c) /\ Recorded)

SpecSync == InitSync /\ [][NextSync]_allVars /\ FairSync

SpecCursor ==
  /\ InitSync /\ [][NextCursor /\ DistinctStamps]_allVars
  /\ \A r \in Requests :
       WF_allVars(Serve(r) /\ Quiet /\ Recorded /\ DistinctStamps)
  /\ \A c \in Consumers : WF_allVars(SyncFromCursor(c) /\ Recorded)

----------------------------------------------------------------------------
(* Properties                                                              *)

Mine(c, i) == items[i] # None /\ items[i].owner = UserOf[c]

(* A consumer is sent only rows of its own user.                           *)
OnlyOwnRows ==
  \A c \in Consumers, i \in Items : known[c][i] > 0 => Mine(c, i)

(* Whatever mix of full and incremental Sync a device makes, it never      *)
(* falls back to an older version of an item, and its cursor never moves   *)
(* back, even when a full Sync computes it afresh: this rests on           *)
(* updated_at never going back (postgres_repository.go SyncItems).         *)
DeviceNeverGoesBack ==
  [][\A c \in Consumers :
       /\ cursor'[c] >= cursor[c]
       /\ \A i \in Items : known'[c][i] >= known[c][i]]_allVars

(* What a device has not been sent lies above its cursor: "next_changed_   *)
(* after is the new lower bound for the next synchronization"              *)
(* (gophkeeper.proto:361).  True while no statements overlap.              *)
NothingBelowCursor ==
  ~ overlap => \A c \in Consumers, i \in Items :
    Mine(c, i) /\ items[i].version > known[c][i] => updatedAt[i] > cursor[c]

(* What a device holds is right as far as it goes: rows of its own user    *)
(* alone, and none that changed by its cursor is missing.                  *)
SyncIsExact == OnlyOwnRows /\ NothingBelowCursor

(* Other clients see the deletion: a device that keeps syncing is          *)
(* eventually sent the tombstone of an item it follows (docs/sync.md:11).  *)
TombstoneReachesDevices ==
  \A c \in Consumers, i \in Items :
    (Mine(c, i) /\ items[i].deleted) ~>
      (Mine(c, i) /\ known[c][i] = items[i].version)

(* A device that sends an empty changed_after each time converges: once    *)
(* the writers are through it holds the last version of every item of its  *)
(* user, and goes on holding it.                                           *)
DevicesConverge ==
  \A c \in Consumers, i \in Items :
    <>[](Mine(c, i) => known[c][i] = items[i].version)

=============================================================================
