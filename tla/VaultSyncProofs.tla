-------------------------- MODULE VaultSyncProofs --------------------------
(***************************************************************************)
(* Proofs about the synchronisation of devices with the vault, for any set *)
(* of devices, users, items and requests: what a device holds is exact up  *)
(* to its cursor, and neither ever goes back.                              *)
(***************************************************************************)
EXTENDS VaultSync, VaultProofs, WellFoundedInduction

----------------------------------------------------------------------------
(* Max of a set of naturals that has an upper bound, finite or not         *)

LEMMA LessIsWellFounded ==
  \E R : /\ IsWellFoundedOn(R, Nat)
         /\ \A x, y \in Nat : x < y => <<x, y>> \in R
<1> DEFINE R == OpToRel(<, Nat)
<1>1. IsWellFoundedOn(R, Nat)
  BY NatLessThanWellFounded
<1>2. \A x, y \in Nat : x < y => <<x, y>> \in R
  BY DEF OpToRel
<1> HIDE DEF R
<1> QED
  BY <1>1, <1>2

LEMMA LeastNatural ==
  ASSUME NEW S \in SUBSET Nat, S # {}
  PROVE  \E x \in S : \A y \in S : x <= y
<1>1. PICK R : /\ IsWellFoundedOn(R, Nat)
               /\ \A x, y \in Nat : x < y => <<x, y>> \in R
  BY LessIsWellFounded
<1>2. S \subseteq Nat
  OBVIOUS
<1>3. PICK x \in S : \A y \in S : ~ (<<y, x>> \in R)
  <2>1. IsWellFoundedOn(R, Nat)
    BY <1>1
  <2> QED
    BY <2>1, <1>2, WFMin, Zenon
<1>4. \A y \in S : ~ (y < x)
  BY <1>1, <1>2, <1>3
<1>5. \A y \in S : x <= y
  BY <1>2, <1>4
<1> QED
  BY <1>5

(* The least upper bound is a member: else its predecessor were a bound.   *)
LEMMA MaxOfBounded ==
  ASSUME NEW S \in SUBSET Nat, S # {}, NEW n \in Nat, \A x \in S : x <= n
  PROVE  Max(S) \in S /\ \A x \in S : Max(S) >= x
<1> DEFINE B == {b \in Nat : \A x \in S : x <= b}
<1>1. PICK b \in B : \A c \in B : b <= c
  BY LeastNatural
<1>2. b \in S
  <2> SUFFICES ASSUME b \notin S PROVE FALSE
    OBVIOUS
  <2>1. \A x \in S : x \in Nat /\ x < b
    OBVIOUS
  <2>2. b - 1 \in Nat
    <3>1. PICK x \in S : TRUE
      OBVIOUS
    <3>2. b \in Nat /\ x \in Nat /\ x < b
      BY <2>1
    <3> QED
      BY <3>2
  <2>3. \A x \in S : x <= b - 1
    BY <2>1
  <2> QED
    BY <1>1, <2>2, <2>3
<1>3. \E m \in S : \A x \in S : m >= x
  BY <1>2
<1> QED
  BY <1>3 DEF Max

----------------------------------------------------------------------------
(* The inductive invariant                                                 *)

(* A device holds versions that were there, of rows that are its user's.   *)
KnownIsPast ==
  \A c \in Consumers, i \in Items :
    known[c][i] > 0 => Mine(c, i) /\ known[c][i] <= items[i].version

(* A cursor is the updated_at a row of the user had, or none.              *)
CursorIsPast ==
  \A c \in Consumers : cursor[c] > 0 =>
    \E i \in Items : Mine(c, i) /\ cursor[c] <= updatedAt[i]

(* A row has the stamp of the statement that changed it last; no statement *)
(* has the zero time, which a full Sync sends.                             *)
RowsAreStamped ==
  /\ clock > 0
  /\ \A r \in Requests : InFlight(r) => stamp[r] > 0
  /\ \A i \in Items : items[i] # None =>
       /\ updatedAt[i] > 0
       /\ \E r \in Requests : applied[r] /\ stamp[r] = updatedAt[i]

(* While no statements overlap, the one in flight has the latest time of   *)
(* all: later than every row, and so than every cursor.                    *)
LatestInFlight ==
  ~ overlap =>
    /\ \A r, q \in Requests : InFlight(r) /\ InFlight(q) => q = r
    /\ \A r \in Requests : InFlight(r) =>
         /\ \A i \in Items : items[i] # None => updatedAt[i] < stamp[r]
         /\ \A c \in Consumers : cursor[c] < stamp[r]

SyncInv ==
  /\ TypeOKSync
  /\ TypeInv /\ VaultInv
  /\ KnownIsPast /\ CursorIsPast
  /\ RowsAreStamped /\ LatestInFlight
  /\ NothingBelowCursor

LEMMA InitSyncInv == InitSync => SyncInv
<1> SUFFICES ASSUME InitSync PROVE SyncInv
  OBVIOUS
<1>1. TypeInv /\ VaultInv
  BY InvInit DEF InitSync
<1>2. TypeOKSync
  BY <1>1 DEF InitSync, TypeInv, TypeOKSync
<1>3. KnownIsPast /\ CursorIsPast
  BY DEF InitSync, KnownIsPast, CursorIsPast
<1>4. RowsAreStamped
  BY DEF InitSync, Init, RowsAreStamped, InFlight
<1>5. LatestInFlight
  BY DEF InitSync, Init, LatestInFlight, InFlight
<1>6. NothingBelowCursor
  BY DEF InitSync, Init, NothingBelowCursor, Mine
<1> QED
  BY <1>1, <1>2, <1>3, <1>4, <1>5, <1>6 DEF SyncInv

----------------------------------------------------------------------------
(* The steps of the vault                                                  *)

(* A statement commits, or begins, or nothing a device sees changes.       *)
LEMMA VaultMoves ==
  ASSUME TypeInv, VaultInv, [Next]_vars
  PROVE  /\ clock' \in Nat /\ clock' >= clock
         /\ \/ \E r \in Requests : CommitStatement(r)
            \/ \E r \in Requests : BeginStatement(r)
            \/ /\ UNCHANGED <<items, updatedAt, applied, stamp>>
               /\ \A q \in Requests : InFlight(q)' => InFlight(q)
<1> USE DEF TypeInv, TypeOK
<1>1. ASSUME NEW r \in Requests,
             ReceiveCreate(r) \/ ReceiveOther(r) \/ Refuse(r)
      PROVE  /\ UNCHANGED <<items, updatedAt, applied, stamp, clock>>
             /\ \A q \in Requests : InFlight(q)' => InFlight(q)
  BY <1>1 DEF ReceiveCreate, ReceiveOther, Refuse, Answer, InFlight
<1>2. ASSUME NEW r \in Requests, Find(r) \/ FailBeforeStatement(r)
      PROVE  /\ UNCHANGED <<items, updatedAt, applied, stamp, clock>>
             /\ \A q \in Requests : InFlight(q)' => InFlight(q)
  BY <1>2 DEF Find, FailBeforeStatement, Answer, InFlight
<1>3. ASSUME NEW r \in Requests, NoRows(r) \/ FailStatement(r) \/ Refind(r)
      PROVE  /\ UNCHANGED <<items, updatedAt, applied, stamp, clock>>
             /\ \A q \in Requests : InFlight(q)' => InFlight(q)
  BY <1>3 DEF NoRows, FailStatement, Refind, Answer, InFlight
<1>4. ASSUME NEW r \in Requests, BeginStatement(r) \/ CommitStatement(r)
      PROVE  UNCHANGED clock
  BY <1>4 DEF BeginStatement, CommitStatement
<1>5. CASE Tick
  BY <1>5 DEF Tick, InFlight
<1>6. CASE UNCHANGED vars
  BY <1>6 DEF vars, InFlight
<1>7. clock \in Nat
  OBVIOUS
<1> QED
  BY <1>1, <1>2, <1>3, <1>4, <1>5, <1>6, <1>7 DEF Next, Serve

(* Rows do not change hands, and only grow.                                *)
LEMMA MineStays ==
  ASSUME TypeInv, VaultInv, [Next]_vars,
         NEW c \in Consumers, NEW i \in Items, Mine(c, i)
  PROVE  /\ Mine(c, i)'
         /\ items[i].version \in Nat /\ items'[i].version \in Nat
         /\ items'[i].version >= items[i].version
<1>1. items[i] \in Row /\ items[i] # None
  BY DEF Mine, TypeInv, TypeOK
<1>2. CASE \E r \in Requests : CommitStatement(r)
  <2>1. PICK r \in Requests : CommitStatement(r)
    BY <1>2
  <2>2. /\ items' = [items EXCEPT ![input[r].item] = NewRow(r)]
        /\ NewRow(r) \in Row
        /\ NewRow(r).owner = input[r].user
        /\ NewRow(r).version = Produced(r)
        /\ input[r].item = i =>
             /\ items[i].owner = input[r].user
             /\ items[i].version = input[r].expected
    BY <1>1, <2>1, CommitWrites DEF VaultInv
  <2>3. CASE input[r].item = i
    <3>1. items'[i] = NewRow(r)
      BY <2>2, <2>3 DEF TypeInv, TypeOK
    <3>2. NewRow(r) # None
      BY <2>2, NoneIsNoInput
    <3>3. items[i].version \in Nat /\ NewRow(r).version = items[i].version + 1
      BY <1>1, <2>2, <2>3 DEF Row, Produced
    <3> QED
      BY <2>2, <2>3, <3>1, <3>2, <3>3 DEF Mine
  <2>4. CASE input[r].item # i
    <3>1. items'[i] = items[i] /\ items[i].version \in Nat
      BY <1>1, <2>2, <2>4 DEF TypeInv, TypeOK, Row
    <3> QED
      BY <1>1, <3>1 DEF Mine
  <2> QED
    BY <2>3, <2>4
<1>3. CASE ~ \E r \in Requests : CommitStatement(r)
  <2>1. items' = items /\ items[i].version \in Nat
    BY <1>1, <1>3, OnlyCommitsWrite DEF VaultInv, Row
  <2> QED
    BY <2>1 DEF Mine
<1> QED
  BY <1>2, <1>3

(* What devices hold stays true when the vault alone moves.                *)
LEMMA PastStays ==
  ASSUME SyncInv, [Next]_vars, Quiet
  PROVE  KnownIsPast' /\ CursorIsPast' /\ TypeInv' /\ VaultInv'
<1>1. TypeInv /\ VaultInv /\ TypeInv' /\ VaultInv'
  BY InvStep DEF SyncInv
<1>2. known' = known /\ cursor' = cursor
  BY DEF Quiet, syncVars
<1>3. KnownIsPast'
  <2> SUFFICES ASSUME NEW c \in Consumers, NEW i \in Items, known[c][i] > 0
               PROVE  Mine(c, i)' /\ known[c][i] <= items'[i].version
    BY <1>2 DEF KnownIsPast
  <2>1. Mine(c, i) /\ known[c][i] <= items[i].version
    BY DEF SyncInv, KnownIsPast
  <2>2. known[c][i] \in Nat
    BY DEF SyncInv, TypeOKSync
  <2> QED
    BY <1>1, <2>1, <2>2, MineStays
<1>4. CursorIsPast'
  <2> SUFFICES ASSUME NEW c \in Consumers, cursor[c] > 0
               PROVE  \E i \in Items :
                        Mine(c, i)' /\ cursor[c] <= updatedAt'[i]
    BY <1>2 DEF CursorIsPast
  <2>1. PICK i \in Items : Mine(c, i) /\ cursor[c] <= updatedAt[i]
    BY DEF SyncInv, CursorIsPast
  <2>2. Mine(c, i)' /\ updatedAt'[i] >= updatedAt[i]
    BY <1>1, <2>1, MineStays, UpdatedAtStep
  <2>3. cursor[c] \in Nat /\ updatedAt[i] \in Nat /\ updatedAt'[i] \in Nat
    BY <1>1 DEF SyncInv, TypeOKSync, TypeInv, TypeOK
  <2> QED
    BY <2>1, <2>2, <2>3
<1> QED
  BY <1>1, <1>3, <1>4

LEMMA NoOverlapYet ==
  ASSUME Recorded
  PROVE  ~ overlap' => ~ overlap /\ DistinctStamps /\ NoOverlap
BY DEF Recorded

(* A step that changes no row and begins no statement.                     *)
LEMMA OtherStepInv ==
  ASSUME SyncInv, [Next]_vars, Quiet, Recorded,
         UNCHANGED <<items, updatedAt, applied, stamp>>,
         \A q \in Requests : InFlight(q)' => InFlight(q)
  PROVE  RowsAreStamped' /\ LatestInFlight' /\ NothingBelowCursor'
<1>1. /\ clock \in Nat /\ clock' \in Nat /\ clock' >= clock
      /\ known' = known /\ cursor' = cursor
  BY VaultMoves DEF SyncInv, TypeInv, TypeOK, Quiet, syncVars
<1>2. ~ overlap' => ~ overlap
  BY NoOverlapYet
<1>3. RowsAreStamped'
  BY <1>1 DEF SyncInv, RowsAreStamped
<1>4. LatestInFlight'
  BY <1>1, <1>2 DEF SyncInv, LatestInFlight
<1>5. NothingBelowCursor'
  BY <1>1, <1>2 DEF SyncInv, NothingBelowCursor, Mine
<1> QED
  BY <1>3, <1>4, <1>5

(* A statement that begins takes the time after every row's: each of them  *)
(* was stamped by a statement before.                                      *)
LEMMA BeginStatementInv ==
  ASSUME SyncInv, Quiet, Recorded,
         NEW r \in Requests, BeginStatement(r)
  PROVE  RowsAreStamped' /\ LatestInFlight' /\ NothingBelowCursor'
<1> USE DEF SyncInv, TypeInv, TypeOK
<1>1. /\ UNCHANGED <<items, updatedAt, applied, clock>>
      /\ known' = known /\ cursor' = cursor
      /\ stamp' = [stamp EXCEPT ![r] = clock]
      /\ phase' = [phase EXCEPT ![r] = "stamped"]
      /\ phase[r] = "write"
  BY DEF BeginStatement, Quiet, syncVars
<1>2. \A q \in Requests : q # r => stamp'[q] = stamp[q]
  BY <1>1
<1>3. \A q \in Requests : applied[q] => stamp'[q] = stamp[q]
  BY <1>1 DEF VaultInv, AnsweredOnce
<1>4. stamp'[r] = clock /\ clock \in Nat /\ clock > 0
  BY <1>1 DEF RowsAreStamped
<1>5. \A q \in Requests : InFlight(q)' => q = r \/ InFlight(q)
  BY <1>1 DEF InFlight
<1>6. RowsAreStamped'
  <2>1. \A q \in Requests : InFlight(q)' => stamp'[q] > 0
    BY <1>2, <1>4, <1>5 DEF RowsAreStamped
  <2>2. \A i \in Items : items[i] # None =>
          /\ updatedAt[i] > 0
          /\ \E q \in Requests : applied[q] /\ stamp'[q] = updatedAt[i]
    BY <1>3 DEF RowsAreStamped
  <2> QED
    BY <1>1, <1>4, <2>1, <2>2 DEF RowsAreStamped
<1>7. LatestInFlight'
  <2> SUFFICES ASSUME ~ overlap'
               PROVE  LatestInFlight'
    BY DEF LatestInFlight
  <2>1. ~ overlap /\ DistinctStamps /\ NoOverlap
    BY NoOverlapYet
  <2>2. InFlight(r)' /\ ~ InFlight(r)
    BY <1>1 DEF InFlight
  <2>3. /\ \A q \in Requests : stamp[q] < clock
        /\ \A q \in Requests : ~ InFlight(q)
    BY <2>1, <2>2 DEF DistinctStamps, NoOverlap
  <2>4. \A q \in Requests : InFlight(q)' => q = r
    BY <1>5, <2>3
  <2>5. \A i \in Items : items[i] # None => updatedAt[i] < clock
    BY <2>3 DEF RowsAreStamped
  <2>6. \A c \in Consumers : cursor[c] < clock
    <3> SUFFICES ASSUME NEW c \in Consumers PROVE cursor[c] < clock
      OBVIOUS
    <3>1. cursor[c] \in Nat
      BY DEF TypeOKSync
    <3>2. CASE cursor[c] = 0
      BY <1>4, <3>2
    <3>3. CASE cursor[c] > 0
      <4>1. PICK i \in Items : Mine(c, i) /\ cursor[c] <= updatedAt[i]
        BY <3>3 DEF CursorIsPast
      <4>2. updatedAt[i] < clock
        BY <2>5, <4>1 DEF Mine
      <4> QED
        BY <1>4, <3>1, <4>1, <4>2
    <3> QED
      BY <3>1, <3>2, <3>3
  <2> QED
    BY <1>1, <1>4, <2>4, <2>5, <2>6 DEF LatestInFlight
<1>8. NothingBelowCursor'
  BY <1>1, NoOverlapYet DEF NothingBelowCursor, Mine
<1> QED
  BY <1>6, <1>7, <1>8

(* A statement that commits, when no other overlapped it, puts its row     *)
(* above every cursor.                                                     *)
LEMMA CommitStatementInv ==
  ASSUME SyncInv, Quiet, Recorded,
         NEW r \in Requests, CommitStatement(r)
  PROVE  RowsAreStamped' /\ LatestInFlight' /\ NothingBelowCursor'
<1> DEFINE k == input[r].item
<1> USE DEF SyncInv, TypeInv, TypeOK
<1>1. /\ k \in Items
      /\ ~ applied[r]
      /\ applied' = [applied EXCEPT ![r] = TRUE]
      /\ items' = [items EXCEPT ![k] = NewRow(r)]
      /\ NewRow(r) \in Row /\ NewRow(r).owner = input[r].user
  BY CommitWrites DEF VaultInv
<1>2. /\ updatedAt' = [updatedAt EXCEPT ![k] = stamp[r]]
      /\ UNCHANGED <<clock, stamp>>
      /\ phase' = [phase EXCEPT ![r] = "done"]
      /\ InFlight(r)
      /\ known' = known /\ cursor' = cursor
  BY DEF CommitStatement, Answer, Quiet, syncVars, InFlight
<1> HIDE DEF k
<1>3. \A q \in Requests : InFlight(q)' => q # r /\ InFlight(q)
  BY <1>2 DEF InFlight
<1>4. RowsAreStamped'
  <2>1. \A q \in Requests : applied[q] => applied'[q]
    BY <1>1
  <2>2. updatedAt'[k] = stamp[r] /\ stamp[r] > 0 /\ applied'[r]
    BY <1>1, <1>2 DEF RowsAreStamped
  <2>3. \A i \in Items : i # k =>
          items'[i] = items[i] /\ updatedAt'[i] = updatedAt[i]
    BY <1>1, <1>2
  <2>4. ASSUME NEW i \in Items, items'[i] # None
        PROVE  /\ updatedAt'[i] > 0
               /\ \E q \in Requests : applied'[q] /\ stamp[q] = updatedAt'[i]
    BY <2>1, <2>2, <2>3, <2>4 DEF RowsAreStamped
  <2> QED
    BY <1>2, <1>3, <2>4 DEF RowsAreStamped
<1>5. LatestInFlight'
  BY <1>2, <1>3, NoOverlapYet DEF LatestInFlight
<1>6. NothingBelowCursor'
  <2> SUFFICES ASSUME ~ overlap', NEW c \in Consumers, NEW i \in Items,
                      Mine(c, i)', items'[i].version > known[c][i]
               PROVE  updatedAt'[i] > cursor[c]
    BY <1>2 DEF NothingBelowCursor
  <2>1. ~ overlap
    BY NoOverlapYet
  <2>2. CASE i = k
    <3>1. updatedAt'[i] = stamp[r] /\ cursor[c] < stamp[r]
      BY <1>1, <1>2, <2>1, <2>2 DEF LatestInFlight
    <3> QED
      BY <3>1 DEF TypeOKSync
  <2>3. CASE i # k
    <3>1. items'[i] = items[i] /\ updatedAt'[i] = updatedAt[i]
      BY <1>1, <1>2, <2>3
    <3> QED
      BY <2>1, <3>1 DEF NothingBelowCursor, Mine
  <2> QED
    BY <2>2, <2>3
<1> QED
  BY <1>4, <1>5, <1>6

----------------------------------------------------------------------------
(* A Sync                                                                  *)

(* Whatever bound it was asked with, the cursor is the greatest updated_at *)
(* of the rows that were sent, or the bound when none was.                 *)
LEMMA CursorMoves ==
  ASSUME SyncInv, NEW c \in Consumers, NEW a \in {0, cursor[c]},
         SyncItems(c, a)
  PROVE  /\ cursor'[c] \in Nat /\ cursor'[c] >= a
         /\ \A i \in ChangedItems(UserOf[c], a) : cursor'[c] >= updatedAt[i]
         /\ \/ cursor'[c] = a
            \/ \E i \in ChangedItems(UserOf[c], a) : cursor'[c] = updatedAt[i]
<1> DEFINE rows == ChangedItems(UserOf[c], a)
           S == {updatedAt[i] : i \in rows} \cup {a}
<1>1. cursor'[c] = Max(S)
  BY DEF SyncItems, NextChangedAfter, SyncInv, TypeOKSync
<1>2. /\ a \in Nat /\ rows \subseteq Items /\ clock \in Nat
      /\ \A i \in Items : updatedAt[i] \in Nat /\ updatedAt[i] <= clock
  BY DEF SyncInv, TypeOKSync, TypeInv, TypeOK, VaultInv, StampsFollowRows,
         ChangedItems
<1>3. a <= clock
  <2>1. CASE a = 0
    BY <1>2, <2>1
  <2>2. CASE a # 0
    <3>1. a = cursor[c] /\ cursor[c] > 0
      BY <1>2, <2>2
    <3>2. PICK i \in Items : cursor[c] <= updatedAt[i]
      BY <3>1 DEF SyncInv, CursorIsPast
    <3> QED
      BY <1>2, <3>1, <3>2
  <2> QED
    BY <2>1, <2>2
<1> HIDE DEF rows
<1>4. S \in SUBSET Nat /\ S # {} /\ \A x \in S : x <= clock
  BY <1>2, <1>3
<1>5. Max(S) \in S /\ \A x \in S : Max(S) >= x
  BY <1>2, <1>4, MaxOfBounded
<1>6. a \in S /\ \A i \in rows : updatedAt[i] \in S
  OBVIOUS
<1>7. Max(S) \in Nat
  BY <1>4, <1>5
<1>8. Max(S) = a \/ \E i \in rows : Max(S) = updatedAt[i]
  BY <1>5
<1> QED
  BY <1>1, <1>5, <1>6, <1>7, <1>8 DEF rows

(* A Sync sends every row of its user above the bound, as it is.           *)
LEMMA KnownMoves ==
  ASSUME SyncInv, NEW c \in Consumers, NEW a \in {0, cursor[c]},
         SyncItems(c, a)
  PROVE  /\ UNCHANGED vars
         /\ \A d \in Consumers \ {c} :
              known'[d] = known[d] /\ cursor'[d] = cursor[d]
         /\ \A i \in Items :
              IF i \in ChangedItems(UserOf[c], a)
              THEN known'[c][i] = items[i].version /\ Mine(c, i)
              ELSE /\ known'[c][i] = known[c][i]
                   /\ Mine(c, i) => updatedAt[i] <= a
<1>1. /\ UNCHANGED vars
      /\ known' = [known EXCEPT ![c] =
           [i \in Items |-> IF i \in ChangedItems(UserOf[c], a)
                            THEN items[i].version ELSE known[c][i]]]
      /\ cursor' = [cursor EXCEPT ![c] =
           NextChangedAfter(ChangedItems(UserOf[c], a), a)]
  BY DEF SyncItems
<1>2. /\ a \in Nat /\ \A i \in Items : updatedAt[i] \in Nat
      /\ known \in [Consumers -> [Items -> Nat]]
      /\ cursor \in [Consumers -> Nat]
  BY DEF SyncInv, TypeOKSync, TypeInv, TypeOK
<1>3. \A d \in Consumers \ {c} :
        known'[d] = known[d] /\ cursor'[d] = cursor[d]
  BY <1>1, <1>2
<1>4. known'[c] = [i \in Items |-> IF i \in ChangedItems(UserOf[c], a)
                                   THEN items[i].version ELSE known[c][i]]
  BY <1>1, <1>2
<1>5. ASSUME NEW i \in Items
      PROVE  IF i \in ChangedItems(UserOf[c], a)
             THEN known'[c][i] = items[i].version /\ Mine(c, i)
             ELSE /\ known'[c][i] = known[c][i]
                  /\ Mine(c, i) => updatedAt[i] <= a
  <2>1. CASE i \in ChangedItems(UserOf[c], a)
    BY <1>4, <2>1 DEF ChangedItems, Mine
  <2>2. CASE i \notin ChangedItems(UserOf[c], a)
    <3>1. known'[c][i] = known[c][i]
      BY <1>4, <2>2
    <3>2. Mine(c, i) => ~ (updatedAt[i] > a)
      BY <2>2 DEF ChangedItems, Mine
    <3> QED
      BY <1>2, <2>2, <3>1, <3>2
  <2> QED
    BY <2>1, <2>2
<1> QED
  BY <1>1, <1>3, <1>5

(* After a Sync nothing of the device's user is unknown to the device, if  *)
(* nothing was below the bound it was asked with.                          *)
LEMMA SyncStepInv ==
  ASSUME SyncInv, Recorded, overlap' \in BOOLEAN,
         NEW c \in Consumers, NEW a \in {0, cursor[c]}, SyncItems(c, a)
  PROVE  SyncInv'
<1>1. UNCHANGED vars
  BY KnownMoves
<1>2. \A i \in Items : items[i] # None => items[i].version \in Nat
  BY DEF SyncInv, TypeInv, TypeOK, Row
<1>3. \A d \in Consumers, i \in Items : Mine(d, i)' <=> Mine(d, i)
  BY <1>1 DEF vars, Mine
<1>4. TypeOKSync'
  <2>1. known' \in [Consumers -> [Items -> Nat]]
    <3>1. [i \in Items |-> IF i \in ChangedItems(UserOf[c], a)
                           THEN items[i].version ELSE known[c][i]]
            \in [Items -> Nat]
      BY <1>2 DEF SyncInv, TypeOKSync, ChangedItems
    <3> QED
      BY <3>1 DEF SyncItems, SyncInv, TypeOKSync
  <2>2. cursor' \in [Consumers -> Nat]
    <3>1. cursor'[c] \in Nat
      BY CursorMoves
    <3> QED
      BY <3>1 DEF SyncItems, SyncInv, TypeOKSync
  <2> QED
    BY <1>1, <2>1, <2>2 DEF SyncInv, TypeInv, TypeOKSync, TypeOK, vars
<1>5. TypeInv' /\ VaultInv'
  BY <1>1, InvStep DEF SyncInv
<1>6. KnownIsPast'
  <2> SUFFICES ASSUME NEW d \in Consumers, NEW i \in Items, known'[d][i] > 0
               PROVE  Mine(d, i)' /\ known'[d][i] <= items'[i].version
    BY DEF KnownIsPast
  <2>1. items' = items
    BY <1>1 DEF vars
  <2>2. CASE d = c /\ i \in ChangedItems(UserOf[c], a)
    <3>1. known'[d][i] = items[i].version /\ Mine(d, i)
      BY <2>2, KnownMoves
    <3>2. items[i].version \in Nat
      BY <1>2, <3>1 DEF Mine
    <3> QED
      BY <1>3, <2>1, <3>1, <3>2
  <2>3. CASE ~ (d = c /\ i \in ChangedItems(UserOf[c], a))
    <3>1. known'[d][i] = known[d][i]
      BY <2>3, KnownMoves
    <3> QED
      BY <1>3, <2>1, <3>1 DEF SyncInv, KnownIsPast
  <2> QED
    BY <2>2, <2>3
<1>7. CursorIsPast'
  <2> SUFFICES ASSUME NEW d \in Consumers, cursor'[d] > 0
               PROVE  \E i \in Items : Mine(d, i) /\ cursor'[d] <= updatedAt[i]
    BY <1>1, <1>3 DEF CursorIsPast, vars
  <2>1. CASE d = c /\ \E i \in ChangedItems(UserOf[c], a) :
                        cursor'[c] = updatedAt[i]
    <3>1. PICK i \in ChangedItems(UserOf[c], a) : cursor'[c] = updatedAt[i]
      BY <2>1
    <3>2. i \in Items /\ Mine(c, i) /\ updatedAt[i] \in Nat
      BY DEF ChangedItems, Mine, SyncInv, TypeInv, TypeOK
    <3> QED
      BY <2>1, <3>1, <3>2
  <2>2. CASE d = c /\ cursor'[c] = a
    BY <2>2 DEF SyncInv, CursorIsPast
  <2>3. CASE d # c
    <3>1. cursor'[d] = cursor[d]
      BY <2>3, KnownMoves
    <3> QED
      BY <3>1 DEF SyncInv, CursorIsPast
  <2> QED
    BY <2>1, <2>2, <2>3, CursorMoves
<1>8. RowsAreStamped'
  BY <1>1 DEF SyncInv, RowsAreStamped, InFlight, vars
<1>9. ~ overlap' /\ cursor' # cursor => \A r \in Requests : ~ InFlight(r)
  BY NoOverlapYet DEF NoOverlap, syncVars
<1>10. LatestInFlight'
  BY <1>1, <1>9, NoOverlapYet DEF SyncInv, LatestInFlight, InFlight, vars
<1>11. NothingBelowCursor'
  <2> SUFFICES ASSUME ~ overlap', NEW d \in Consumers, NEW i \in Items,
                      Mine(d, i), items[i].version > known'[d][i]
               PROVE  updatedAt[i] > cursor'[d]
    BY <1>1, <1>3 DEF NothingBelowCursor, vars
  <2>1. ~ overlap
    BY NoOverlapYet
  <2>2. CASE d # c
    <3>1. known'[d] = known[d] /\ cursor'[d] = cursor[d]
      BY <2>2, KnownMoves
    <3> QED
      BY <2>1, <3>1 DEF SyncInv, NothingBelowCursor
  <2>3. CASE d = c
    <3>1. items[i].version \in Nat
      BY <1>2 DEF Mine
    <3>2. i \notin ChangedItems(UserOf[c], a)
      BY <2>3, <3>1, KnownMoves
    <3>3. known'[c][i] = known[c][i] /\ updatedAt[i] <= a
      BY <2>3, <3>2, KnownMoves
    <3>4. updatedAt[i] > cursor[c]
      BY <2>1, <2>3, <3>3 DEF SyncInv, NothingBelowCursor
    <3>5. updatedAt[i] > 0
      BY DEF SyncInv, RowsAreStamped, Mine
    <3>6. updatedAt[i] \in Nat /\ cursor[c] \in Nat
      BY DEF SyncInv, TypeInv, TypeOK, TypeOKSync
    <3> QED
      BY <3>3, <3>4, <3>5, <3>6
  <2> QED
    BY <2>2, <2>3
<1> QED
  BY <1>4, <1>5, <1>6, <1>7, <1>8, <1>10, <1>11 DEF SyncInv

LEMMA SyncInvStep == SyncInv /\ [NextSync]_allVars => SyncInv'
<1> SUFFICES ASSUME SyncInv, [NextSync]_allVars
             PROVE  SyncInv'
  OBVIOUS
<1>1. CASE Next /\ Quiet /\ Recorded
  <2>1. KnownIsPast' /\ CursorIsPast' /\ TypeInv' /\ VaultInv'
    BY <1>1, PastStays
  <2>2. TypeOKSync'
    BY <1>1, <2>1
    DEF SyncInv, TypeOKSync, TypeInv, Quiet, syncVars, Recorded
  <2>3. RowsAreStamped' /\ LatestInFlight' /\ NothingBelowCursor'
    BY <1>1, VaultMoves, OtherStepInv, BeginStatementInv, CommitStatementInv
    DEF SyncInv
  <2> QED
    BY <2>1, <2>2, <2>3 DEF SyncInv
<1>2. ASSUME NEW c \in Consumers, SyncFromCursor(c) \/ SyncFull(c), Recorded
      PROVE  SyncInv'
  <2>1. PICK a \in {0, cursor[c]} : SyncItems(c, a)
    BY <1>2 DEF SyncFromCursor, SyncFull
  <2>2. overlap' \in BOOLEAN
    BY <1>2 DEF Recorded
  <2> QED
    BY <1>2, <2>1, <2>2, SyncStepInv
<1>3. CASE UNCHANGED allVars
  <2>1. UNCHANGED vars /\ UNCHANGED <<known, cursor, overlap>>
    BY <1>3 DEF allVars, syncVars
  <2>2. TypeInv' /\ VaultInv'
    BY <2>1, InvStep DEF SyncInv
  <2>3. TypeOKSync'
    BY <2>1, <2>2 DEF SyncInv, TypeOKSync, TypeInv
  <2>4. KnownIsPast' /\ CursorIsPast' /\ NothingBelowCursor'
    BY <2>1
    DEF SyncInv, vars, KnownIsPast, CursorIsPast, NothingBelowCursor, Mine
  <2>5. RowsAreStamped' /\ LatestInFlight'
    BY <2>1 DEF SyncInv, vars, RowsAreStamped, LatestInFlight, InFlight
  <2> QED
    BY <2>2, <2>3, <2>4, <2>5 DEF SyncInv
<1> QED
  BY <1>1, <1>2, <1>3 DEF NextSync

LEMMA SyncInvariance == SpecSync => []SyncInv
BY InitSyncInv, SyncInvStep, PTL DEF SpecSync

(* The variables of vault and devices keep their types                     *)
(* (postgres_repository.go SyncItems).                                     *)
THEOREM SyncTypeCorrect == SpecSync => []TypeOKSync
<1>1. SyncInv => TypeOKSync
  BY DEF SyncInv
<1> QED
  BY <1>1, SyncInvariance, PTL

(* A device is sent rows of its own user only, and as long as statements   *)
(* overlap neither each other nor a Sync, nothing it was not sent lies at  *)
(* or below its cursor (postgres_repository.go SyncItems).                 *)
THEOREM DevicesAreExact == SpecSync => []SyncIsExact
<1>1. SyncInv => OnlyOwnRows
  BY DEF SyncInv, KnownIsPast, OnlyOwnRows
<1>2. SyncInv => SyncIsExact
  BY <1>1 DEF SyncInv, SyncIsExact
<1> QED
  BY <1>2, SyncInvariance, PTL

(* Neither a version a device holds nor its cursor ever goes back, however *)
(* its full and incremental Syncs mix with the writers and whether or not  *)
(* statements overlap (postgres_repository.go SyncItems).                  *)
THEOREM DevicesGoForward == SpecSync => DeviceNeverGoesBack
<1> DEFINE Forward == \A c \in Consumers :
             /\ cursor'[c] >= cursor[c]
             /\ \A i \in Items : known'[c][i] >= known[c][i]
<1>1. SyncInv /\ [NextSync]_allVars => [Forward]_allVars
  <2> SUFFICES ASSUME SyncInv, NextSync, NEW c \in Consumers
               PROVE  /\ cursor'[c] >= cursor[c]
                      /\ \A i \in Items : known'[c][i] >= known[c][i]
    OBVIOUS
  <2>1. cursor[c] \in Nat /\ \A i \in Items : known[c][i] \in Nat
    BY DEF SyncInv, TypeOKSync
  <2>2. CASE Quiet
    BY <2>1, <2>2 DEF Quiet, syncVars
  <2>3. ASSUME NEW d \in Consumers, NEW a \in {0, cursor[d]},
               SyncItems(d, a)
        PROVE  /\ cursor'[c] >= cursor[c]
               /\ \A i \in Items : known'[c][i] >= known[c][i]
    <3>1. CASE d # c
      BY <2>1, <2>3, <3>1, KnownMoves
    <3>2. CASE d = c
      <4>1. \A i \in Items : known'[c][i] >= known[c][i]
        <5> SUFFICES ASSUME NEW i \in Items
                     PROVE  known'[c][i] >= known[c][i]
          OBVIOUS
        <5>1. CASE i \in ChangedItems(UserOf[c], a)
          <6>1. known'[c][i] = items[i].version /\ Mine(c, i)
            BY <2>3, <3>2, <5>1, KnownMoves
          <6>2. items[i].version \in Nat
            BY <6>1 DEF Mine, SyncInv, TypeInv, TypeOK, Row
          <6>3. known[c][i] > 0 => known[c][i] <= items[i].version
            BY DEF SyncInv, KnownIsPast
          <6> QED
            BY <2>1, <6>1, <6>2, <6>3
        <5>2. CASE i \notin ChangedItems(UserOf[c], a)
          BY <2>1, <2>3, <3>2, <5>2, KnownMoves
        <5> QED
          BY <5>1, <5>2
      <4>2. cursor'[c] >= cursor[c]
        <5>1. CASE a = cursor[c]
          BY <2>3, <3>2, <5>1, CursorMoves
        <5>2. CASE a = 0 /\ cursor[c] > 0
          <6>1. PICK i \in Items : Mine(c, i) /\ cursor[c] <= updatedAt[i]
            BY <5>2 DEF SyncInv, CursorIsPast
          <6>2. updatedAt[i] \in Nat
            BY DEF SyncInv, TypeInv, TypeOK
          <6>3. i \in ChangedItems(UserOf[c], a)
            BY <2>1, <5>2, <6>1, <6>2 DEF ChangedItems, Mine
          <6>4. cursor'[c] >= updatedAt[i] /\ cursor'[c] \in Nat
            BY <2>3, <3>2, <6>3, CursorMoves
          <6> QED
            BY <2>1, <6>1, <6>2, <6>4
        <5> QED
          BY <2>1, <2>3, <3>2, <5>1, <5>2
      <4> QED
        BY <4>1, <4>2
    <3> QED
      BY <3>1, <3>2
  <2> QED
    BY <2>2, <2>3 DEF NextSync, SyncFromCursor, SyncFull
<1> QED
  BY <1>1, SyncInvariance, PTL DEF SpecSync, DeviceNeverGoesBack

=============================================================================
