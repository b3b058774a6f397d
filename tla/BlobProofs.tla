----------------------------- MODULE BlobProofs -----------------------------
(***************************************************************************)
(* Proofs about the blob service, for any number of users, uploads and     *)
(* overlapping calls, any chunk indexes and any payloads.                  *)
(*                                                                         *)
(* BlobInv is inductive relative to TypeOK; the properties of Blob follow. *)
(***************************************************************************)
EXTENDS Blob, FiniteSetTheorems, TLAPS

----------------------------------------------------------------------------
(* Chunks are finitely many                                                *)

(* The accepted chunks of an upload can be counted, before and after one   *)
(* more is added.                                                          *)
LEMMA PresentCounted ==
  ASSUME NEW f
  PROVE  /\ IsFiniteSet(Present(f))
         /\ Cardinality(Present(f)) \in Nat
         /\ \A i : Cardinality(Present(f) \cup {i}) \in Nat
<1>1. IsFiniteSet(Present(f))
  BY BlobAssumption, FS_Subset DEF Present
<1>2. \A i : IsFiniteSet(Present(f) \cup {i})
  BY <1>1, FS_AddElement
<1>3. QED
  BY <1>1, <1>2, FS_CardinalityType

----------------------------------------------------------------------------
(* Types                                                                   *)

LEMMA TypeInit == Init => TypeOK
  BY DEF Init, TypeOK, NoChunks, Statuses, Phases, Outcomes

(* A download past its check reads a blob that exists.                     *)
LEMMA HasBlob ==
  ASSUME PlacesKnown, OwnerChecked, NEW d \in Downloads,
         phase[d] \in {"list", "send"}
  PROVE  target[d] \in Streams /\ blobs[target[d]] # None
<1>1. Place(d)
  BY DEF PlacesKnown, Calls
<1>2. target[d] \in Streams
  BY <1>1 DEF Place
<1>3. Owned(d)
  BY DEF OwnerChecked, Calls
<1>4. QED
  BY <1>2, <1>3 DEF Owned, Writing

LEMMA TypeStep ==
  TypeOK /\ PlacesKnown /\ OwnerChecked /\ [Next]_vars => TypeOK'
<1> SUFFICES ASSUME TypeOK, PlacesKnown, OwnerChecked, [Next]_vars
             PROVE  TypeOK'
  OBVIOUS
<1> USE DEF TypeOK, Phases, Outcomes, Answer, Goto, GotoOrLost, Check, store,
            calls, Calls
<1>1. ASSUME NEW u \in Uploads, CreateUpload(u) PROVE TypeOK'
  BY <1>1, BlobAssumption DEF CreateUpload, Session, Statuses
<1>2. ASSUME NEW u \in Uploads, Expire(u) PROVE TypeOK'
  BY <1>2 DEF Expire
<1>3. ASSUME NEW c \in Calls, Refuse(c) PROVE TypeOK'
  BY <1>3 DEF Refuse
<1>4. ASSUME NEW c \in Calls, Fail(c) PROVE TypeOK'
  BY <1>4 DEF Fail
<1>5. ASSUME NEW s \in Streams, FirstChunk(s) PROVE TypeOK'
  BY <1>5, BlobAssumption DEF FirstChunk, Receive, ReceiveChunk
<1>6. ASSUME NEW s \in Streams, NextChunk(s) PROVE TypeOK'
  BY <1>6, BlobAssumption DEF NextChunk, ReceiveChunk
<1>7. ASSUME NEW s \in Streams, FindForChunk(s) PROVE TypeOK'
  BY <1>7 DEF FindForChunk, ChunkVerdict, OwnerVerdict
<1>8. ASSUME NEW s \in Streams, PutObject(s) PROVE TypeOK'
  BY <1>8 DEF PutObject, PlacesKnown, Place
<1>9. ASSUME NEW s \in Streams, BeginPart(s) PROVE TypeOK'
  BY <1>9, PresentCounted DEF BeginPart
<1>10. ASSUME NEW s \in Streams, CommitPart(s) PROVE TypeOK'
  BY <1>10 DEF CommitPart, PlacesKnown, Place, ReceivedAfter, Statuses
<1>11. ASSUME NEW s \in Streams, RollBackPart(s) PROVE TypeOK'
  BY <1>11 DEF RollBackPart
<1>12. ASSUME NEW s \in Streams, EndOfStream(s) PROVE TypeOK'
  BY <1>12 DEF EndOfStream
<1>13. ASSUME NEW s \in Streams, FindForCommit(s) PROVE TypeOK'
  BY <1>13 DEF FindForCommit, CommitVerdict, OwnerVerdict
<1>14. ASSUME NEW s \in Streams, CommitBlob(s) PROVE TypeOK'
  <2>1. target[s] \in Uploads /\ s \in Calls
    BY <1>14 DEF CommitBlob, PlacesKnown, Place
  <2>2. session[target[s]] \in Session /\ user[s] = session[target[s]].owner
    BY <1>14, <2>1 DEF CommitBlob, OwnerChecked, Owned, Writing
  <2>3. /\ Cardinality(Present(parts[target[s]])) \in Nat
        /\ Sum(parts[target[s]]) \in Nat
    BY <1>14, <2>2 DEF CommitBlob, Complete, Session, Plan
  <2>4. [owner |-> user[s], upload |-> target[s],
         count |-> Cardinality(Present(parts[target[s]])),
         size |-> Sum(parts[target[s]])] \in BlobRow
    BY <2>1, <2>2, <2>3 DEF BlobRow, Session
  <2>5. /\ blobs' \in [Streams -> BlobRow \cup {None}]
        /\ status' \in [Uploads -> Statuses]
        /\ received' \in [Uploads -> Nat]
    BY <1>14, <2>1, <2>3, <2>4 DEF CommitBlob, Statuses
  <2>6. phase' \in [Calls -> Phases] /\ outcome' \in [Calls -> Outcomes]
    BY <1>14, <2>1 DEF CommitBlob
  <2>7. QED
    BY <1>14, <2>5, <2>6 DEF CommitBlob
<1>15. ASSUME NEW s \in Streams, RefuseCommit(s) PROVE TypeOK'
  BY <1>15 DEF RefuseCommit
<1>16. ASSUME NEW a \in Aborts, ReceiveAbort(a) PROVE TypeOK'
  BY <1>16 DEF ReceiveAbort, Receive
<1>17. ASSUME NEW a \in Aborts, FindForAbort(a) PROVE TypeOK'
  BY <1>17 DEF FindForAbort, OwnerVerdict
<1>18. ASSUME NEW a \in Aborts, ListForAbort(a) PROVE TypeOK'
  BY <1>18 DEF ListForAbort, PlacesKnown, Place
<1>19. ASSUME NEW a \in Aborts, RemoveObject(a) PROVE TypeOK'
  <2>1. target[a] \in Uploads /\ a \in Calls
    BY <1>19 DEF RemoveObject, PlacesKnown, Place
  <2>2. PICK i \in Indexes :
          /\ RowDone(a, i)
          /\ objects' = [objects EXCEPT ![target[a]] = [@ EXCEPT ![i] = 0]]
    BY <1>19 DEF RemoveObject
  <2>3. /\ objects' \in [Uploads -> [Indexes -> Nat]]
        /\ rows' \in [Calls -> [Indexes -> Nat]]
    BY <2>1, <2>2 DEF RowDone
  <2>4. phase' \in [Calls -> Phases] /\ outcome' \in [Calls -> Outcomes]
    BY <1>19, <2>1 DEF RemoveObject
  <2>5. QED
    BY <1>19, <2>3, <2>4 DEF RemoveObject
<1>20. ASSUME NEW a \in Aborts, AbortSession(a) PROVE TypeOK'
  <2>1. phase' \in [Calls -> Phases] /\ outcome' \in [Calls -> Outcomes]
    BY <1>20 DEF AbortSession
  <2>2. status' \in [Uploads -> Statuses]
    BY <1>20 DEF AbortSession, Statuses
  <2>3. QED
    BY <1>20, <2>1, <2>2 DEF AbortSession
<1>21. ASSUME NEW a \in Aborts, NothingToAbort(a) PROVE TypeOK'
  BY <1>21 DEF NothingToAbort
<1>22. ASSUME NEW d \in Downloads, ReceiveDownload(d) PROVE TypeOK'
  BY <1>22 DEF ReceiveDownload, Receive
<1>23. ASSUME NEW d \in Downloads, FindBlob(d) PROVE TypeOK'
  BY <1>23 DEF FindBlob, OwnerVerdict
<1>24. ASSUME NEW d \in Downloads, ListForDownload(d) PROVE TypeOK'
  <2>1. target[d] \in Streams /\ blobs[target[d]] # None
    BY <1>24, HasBlob DEF ListForDownload
  <2>2. rows' \in [Calls -> [Indexes -> Nat]]
    BY <1>24, <2>1 DEF ListForDownload, BlobRow
  <2>3. QED
    BY <1>24, <2>2 DEF ListForDownload
<1>25. ASSUME NEW d \in Downloads, SendChunk(d) PROVE TypeOK'
  <2>1. PICK i \in Indexes :
          /\ RowDone(d, i)
          /\ sent' = [sent EXCEPT ![d] =
               [@ EXCEPT ![i] = objects[blobs[target[d]].upload][i]]]
    BY <1>25 DEF SendChunk
  <2>2. target[d] \in Streams /\ blobs[target[d]] \in BlobRow
    BY <1>25, HasBlob DEF SendChunk
  <2>3. objects[blobs[target[d]].upload][i] \in Nat
    BY <2>2 DEF BlobRow
  <2>4. sent' \in [Downloads -> [Indexes -> Nat]]
    BY <2>1, <2>3
  <2>5. rows' \in [Calls -> [Indexes -> Nat]]
    BY <2>1 DEF RowDone
  <2>6. QED
    BY <1>25, <2>4, <2>5 DEF SendChunk
<1>26. ASSUME NEW d \in Downloads, EndDownload(d) PROVE TypeOK'
  BY <1>26 DEF EndDownload
<1>27. CASE UNCHANGED vars
  BY <1>27 DEF vars
<1>28. QED
  BY <1>1, <1>2, <1>3, <1>4, <1>5, <1>6, <1>7, <1>8, <1>9, <1>10, <1>11,
     <1>12, <1>13, <1>14, <1>15, <1>16, <1>17, <1>18, <1>19, <1>20, <1>21,
     <1>22, <1>23, <1>24, <1>25, <1>26, <1>27
     DEF Next, Upload, Abort, Download

----------------------------------------------------------------------------
(* The parts of the invariant that concern calls                           *)

LEMMA PlacesStep == TypeOK /\ PlacesKnown /\ [Next]_vars => PlacesKnown'
<1> SUFFICES ASSUME TypeOK, PlacesKnown, [Next]_vars, NEW q \in Calls
             PROVE  Place(q)'
  BY DEF PlacesKnown, Calls
<1> Place(q)
  BY DEF PlacesKnown
<1> USE BlobAssumption
    DEF TypeOK, Place, Calls, store, calls, Answer, Goto, GotoOrLost,
        Check
<1>1. ASSUME NEW u \in Uploads, CreateUpload(u) \/ Expire(u)
      PROVE  Place(q)'
  BY <1>1 DEF CreateUpload, Expire
<1>2. ASSUME NEW c \in Calls, Refuse(c) \/ Fail(c)
      PROVE  Place(q)'
  BY <1>2 DEF Refuse, Fail
<1>3. ASSUME NEW s \in Streams, FirstChunk(s) \/ NextChunk(s)
      PROVE  Place(q)'
  <2>1. PICK i \in Indexes, p \in Payloads :
          chunk'[s] = [index |-> i, data |-> p]
    BY <1>3 DEF FirstChunk, NextChunk, ReceiveChunk
  <2>2. CASE q = s
    <3>1. phase'[q] = "find" /\ target'[q] \in Uploads
      BY <1>3, <2>2 DEF FirstChunk, NextChunk, Receive
    <3>2. chunk'[q] # None
      BY <2>1, <2>2
    <3>3. QED
      BY <2>2, <3>1, <3>2
  <2>3. CASE q # s
    <3>1. /\ phase'[q] = phase[q]
          /\ target'[q] = target[q]
          /\ outcome'[q] = outcome[q]
          /\ q \in Streams => chunk'[q] = chunk[q]
      BY <1>3, <2>3 DEF FirstChunk, NextChunk, Receive, ReceiveChunk
    <3>2. QED
      BY <3>1
  <2>4. QED
    BY <2>2, <2>3
<1>4. ASSUME NEW s \in Streams,
             FindForChunk(s) \/ PutObject(s) \/ BeginPart(s) \/ CommitPart(s)
               \/ RollBackPart(s)
      PROVE  Place(q)'
  BY <1>4 DEF FindForChunk, PutObject, BeginPart, CommitPart, RollBackPart
<1>5. ASSUME NEW s \in Streams,
             EndOfStream(s) \/ FindForCommit(s) \/ CommitBlob(s)
               \/ RefuseCommit(s)
      PROVE  Place(q)'
  BY <1>5 DEF EndOfStream, FindForCommit, CommitBlob, RefuseCommit
<1>6. ASSUME NEW a \in Aborts, Abort(a)
      PROVE  Place(q)'
  BY <1>6 DEF Abort, ReceiveAbort, Receive, FindForAbort, ListForAbort,
              RemoveObject, AbortSession, NothingToAbort, OwnerVerdict
<1>7. ASSUME NEW d \in Downloads, Download(d)
      PROVE  Place(q)'
  BY <1>7 DEF Download, ReceiveDownload, Receive, FindBlob, ListForDownload,
              SendChunk, EndDownload
<1>8. CASE UNCHANGED vars
  BY <1>8 DEF vars
<1>9. QED
  BY <1>1, <1>2, <1>3, <1>4, <1>5, <1>6, <1>7, <1>8 DEF Next, Upload

LEMMA OutcomesStep ==
  TypeOK /\ PlacesKnown /\ OutcomesLast /\ [Next]_vars => OutcomesLast'
<1> SUFFICES ASSUME TypeOK, PlacesKnown, OutcomesLast, [Next]_vars
             PROVE  OutcomesLast'
  OBVIOUS
<1> USE DEF TypeOK, OutcomesLast, Calls, store, calls, Answer, Goto,
            GotoOrLost, Check
<1>1. ASSUME NEW u \in Uploads, CreateUpload(u) \/ Expire(u)
      PROVE  OutcomesLast'
  BY <1>1 DEF CreateUpload, Expire
<1>2. ASSUME NEW c \in Calls, Refuse(c) \/ Fail(c)
      PROVE  OutcomesLast'
  BY <1>2 DEF Refuse, Fail
<1>3. ASSUME NEW s \in Streams, FirstChunk(s) \/ NextChunk(s)
      PROVE  OutcomesLast'
  BY <1>3 DEF FirstChunk, NextChunk, Receive, ReceiveChunk
<1>4. ASSUME NEW s \in Streams,
             FindForChunk(s) \/ PutObject(s) \/ BeginPart(s) \/ CommitPart(s)
               \/ RollBackPart(s)
      PROVE  OutcomesLast'
  BY <1>4 DEF FindForChunk, PutObject, BeginPart, CommitPart, RollBackPart
<1>5. ASSUME NEW s \in Streams,
             EndOfStream(s) \/ FindForCommit(s) \/ CommitBlob(s)
               \/ RefuseCommit(s)
      PROVE  OutcomesLast'
  BY <1>5 DEF EndOfStream, FindForCommit, CommitBlob, RefuseCommit
<1>6. ASSUME NEW a \in Aborts, Abort(a)
      PROVE  OutcomesLast'
  BY <1>6 DEF Abort, ReceiveAbort, Receive, FindForAbort, ListForAbort,
              RemoveObject, AbortSession, NothingToAbort
<1>7. ASSUME NEW d \in Downloads, Download(d)
      PROVE  OutcomesLast'
  BY <1>7 DEF Download, ReceiveDownload, Receive, FindBlob, ListForDownload,
              SendChunk, EndDownload
<1>8. CASE UNCHANGED vars
  BY <1>8 DEF vars
<1>9. QED
  BY <1>1, <1>2, <1>3, <1>4, <1>5, <1>6, <1>7, <1>8 DEF Next, Upload

----------------------------------------------------------------------------
(* What changes the tables and the objects                                 *)

(* Of all the steps only these write, apart from the expiry of a session.  *)
LEMMA OnlyTheseWrite ==
  ASSUME [Next]_vars
  PROVE  \/ \E u \in Uploads : CreateUpload(u)
         \/ \E s \in Streams : PutObject(s) \/ CommitPart(s) \/ CommitBlob(s)
         \/ \E a \in Aborts : RemoveObject(a) \/ AbortSession(a)
         \/ UNCHANGED <<session, status, received, parts, objects, blobs>>
<1> USE DEF store
<1>1. ASSUME NEW s \in Streams, Upload(s), ~ PutObject(s), ~ CommitPart(s),
             ~ CommitBlob(s)
      PROVE  UNCHANGED <<session, status, received, parts, objects, blobs>>
  BY <1>1 DEF Upload, FirstChunk, Receive, NextChunk, FindForChunk, BeginPart,
              RollBackPart, EndOfStream, FindForCommit, RefuseCommit
<1>2. ASSUME NEW a \in Aborts, Abort(a), ~ RemoveObject(a), ~ AbortSession(a)
      PROVE  UNCHANGED <<session, status, received, parts, objects, blobs>>
  BY <1>2 DEF Abort, ReceiveAbort, Receive, FindForAbort, ListForAbort,
              NothingToAbort
<1>3. ASSUME NEW d \in Downloads, Download(d)
      PROVE  UNCHANGED <<session, status, received, parts, objects, blobs>>
  BY <1>3 DEF Download, ReceiveDownload, Receive, FindBlob, ListForDownload,
              SendChunk, EndDownload
<1>4. ASSUME NEW c \in Calls, Refuse(c) \/ Fail(c)
      PROVE  UNCHANGED <<session, status, received, parts, objects, blobs>>
  BY <1>4 DEF Refuse, Fail
<1>5. ASSUME NEW u \in Uploads, Expire(u)
      PROVE  UNCHANGED <<session, status, received, parts, objects, blobs>>
  BY <1>5 DEF Expire
<1>6. CASE UNCHANGED vars
  BY <1>6 DEF vars
<1>7. QED
  BY <1>1, <1>2, <1>3, <1>4, <1>5, <1>6 DEF Next

(* A stream that commits is where it can: on an open session of its        *)
(* caller, and with no blob of its own yet.                                *)
LEMMA Committing ==
  ASSUME TypeOK, PlacesKnown, OwnerChecked, BlobsLast, NEW s \in Streams,
         CommitBlob(s)
  PROVE  /\ target[s] \in Uploads
         /\ Writable(target[s])
         /\ session[target[s]] # None
         /\ session[target[s]].owner = user[s]
         /\ user[s] \in Users
         /\ blobs[s] = None
         /\ blobs'[s] # None
         /\ blobs'[s].upload = target[s]
         /\ blobs'[s].owner = user[s]
<1>1. Place(s) /\ Owned(s) /\ BlobLast(s)
  BY DEF PlacesKnown, OwnerChecked, BlobsLast, Calls
<1>2. target[s] \in Uploads /\ Writable(target[s]) /\ blobs[s] = None
  BY <1>1 DEF CommitBlob, Committable, Place, BlobLast
<1>3. session[target[s]] # None /\ session[target[s]].owner = user[s]
  BY <1>1 DEF CommitBlob, Owned, Writing
<1>4. session[target[s]] \in Session /\ user[s] \in Users
  BY <1>2, <1>3 DEF TypeOK, Session
<1>5. /\ Cardinality(Present(parts[target[s]])) \in Nat
      /\ Sum(parts[target[s]]) \in Nat
  BY <1>4 DEF CommitBlob, Complete, Session, Plan
<1>6. blobs'[s] = [owner |-> user[s], upload |-> target[s],
                   count |-> Cardinality(Present(parts[target[s]])),
                   size |-> Sum(parts[target[s]])]
  BY DEF CommitBlob, TypeOK
<1>7. blobs'[s] # None
  BY <1>2, <1>4, <1>5, <1>6, BlobAssumption
<1>8. QED
  BY <1>2, <1>3, <1>4, <1>6, <1>7

(* No session and no blob is ever overwritten.                             *)
LEMMA RowsStay ==
  ASSUME TypeOK, PlacesKnown, OwnerChecked, BlobsLast, [Next]_vars
  PROVE  /\ \A u \in Uploads : session[u] # None => session'[u] = session[u]
         /\ \A s \in Streams : blobs[s] # None => blobs'[s] = blobs[s]
<1>1. CASE \E u \in Uploads : CreateUpload(u)
  BY <1>1 DEF CreateUpload, TypeOK
<1>2. ASSUME NEW s \in Streams, CommitBlob(s)
      PROVE  /\ session' = session
             /\ \A q \in Streams : blobs[q] # None => blobs'[q] = blobs[q]
  <2>1. blobs[s] = None
    BY <1>2, Committing
  <2>2. QED
    BY <1>2, <2>1 DEF CommitBlob, TypeOK
<1>3. CASE \E s \in Streams : PutObject(s) \/ CommitPart(s)
  BY <1>3 DEF PutObject, CommitPart
<1>4. CASE \E a \in Aborts : RemoveObject(a) \/ AbortSession(a)
  BY <1>4 DEF RemoveObject, AbortSession
<1>5. CASE UNCHANGED <<session, status, received, parts, objects, blobs>>
  BY <1>5
<1>6. QED
  BY <1>1, <1>2, <1>3, <1>4, <1>5, OnlyTheseWrite

(* What is decided stays: see DecisionIsFinal.                             *)
LEMMA DecisionsStay ==
  ASSUME TypeOK, PlacesKnown, OwnerChecked, SessionsCreated, BlobsLast,
         [Next]_vars, NEW u \in Uploads, status[u] \in {"committed", "aborted"}
  PROVE  /\ status'[u] = status[u]
         /\ parts'[u] = parts[u]
         /\ received'[u] = received[u]
<1>1. CASE \E v \in Uploads : CreateUpload(v)
  BY <1>1 DEF CreateUpload, TypeOK, SessionsCreated, calls
<1>2. ASSUME NEW s \in Streams, CommitPart(s) \/ CommitBlob(s)
      PROVE  /\ status'[u] = status[u]
             /\ parts'[u] = parts[u]
             /\ received'[u] = received[u]
  BY <1>2 DEF CommitPart, CommitBlob, Committable, Writable, TypeOK
<1>3. CASE \E s \in Streams : PutObject(s)
  BY <1>3 DEF PutObject
<1>4. CASE \E a \in Aborts : RemoveObject(a) \/ AbortSession(a)
  BY <1>4 DEF RemoveObject, AbortSession, Writable, TypeOK
<1>5. CASE UNCHANGED <<session, status, received, parts, objects, blobs>>
  BY <1>5
<1>6. QED
  BY <1>1, <1>2, <1>3, <1>4, <1>5, OnlyTheseWrite

LEMMA SessionsStep ==
  ASSUME TypeOK, PlacesKnown, OwnerChecked, SessionsCreated, BlobsLast,
         [Next]_vars
  PROVE  SessionsCreated'
<1> USE DEF SessionsCreated, TypeOK
<1>1. ASSUME NEW u \in Uploads, CreateUpload(u) PROVE SessionsCreated'
  BY <1>1, BlobAssumption DEF CreateUpload
<1>2. ASSUME NEW s \in Streams, CommitPart(s) \/ CommitBlob(s)
      PROVE  SessionsCreated'
  BY <1>2 DEF CommitPart, CommitBlob, Committable, Writable
<1>3. CASE \E s \in Streams : PutObject(s)
  BY <1>3 DEF PutObject
<1>4. CASE \E a \in Aborts : RemoveObject(a) \/ AbortSession(a)
  BY <1>4 DEF RemoveObject, AbortSession, Writable
<1>5. CASE UNCHANGED <<session, status, received, parts, objects, blobs>>
  BY <1>5
<1>6. QED
  BY <1>1, <1>2, <1>3, <1>4, <1>5, OnlyTheseWrite

(* An answered call is over.                                               *)
LEMMA DoneStays ==
  ASSUME TypeOK, [Next]_vars, NEW q \in Calls, phase[q] = "done"
  PROVE  /\ phase'[q] = "done"
         /\ outcome'[q] = outcome[q]
         /\ target'[q] = target[q]
         /\ user'[q] = user[q]
         /\ rows'[q] = rows[q]
         /\ q \in Downloads => sent'[q] = sent[q]
<1> DEFINE Same == /\ phase'[q] = "done"
                   /\ outcome'[q] = outcome[q]
                   /\ target'[q] = target[q]
                   /\ user'[q] = user[q]
                   /\ rows'[q] = rows[q]
                   /\ q \in Downloads => sent'[q] = sent[q]
<1> USE DEF TypeOK, Calls, store, calls, Answer, Goto, GotoOrLost, Check
<1>1. ASSUME NEW u \in Uploads, CreateUpload(u) \/ Expire(u)
      PROVE  Same
  BY <1>1 DEF CreateUpload, Expire
<1>2. ASSUME NEW c \in Calls, Refuse(c) \/ Fail(c)
      PROVE  Same
  BY <1>2 DEF Refuse, Fail
<1>3. ASSUME NEW s \in Streams, FirstChunk(s) \/ NextChunk(s)
      PROVE  Same
  BY <1>3 DEF FirstChunk, NextChunk, Receive, ReceiveChunk
<1>4. ASSUME NEW s \in Streams,
             FindForChunk(s) \/ PutObject(s) \/ BeginPart(s) \/ CommitPart(s)
               \/ RollBackPart(s)
      PROVE  Same
  BY <1>4 DEF FindForChunk, PutObject, BeginPart, CommitPart, RollBackPart
<1>5. ASSUME NEW s \in Streams,
             EndOfStream(s) \/ FindForCommit(s) \/ CommitBlob(s)
               \/ RefuseCommit(s)
      PROVE  Same
  BY <1>5 DEF EndOfStream, FindForCommit, CommitBlob, RefuseCommit
<1>6. ASSUME NEW a \in Aborts, Abort(a)
      PROVE  Same
  BY <1>6 DEF Abort, ReceiveAbort, Receive, FindForAbort, ListForAbort,
              RemoveObject, RowDone, AbortSession, NothingToAbort
<1>7. ASSUME NEW d \in Downloads, Download(d)
      PROVE  Same
  BY <1>7 DEF Download, ReceiveDownload, Receive, FindBlob, ListForDownload,
              SendChunk, RowDone, EndDownload
<1>8. CASE UNCHANGED vars
  BY <1>8 DEF vars
<1>9. QED
  BY <1>1, <1>2, <1>3, <1>4, <1>5, <1>6, <1>7, <1>8 DEF Next, Upload

(* Between the owner check and its writes a call keeps its caller and its  *)
(* target, and the row checked stays.                                      *)
LEMMA OwnerCheckedStep ==
  ASSUME TypeOK, PlacesKnown, OwnerChecked, BlobsLast, [Next]_vars
  PROVE  OwnerChecked'
<1> SUFFICES ASSUME NEW q \in Calls PROVE Owned(q)'
  BY DEF OwnerChecked, Calls
<1>a. Owned(q) /\ Place(q) /\ Place(q)'
  BY PlacesStep DEF OwnerChecked, PlacesKnown, Calls
<1>b. /\ \A u \in Uploads : session[u] # None => session'[u] = session[u]
      /\ \A s \in Streams : blobs[s] # None => blobs'[s] = blobs[s]
  BY RowsStay
<1>c. phase' \in [Calls -> Phases]
  BY TypeStep DEF TypeOK, Calls
<1> USE BlobAssumption, <1>a, <1>b
    DEF TypeOK, Owned, Writing, Place, Calls, store, calls, Answer, Goto,
        GotoOrLost, Check
<1>1. ASSUME NEW u \in Uploads, CreateUpload(u) \/ Expire(u)
      PROVE  Owned(q)'
  BY <1>1 DEF CreateUpload, Expire
<1>2. ASSUME NEW c \in Calls, Refuse(c) \/ Fail(c)
      PROVE  Owned(q)'
  BY <1>2 DEF Refuse, Fail
<1>3. ASSUME NEW s \in Streams, FirstChunk(s) \/ NextChunk(s)
      PROVE  Owned(q)'
  <2>1. CASE q = s
    <3>1. phase'[q] = "find"
      BY <1>3, <2>1 DEF FirstChunk, NextChunk, Receive
    <3>2. QED
      BY <2>1, <3>1
  <2>2. CASE q # s
    <3>1. /\ phase'[q] = phase[q]
          /\ target'[q] = target[q]
          /\ user'[q] = user[q]
      BY <1>3, <2>2 DEF FirstChunk, NextChunk, Receive
    <3>2. QED
      BY <3>1
  <2>3. QED
    BY <2>1, <2>2
<1>4. ASSUME NEW s \in Streams, FindForChunk(s)
      PROVE  Owned(q)'
  BY <1>4 DEF FindForChunk, ChunkVerdict, OwnerVerdict
<1>5. ASSUME NEW s \in Streams,
             PutObject(s) \/ BeginPart(s) \/ CommitPart(s) \/ RollBackPart(s)
      PROVE  Owned(q)'
  BY <1>5 DEF PutObject, BeginPart, CommitPart, RollBackPart
<1>6. ASSUME NEW s \in Streams,
             EndOfStream(s) \/ FindForCommit(s) \/ CommitBlob(s)
               \/ RefuseCommit(s)
      PROVE  Owned(q)'
  BY <1>6 DEF EndOfStream, FindForCommit, CommitBlob, RefuseCommit
<1>7. ASSUME NEW a \in Aborts, Abort(a)
      PROVE  Owned(q)'
  BY <1>7 DEF Abort, ReceiveAbort, Receive, FindForAbort, ListForAbort,
              RemoveObject, AbortSession, NothingToAbort, OwnerVerdict
<1>8. ASSUME NEW d \in Downloads, Download(d)
      PROVE  Owned(q)'
  <2>1. CASE FindBlob(d)
    BY <2>1 DEF FindBlob, OwnerVerdict
  <2>2. CASE ReceiveDownload(d)
    BY <2>2 DEF ReceiveDownload, Receive
  <2>3. CASE ListForDownload(d) \/ SendChunk(d) \/ EndDownload(d)
    BY <2>3 DEF ListForDownload, SendChunk, EndDownload
  <2>4. QED
    BY <1>8, <2>1, <2>2, <2>3 DEF Download
<1>9. CASE UNCHANGED vars
  BY <1>9 DEF vars
<1>10. QED
  BY <1>1, <1>2, <1>3, <1>4, <1>5, <1>6, <1>7, <1>8, <1>9 DEF Next, Upload

(* A stream that created its blob has ended.                               *)
LEMMA BlobsLastStep ==
  ASSUME TypeOK, PlacesKnown, OwnerChecked, BlobsLast, [Next]_vars
  PROVE  BlobsLast'
<1> SUFFICES ASSUME NEW q \in Streams, blobs'[q] # None PROVE BlobLast(q)'
  BY DEF BlobsLast, BlobLast
<1>a. BlobLast(q)
  BY DEF BlobsLast
<1>1. ASSUME NEW s \in Streams, CommitBlob(s), blobs[q] = None
      PROVE  BlobLast(q)'
  <2>1. s = q
    BY <1>1 DEF CommitBlob, TypeOK
  <2>2. blobs'[q].upload = target[q] /\ blobs'[q].owner = user[q]
    BY <1>1, <2>1, Committing
  <2>3. QED
    BY <1>1, <2>1, <2>2 DEF CommitBlob, Answer, BlobLast, TypeOK, Calls
<1>2. CASE blobs[q] = None
  <2>1. \E s \in Streams : CommitBlob(s)
    BY <1>2, OnlyTheseWrite
       DEF CreateUpload, PutObject, CommitPart, RemoveObject, AbortSession
  <2>2. QED
    BY <1>1, <1>2, <2>1
<1>3. CASE blobs[q] # None
  <2>1. blobs'[q] = blobs[q]
    BY <1>3, RowsStay
  <2>2. phase[q] = "done"
    BY <1>3, <1>a DEF BlobLast
  <2>3. /\ phase'[q] = "done"
        /\ outcome'[q] = outcome[q]
        /\ target'[q] = target[q]
        /\ user'[q] = user[q]
    BY <2>2, DoneStays DEF Calls
  <2>4. QED
    BY <1>3, <1>a, <2>1, <2>3 DEF BlobLast
<1>4. QED
  BY <1>2, <1>3

----------------------------------------------------------------------------
(* Uploads and their blobs                                                 *)

LEMMA OneBlobStep ==
  ASSUME TypeOK, PlacesKnown, OwnerChecked, BlobsLast, SessionsCreated,
         OneBlobPerUpload, [Next]_vars
  PROVE  OneBlobPerUpload'
<1> DEFINE One(u) == IF status[u] = "committed"
                     THEN \E s \in Streams : BlobsOf(u) = {s}
                     ELSE BlobsOf(u) = {}
<1> SUFFICES ASSUME NEW u \in Uploads PROVE One(u)'
  BY DEF OneBlobPerUpload
<1>a. One(u)
  BY DEF OneBlobPerUpload
<1>1. ASSUME NEW s \in Streams, CommitBlob(s), target[s] = u
      PROVE  One(u)'
  <2>1. blobs'[s] # None /\ blobs'[s].upload = u /\ Writable(u)
    BY <1>1, Committing
  <2>2. BlobsOf(u) = {}
    BY <1>a, <2>1 DEF Writable
  <2>3. \A q \in Streams \ {s} : blobs'[q] = blobs[q]
    BY <1>1 DEF CommitBlob, TypeOK
  <2>4. BlobsOf(u)' = {s}
    BY <2>1, <2>2, <2>3 DEF BlobsOf
  <2>5. status'[u] = "committed"
    BY <1>1 DEF CommitBlob, TypeOK
  <2>6. QED
    BY <2>4, <2>5
<1>2. ASSUME NEW s \in Streams, CommitBlob(s), target[s] # u
      PROVE  One(u)'
  <2>1. blobs'[s].upload # u /\ blobs[s] = None
    BY <1>2, Committing
  <2>2. \A q \in Streams \ {s} : blobs'[q] = blobs[q]
    BY <1>2 DEF CommitBlob, TypeOK
  <2>3. BlobsOf(u)' = BlobsOf(u)
    BY <2>1, <2>2 DEF BlobsOf
  <2>4. status'[u] = status[u]
    BY <1>2 DEF CommitBlob, TypeOK
  <2>5. QED
    BY <1>a, <2>3, <2>4
<1>3. ASSUME blobs' = blobs,
             status'[u] = status[u]
               \/ (status[u] # "committed" /\ status'[u] # "committed")
      PROVE  One(u)'
  BY <1>a, <1>3 DEF BlobsOf
<1>4. CASE \E v \in Uploads : CreateUpload(v)
  BY <1>3, <1>4 DEF CreateUpload, TypeOK, SessionsCreated
<1>5. CASE \E s \in Streams : PutObject(s) \/ CommitPart(s)
  BY <1>3, <1>5 DEF PutObject, CommitPart, Writable, TypeOK
<1>6. CASE \E a \in Aborts : RemoveObject(a) \/ AbortSession(a)
  BY <1>3, <1>6 DEF RemoveObject, AbortSession, Writable, TypeOK
<1>7. CASE UNCHANGED <<session, status, received, parts, objects, blobs>>
  BY <1>3, <1>7
<1>8. QED
  BY <1>1, <1>2, <1>4, <1>5, <1>6, <1>7, OnlyTheseWrite

(* The upload of a blob is committed.                                      *)
LEMMA BlobsUpload ==
  ASSUME TypeOK, OneBlobPerUpload, NEW s \in Streams, blobs[s] # None
  PROVE  blobs[s].upload \in Uploads /\ status[blobs[s].upload] = "committed"
BY DEF TypeOK, BlobRow, OneBlobPerUpload, BlobsOf

LEMMA ManifestStep ==
  ASSUME TypeOK, PlacesKnown, OwnerChecked, BlobsLast, SessionsCreated,
         OneBlobPerUpload, ManifestFrozen, [Next]_vars
  PROVE  ManifestFrozen'
<1> DEFINE Frozen(s) ==
      LET u == blobs[s].upload IN
      /\ blobs[s].count = Cardinality(Present(parts[u]))
      /\ blobs[s].size = Sum(parts[u])
      /\ blobs[s].count = session[u].plan.chunks
      /\ blobs[s].size = session[u].plan.size
      /\ received[u] = blobs[s].count
<1> SUFFICES ASSUME NEW s \in Streams, blobs'[s] # None PROVE Frozen(s)'
  BY DEF ManifestFrozen
<1>1. CASE blobs[s] # None
  <2> DEFINE u == blobs[s].upload
  <2>1. u \in Uploads /\ status[u] = "committed"
    BY <1>1, BlobsUpload
  <2>2. parts'[u] = parts[u] /\ received'[u] = received[u]
    BY <2>1, DecisionsStay
  <2>3. blobs'[s] = blobs[s]
    BY <1>1, RowsStay
  <2>4. session'[u] = session[u]
    BY <2>1, RowsStay DEF SessionsCreated
  <2>5. Frozen(s)
    BY <1>1 DEF ManifestFrozen
  <2>6. blobs'[s].upload = u
    BY <2>3
  <2>7. QED
    BY <2>2, <2>3, <2>4, <2>5, <2>6
<1>2. CASE blobs[s] = None
  <2>1. PICK q \in Streams : CommitBlob(q)
    BY <1>2, OnlyTheseWrite
       DEF CreateUpload, PutObject, CommitPart, RemoveObject, AbortSession
  <2>2. q = s
    BY <1>2, <2>1 DEF CommitBlob, TypeOK
  <2> DEFINE u == target[s]
  <2>3. u \in Uploads /\ CommitBlob(s)
    BY <2>1, <2>2, Committing
  <2>4. /\ blobs'[s].upload = u
        /\ blobs'[s].count = Cardinality(Present(parts[u]))
        /\ blobs'[s].size = Sum(parts[u])
        /\ Cardinality(Present(parts[u])) = session[u].plan.chunks
        /\ Sum(parts[u]) = session[u].plan.size
        /\ received'[u] = Cardinality(Present(parts[u]))
        /\ parts' = parts
        /\ session' = session
    BY <2>3 DEF CommitBlob, Complete, TypeOK
  <2>5. QED
    BY <2>4
<1>3. QED
  BY <1>1, <1>2

----------------------------------------------------------------------------
(* Parts and their objects                                                 *)

(* An abort that got past its owner check is never forgotten.              *)
LEMMA AbortBeganStays ==
  ASSUME TypeOK, PlacesKnown, [Next]_vars, NEW u, AbortBegan(u)
  PROVE  AbortBegan(u)'
<1>1. PICK a \in Aborts :
        /\ target[a] = u
        /\ \/ phase[a] \in {"list", "remove"}
           \/ phase[a] = "done" /\ outcome[a] \notin {"invalid", "denied"}
  BY DEF AbortBegan
<1>2. CASE phase[a] = "done"
  BY <1>1, <1>2, DoneStays DEF AbortBegan, Calls
<1>3. CASE phase[a] \in {"list", "remove"}
  <2> DEFINE Began == /\ target'[a] = u
                      /\ \/ phase'[a] \in {"list", "remove"}
                         \/ /\ phase'[a] = "done"
                            /\ outcome'[a] \notin {"invalid", "denied"}
  <2> SUFFICES Began
    BY DEF AbortBegan
  <2> USE <1>1, <1>3, BlobAssumption
      DEF TypeOK, Calls, store, calls, Answer, Goto, GotoOrLost, Check
  <2>1. ASSUME NEW v \in Uploads, CreateUpload(v) \/ Expire(v) PROVE Began
    BY <2>1 DEF CreateUpload, Expire
  <2>2. ASSUME NEW c \in Calls, Refuse(c) \/ Fail(c) PROVE Began
    BY <2>2 DEF Refuse, Fail
  <2>3. ASSUME NEW s \in Streams, Upload(s) PROVE Began
    <3>1. phase'[a] = phase[a] /\ target'[a] = target[a]
      BY <2>3 DEF Upload, FirstChunk, Receive, NextChunk, FindForChunk,
                  PutObject, BeginPart, CommitPart, RollBackPart, EndOfStream,
                  FindForCommit, CommitBlob, RefuseCommit
    <3>2. QED
      BY <3>1
  <2>4. ASSUME NEW b \in Aborts, Abort(b) PROVE Began
    BY <2>4 DEF Abort, ReceiveAbort, Receive, FindForAbort, ListForAbort,
                RemoveObject, AbortSession, NothingToAbort
  <2>5. ASSUME NEW d \in Downloads, Download(d) PROVE Began
    BY <2>5 DEF Download, ReceiveDownload, Receive, FindBlob,
                ListForDownload, SendChunk, EndDownload
  <2>6. CASE UNCHANGED vars
    BY <2>6 DEF vars
  <2>7. QED
    BY <2>1, <2>2, <2>3, <2>4, <2>5, <2>6 DEF Next
<1>4. QED
  BY <1>1, <1>2, <1>3

(* Only an abort of its upload takes an object away.                       *)
LEMMA ObjectsStay ==
  ASSUME TypeOK, PlacesKnown, [Next]_vars, NEW u \in Uploads, NEW i \in Indexes,
         objects[u][i] # 0, ~ AbortBegan(u)
  PROVE  objects'[u][i] # 0
<1>1. ASSUME NEW s \in Streams, PutObject(s) PROVE objects'[u][i] # 0
  <2>1. chunk[s].data # 0
    BY <1>1 DEF PutObject, PlacesKnown, Place, Calls, TypeOK
  <2>2. QED
    BY <1>1, <2>1 DEF PutObject, TypeOK
<1>2. ASSUME NEW a \in Aborts, RemoveObject(a) PROVE objects'[u][i] # 0
  <2>1. target[a] # u
    BY <1>2 DEF RemoveObject, AbortBegan
  <2>2. QED
    BY <1>2, <2>1 DEF RemoveObject, TypeOK
<1>3. CASE objects' = objects
  BY <1>3
<1>4. QED
  BY <1>1, <1>2, <1>3, OnlyTheseWrite
     DEF CreateUpload, CommitPart, CommitBlob, AbortSession

LEMMA ObjectsFirstStep ==
  ASSUME TypeOK, PlacesKnown, ObjectsFirst, [Next]_vars
  PROVE  ObjectsFirst'
<1> SUFFICES ASSUME NEW q \in Streams, phase'[q] \in {"part", "counting"},
                    NEW u, u = target'[q], NEW i, i = chunk'[q].index
             PROVE  objects'[u][i] # 0 \/ AbortBegan(u)'
  BY DEF ObjectsFirst, ObjectFirst, AbortBegan
<1>1. \/ PutObject(q)
      \/ /\ target'[q] = target[q]
         /\ chunk'[q] = chunk[q]
         /\ phase[q] \in {"part", "counting"}
  <2> DEFINE Same == /\ target'[q] = target[q]
                     /\ chunk'[q] = chunk[q]
                     /\ phase[q] \in {"part", "counting"}
  <2> USE BlobAssumption
      DEF TypeOK, Calls, store, calls, Answer, Goto, GotoOrLost, Check
  <2>1. ASSUME NEW v \in Uploads, CreateUpload(v) \/ Expire(v) PROVE Same
    BY <2>1 DEF CreateUpload, Expire
  <2>2. ASSUME NEW c \in Calls, Refuse(c) \/ Fail(c) PROVE Same
    BY <2>2 DEF Refuse, Fail
  <2>3. ASSUME NEW s \in Streams, Upload(s) PROVE PutObject(q) \/ Same
    BY <2>3 DEF Upload, FirstChunk, Receive, ReceiveChunk, NextChunk,
                FindForChunk, PutObject, BeginPart, CommitPart, RollBackPart,
                EndOfStream, FindForCommit, CommitBlob, RefuseCommit
  <2>4. ASSUME NEW a \in Aborts, Abort(a) PROVE Same
    BY <2>4 DEF Abort, ReceiveAbort, Receive, FindForAbort, ListForAbort,
                RemoveObject, AbortSession, NothingToAbort
  <2>5. ASSUME NEW d \in Downloads, Download(d) PROVE Same
    BY <2>5 DEF Download, ReceiveDownload, Receive, FindBlob,
                ListForDownload, SendChunk, EndDownload
  <2>6. CASE UNCHANGED vars
    BY <2>6 DEF vars
  <2>7. QED
    BY <2>1, <2>2, <2>3, <2>4, <2>5, <2>6 DEF Next
<1>2. CASE PutObject(q)
  <2>1. /\ target[q] \in Uploads
        /\ chunk[q].index \in Indexes
        /\ chunk[q].data # 0
    BY <1>2 DEF PutObject, PlacesKnown, Place, Calls, TypeOK
  <2>2. QED
    BY <1>2, <2>1 DEF PutObject, TypeOK
<1>3. CASE /\ target'[q] = target[q]
           /\ chunk'[q] = chunk[q]
           /\ phase[q] \in {"part", "counting"}
  <2>1. target[q] \in Uploads /\ chunk[q].index \in Indexes
    BY <1>3 DEF PlacesKnown, Place, Calls, TypeOK
  <2>2. CASE AbortBegan(u)
    BY <2>2, AbortBeganStays
  <2>3. CASE ~ AbortBegan(u)
    BY <1>3, <2>1, <2>3, ObjectsStay DEF ObjectsFirst, ObjectFirst
  <2>4. QED
    BY <2>2, <2>3
<1>4. QED
  BY <1>1, <1>2, <1>3

LEMMA PartsHaveObjectsStep ==
  ASSUME TypeOK, PlacesKnown, PartsHaveObjects, ObjectsFirst, [Next]_vars
  PROVE  PartsHaveObjects'
<1> SUFFICES ASSUME NEW u \in Uploads, NEW i \in Indexes,
                    parts'[u][i] # 0, ~ AbortBegan(u)
             PROVE  objects'[u][i] # 0
  BY AbortBeganStays DEF PartsHaveObjects
<1>1. CASE parts[u][i] # 0
  BY <1>1, ObjectsStay DEF PartsHaveObjects
<1>2. CASE parts[u][i] = 0
  <2>1. PICK s \in Streams : CommitPart(s)
    BY <1>2, OnlyTheseWrite
       DEF CreateUpload, PutObject, CommitBlob, RemoveObject, AbortSession
  <2>2. target[s] = u /\ chunk[s].index = i /\ objects' = objects
    BY <1>2, <2>1 DEF CommitPart, TypeOK, PlacesKnown, Place, Calls
  <2>3. QED
    BY <2>1, <2>2 DEF CommitPart, ObjectsFirst, ObjectFirst
<1>3. QED
  BY <1>1, <1>2

----------------------------------------------------------------------------
(* Downloads                                                               *)

(* A blob and the parts of its upload stay as they are.                    *)
LEMMA BlobStays ==
  ASSUME TypeOK, PlacesKnown, OwnerChecked, SessionsCreated, BlobsLast,
         OneBlobPerUpload, [Next]_vars, NEW s \in Streams, blobs[s] # None
  PROVE  /\ blobs'[s] = blobs[s]
         /\ blobs[s].upload \in Uploads
         /\ parts'[blobs[s].upload] = parts[blobs[s].upload]
BY BlobsUpload, RowsStay, DecisionsStay

(* A download moves by its own steps only.                                 *)
LEMMA DownloadMoves ==
  ASSUME TypeOK, [Next]_vars, NEW d \in Downloads
  PROVE  \/ Download(d) \/ Refuse(d) \/ Fail(d)
         \/ /\ phase'[d] = phase[d]
            /\ user'[d] = user[d]
            /\ target'[d] = target[d]
            /\ rows'[d] = rows[d]
            /\ sent'[d] = sent[d]
            /\ outcome'[d] = outcome[d]
<1> DEFINE Same == /\ phase'[d] = phase[d]
                   /\ user'[d] = user[d]
                   /\ target'[d] = target[d]
                   /\ rows'[d] = rows[d]
                   /\ sent'[d] = sent[d]
                   /\ outcome'[d] = outcome[d]
<1> USE BlobAssumption
    DEF TypeOK, Calls, store, calls, Answer, Goto, GotoOrLost, Check
<1>1. ASSUME NEW v \in Uploads, CreateUpload(v) \/ Expire(v) PROVE Same
  BY <1>1 DEF CreateUpload, Expire
<1>2. ASSUME NEW c \in Calls, Refuse(c) \/ Fail(c), c # d PROVE Same
  BY <1>2 DEF Refuse, Fail
<1>3. ASSUME NEW s \in Streams, FirstChunk(s) \/ NextChunk(s) PROVE Same
  BY <1>3 DEF FirstChunk, NextChunk, Receive, ReceiveChunk
<1>4. ASSUME NEW s \in Streams,
             FindForChunk(s) \/ PutObject(s) \/ BeginPart(s) \/ CommitPart(s)
               \/ RollBackPart(s)
      PROVE  Same
  BY <1>4 DEF FindForChunk, PutObject, BeginPart, CommitPart, RollBackPart
<1>5. ASSUME NEW s \in Streams,
             EndOfStream(s) \/ FindForCommit(s) \/ CommitBlob(s)
               \/ RefuseCommit(s)
      PROVE  Same
  BY <1>5 DEF EndOfStream, FindForCommit, CommitBlob, RefuseCommit
<1>6. ASSUME NEW a \in Aborts, Abort(a) PROVE Same
  BY <1>6 DEF Abort, ReceiveAbort, Receive, FindForAbort, ListForAbort,
              RemoveObject, RowDone, AbortSession, NothingToAbort
<1>7. ASSUME NEW e \in Downloads, Download(e), e # d PROVE Same
  BY <1>7 DEF Download, ReceiveDownload, Receive, FindBlob, ListForDownload,
              SendChunk, RowDone, EndDownload
<1>8. CASE UNCHANGED vars
  BY <1>8 DEF vars
<1>9. QED
  BY <1>1, <1>2, <1>3, <1>4, <1>5, <1>6, <1>7, <1>8 DEF Next, Upload

LEMMA ProgressStep ==
  ASSUME TypeOK, PlacesKnown, OutcomesLast, OwnerChecked, SessionsCreated,
         BlobsLast, OneBlobPerUpload, DownloadsProgress, [Next]_vars
  PROVE  DownloadsProgress'
<1> SUFFICES ASSUME NEW d \in Downloads PROVE Progress(d)'
  BY DEF DownloadsProgress
<1>a. Progress(d) /\ Place(d) /\ Owned(d) /\ d \in Calls
  BY DEF DownloadsProgress, PlacesKnown, OwnerChecked, Calls
<1>b. target[d] \in Streams /\ blobs[target[d]] # None =>
        /\ blobs'[target[d]] = blobs[target[d]]
        /\ blobs[target[d]].upload \in Uploads
        /\ parts'[blobs[target[d]].upload] = parts[blobs[target[d]].upload]
  BY BlobStays
<1>c. /\ phase[d] # "done" => outcome[d] = "none"
      /\ phase[d] \notin {"idle", "done"} => target[d] \in Streams
      /\ phase[d] \in {"list", "send"} =>
           blobs[target[d]] # None /\ blobs[target[d]].owner = user[d]
  BY <1>a DEF OutcomesLast, Place, Owned, Writing
<1>1. CASE ReceiveDownload(d) \/ FindBlob(d)
  BY <1>1, <1>a, <1>c
     DEF ReceiveDownload, Receive, FindBlob, Check, OwnerVerdict, Goto, Answer,
         Progress, TypeOK
<1>2. CASE ListForDownload(d)
  <2>1. /\ phase'[d] = "send"
        /\ outcome'[d] = "none"
        /\ sent'[d] = NoChunks
        /\ rows'[d] = parts[blobs[target[d]].upload]
        /\ target'[d] = target[d]
        /\ user'[d] = user[d]
    BY <1>2, <1>a, <1>c DEF ListForDownload, Goto, TypeOK, Progress
  <2>2. phase[d] = "list"
    BY <1>2 DEF ListForDownload
  <2>3. QED
    BY <2>1, <2>2, <1>a, <1>b, <1>c DEF Progress, NoChunks
<1>3. CASE SendChunk(d)
  <2>1. PICK i \in Indexes :
          /\ rows' = [rows EXCEPT ![d] = [@ EXCEPT ![i] = 0]]
          /\ objects[blobs[target[d]].upload][i] # 0
          /\ sent' = [sent EXCEPT ![d] =
               [@ EXCEPT ![i] = objects[blobs[target[d]].upload][i]]]
          /\ rows[d][i] # 0
    BY <1>3 DEF SendChunk, RowDone, NextRow
  <2>2. /\ phase[d] = "send"
        /\ phase'[d] = "send"
        /\ outcome'[d] = "none"
        /\ target'[d] = target[d]
        /\ user'[d] = user[d]
    BY <1>3, <1>c DEF SendChunk
  <2>3. \A j \in Indexes : rows'[d][j] # 0 \/ sent'[d][j] # 0
                             <=> rows[d][j] # 0 \/ sent[d][j] # 0
    BY <2>1, <1>a DEF TypeOK
  <2>4. QED
    BY <2>2, <2>3, <1>a, <1>b, <1>c DEF Progress
<1>4. CASE EndDownload(d)
  <2>1. /\ phase[d] = "send"
        /\ phase'[d] = "done"
        /\ rows'[d] = NoChunks /\ rows[d] = NoChunks
        /\ UNCHANGED <<sent, target, user>>
    BY <1>4, <1>a DEF EndDownload, Answer, TypeOK
  <2>2. QED
    BY <2>1, <1>a, <1>b, <1>c DEF Progress
<1>5. CASE Refuse(d) \/ Fail(d)
  BY <1>5, <1>a, <1>c DEF Refuse, Fail, Answer, Progress, TypeOK
<1>6. CASE /\ phase'[d] = phase[d]
           /\ user'[d] = user[d]
           /\ target'[d] = target[d]
           /\ rows'[d] = rows[d]
           /\ sent'[d] = sent[d]
           /\ outcome'[d] = outcome[d]
  BY <1>6, <1>a, <1>b DEF Progress
<1>7. QED
  BY <1>1, <1>2, <1>3, <1>4, <1>5, <1>6, DownloadMoves DEF Download

----------------------------------------------------------------------------
(* Answers                                                                 *)

(* Of the answers of streams and aborts, only these two are "ok".          *)
LEMMA OnlyTheseSucceed ==
  ASSUME TypeOK, [Next]_vars, NEW q \in Streams \cup Aborts,
         outcome'[q] = "ok", outcome[q] # "ok"
  PROVE  \/ q \in Streams /\ CommitBlob(q)
         \/ q \in Aborts /\ AbortSession(q)
<1> USE BlobAssumption
    DEF TypeOK, Calls, store, calls, Answer, Goto, GotoOrLost, Check
<1>1. ASSUME NEW v \in Uploads, CreateUpload(v) \/ Expire(v) PROVE FALSE
  BY <1>1 DEF CreateUpload, Expire
<1>2. ASSUME NEW c \in Calls, Refuse(c) \/ Fail(c) PROVE FALSE
  BY <1>2 DEF Refuse, Fail
<1>3. ASSUME NEW s \in Streams, FirstChunk(s) \/ NextChunk(s) PROVE FALSE
  BY <1>3 DEF FirstChunk, NextChunk, Receive, ReceiveChunk
<1>4. ASSUME NEW s \in Streams, FindForChunk(s) \/ FindForCommit(s)
      PROVE  FALSE
  BY <1>4 DEF FindForChunk, ChunkVerdict, FindForCommit, CommitVerdict,
              OwnerVerdict
<1>5. ASSUME NEW s \in Streams,
             PutObject(s) \/ BeginPart(s) \/ CommitPart(s) \/ RollBackPart(s)
               \/ EndOfStream(s) \/ RefuseCommit(s)
      PROVE  FALSE
  BY <1>5 DEF PutObject, BeginPart, CommitPart, RollBackPart, EndOfStream,
              RefuseCommit
<1>6. ASSUME NEW s \in Streams, CommitBlob(s) PROVE s = q
  BY <1>6 DEF CommitBlob
<1>7. ASSUME NEW a \in Aborts, Abort(a) PROVE a = q /\ AbortSession(a)
  BY <1>7 DEF Abort, ReceiveAbort, Receive, FindForAbort, OwnerVerdict,
              ListForAbort, RemoveObject, AbortSession, NothingToAbort
<1>8. ASSUME NEW d \in Downloads, Download(d) PROVE FALSE
  BY <1>8 DEF Download, ReceiveDownload, Receive, FindBlob, ListForDownload,
              SendChunk, EndDownload
<1>9. CASE UNCHANGED vars
  BY <1>9 DEF vars
<1>10. QED
  BY <1>1, <1>2, <1>3, <1>4, <1>5, <1>6, <1>7, <1>8, <1>9 DEF Next, Upload

LEMMA AnswersStep ==
  ASSUME TypeOK, BlobInv, [Next]_vars, TypeOK', BlobsLast',
         DownloadsProgress', ManifestFrozen'
  PROVE  AnswerMatchesEffect'
<1> USE DEF BlobInv
<1>1. ASSUME NEW s \in Streams, outcome'[s] = "ok"
      PROVE  /\ blobs'[s] # None
             /\ blobs'[s].owner = user'[s]
             /\ blobs'[s].upload = target'[s]
  <2>1. CASE outcome[s] = "ok"
    <3>1. phase[s] = "done"
      BY <2>1 DEF OutcomesLast, Calls
    <3>2. QED
      BY <2>1, <3>1, DoneStays, RowsStay DEF AnswerMatchesEffect, Calls
  <2>2. CASE outcome[s] # "ok"
    <3>1. CommitBlob(s)
      BY <1>1, <2>2, OnlyTheseSucceed, BlobAssumption
    <3>2. QED
      BY <3>1, Committing DEF CommitBlob
  <2>3. QED
    BY <2>1, <2>2
<1>2. ASSUME NEW s \in Streams, outcome'[s] \notin {"ok", "internal"}
      PROVE  blobs'[s] = None
  BY <1>2 DEF BlobsLast, BlobLast
<1>3. ASSUME NEW a \in Aborts, outcome'[a] = "ok"
      PROVE  status'[target'[a]] = "aborted"
  <2>1. CASE outcome[a] = "ok"
    <3>1. phase[a] = "done" /\ target[a] \in Uploads
      BY <2>1 DEF OutcomesLast, PlacesKnown, Place, Calls
    <3>2. status[target[a]] = "aborted"
      BY <2>1 DEF AnswerMatchesEffect
    <3>3. QED
      BY <3>1, <3>2, DoneStays, DecisionsStay DEF Calls
  <2>2. CASE outcome[a] # "ok"
    <3>1. AbortSession(a)
      BY <1>3, <2>2, OnlyTheseSucceed, BlobAssumption
    <3>2. target[a] \in Uploads
      BY <3>1 DEF AbortSession, PlacesKnown, Place, Calls
    <3>3. QED
      BY <3>1, <3>2 DEF AbortSession, TypeOK
  <2>3. QED
    BY <2>1, <2>2
<1>4. ASSUME NEW d \in Downloads, outcome'[d] = "ok"
      PROVE  LET b == blobs'[target'[d]] IN
             /\ b # None
             /\ b.owner = user'[d]
             /\ Cardinality(Present(sent'[d])) = b.count
             /\ Present(sent'[d]) = Present(parts'[b.upload])
  <2> DEFINE b == blobs'[target'[d]]
  <2>1. /\ target'[d] \in Streams
        /\ b # None
        /\ b.owner = user'[d]
        /\ rows'[d] = NoChunks
        /\ \A i \in Indexes :
             parts'[b.upload][i] # 0 <=> rows'[d][i] # 0 \/ sent'[d][i] # 0
    BY <1>4 DEF DownloadsProgress, Progress
  <2>2. Present(sent'[d]) = Present(parts'[b.upload])
    BY <2>1 DEF Present, NoChunks
  <2>3. b.count = Cardinality(Present(parts'[b.upload]))
    BY <2>1 DEF ManifestFrozen
  <2>4. QED
    BY <2>1, <2>2, <2>3
<1>5. QED
  BY <1>1, <1>2, <1>3, <1>4 DEF AnswerMatchesEffect

----------------------------------------------------------------------------
(* Who writes                                                              *)

LEMMA OwnerStep ==
  ASSUME TypeOK, PlacesKnown, OwnerChecked, [Next]_vars, NEW u \in Uploads
  PROVE  \/ <<status[u], parts[u], objects[u]>>' =
              <<status[u], parts[u], objects[u]>>
         \/ session[u] = None
         \/ \E c \in Streams \cup Aborts :
              /\ target[c] = u
              /\ user[c] = session[u].owner
              /\ <<phase[c], rows[c]>>' # <<phase[c], rows[c]>>
<1> DEFINE Same == <<status[u], parts[u], objects[u]>>' =
                     <<status[u], parts[u], objects[u]>>
           Writer(c) == /\ target[c] = u
                        /\ user[c] = session[u].owner
                        /\ <<phase[c], rows[c]>>' # <<phase[c], rows[c]>>
<1>1. CASE \E v \in Uploads : CreateUpload(v)
  BY <1>1 DEF CreateUpload, TypeOK
<1>2. ASSUME NEW s \in Streams, PutObject(s) \/ CommitPart(s) \/ CommitBlob(s)
      PROVE  Same \/ Writer(s)
  <2>1. Owned(s) /\ s \in Calls
    BY DEF OwnerChecked, Calls
  <2>2. CASE target[s] = u
    <3>1. user[s] = session[u].owner
      BY <1>2, <2>1, <2>2 DEF Owned, Writing, PutObject, CommitPart, CommitBlob
    <3>2. phase'[s] # phase[s]
      BY <1>2, <2>1
         DEF PutObject, CommitPart, CommitBlob, GotoOrLost, Goto, Answer,
             TypeOK
    <3>3. QED
      BY <2>2, <3>1, <3>2
  <2>3. CASE target[s] # u
    BY <1>2, <2>3 DEF PutObject, CommitPart, CommitBlob, TypeOK
  <2>4. QED
    BY <2>2, <2>3
<1>3. ASSUME NEW a \in Aborts, RemoveObject(a) \/ AbortSession(a)
      PROVE  Same \/ Writer(a)
  <2>1. Owned(a) /\ a \in Calls
    BY DEF OwnerChecked, Calls
  <2>2. CASE target[a] = u
    <3>1. user[a] = session[u].owner
      BY <1>3, <2>1, <2>2 DEF Owned, Writing, RemoveObject, AbortSession
    <3>2. CASE AbortSession(a)
      BY <2>1, <2>2, <3>1, <3>2 DEF AbortSession, Answer, TypeOK
    <3>3. CASE RemoveObject(a)
      <4>1. PICK i \in Indexes : rows[a][i] # 0 /\ rows'[a][i] = 0
        BY <2>1, <3>3 DEF RemoveObject, NextRow, RowDone, TypeOK
      <4>2. QED
        BY <2>2, <3>1, <4>1
    <3>4. QED
      BY <1>3, <3>2, <3>3
  <2>3. CASE target[a] # u
    BY <1>3, <2>3 DEF RemoveObject, AbortSession, TypeOK
  <2>4. QED
    BY <2>2, <2>3
<1>4. CASE UNCHANGED <<session, status, received, parts, objects, blobs>>
  BY <1>4
<1>5. QED
  BY <1>1, <1>2, <1>3, <1>4, OnlyTheseWrite

----------------------------------------------------------------------------
(* A stream that writes alone                                              *)

(* A stream moves by its own steps only, and keeps the upload it named.    *)
LEMMA StreamMoves ==
  ASSUME TypeOK, [Next]_vars, NEW s \in Streams
  PROVE  \/ Upload(s) \/ Refuse(s) \/ Fail(s)
         \/ /\ phase'[s] = phase[s]
            /\ target'[s] = target[s]
            /\ chunk'[s] = chunk[s]
<1> DEFINE Same == /\ phase'[s] = phase[s]
                   /\ target'[s] = target[s]
                   /\ chunk'[s] = chunk[s]
<1> USE BlobAssumption
    DEF TypeOK, Calls, store, calls, Answer, Goto, GotoOrLost, Check
<1>1. ASSUME NEW v \in Uploads, CreateUpload(v) \/ Expire(v) PROVE Same
  BY <1>1 DEF CreateUpload, Expire
<1>2. ASSUME NEW c \in Calls, Refuse(c) \/ Fail(c), c # s PROVE Same
  BY <1>2 DEF Refuse, Fail
<1>3. ASSUME NEW q \in Streams, FirstChunk(q) \/ NextChunk(q), q # s
      PROVE  Same
  BY <1>3 DEF FirstChunk, NextChunk, Receive, ReceiveChunk
<1>4. ASSUME NEW q \in Streams, q # s,
             FindForChunk(q) \/ PutObject(q) \/ BeginPart(q) \/ CommitPart(q)
               \/ RollBackPart(q)
      PROVE  Same
  BY <1>4 DEF FindForChunk, PutObject, BeginPart, CommitPart, RollBackPart
<1>5. ASSUME NEW q \in Streams, q # s,
             EndOfStream(q) \/ FindForCommit(q) \/ CommitBlob(q)
               \/ RefuseCommit(q)
      PROVE  Same
  BY <1>5 DEF EndOfStream, FindForCommit, CommitBlob, RefuseCommit
<1>6. ASSUME NEW a \in Aborts, Abort(a) PROVE Same
  BY <1>6 DEF Abort, ReceiveAbort, Receive, FindForAbort, ListForAbort,
              RemoveObject, AbortSession, NothingToAbort
<1>7. ASSUME NEW d \in Downloads, Download(d) PROVE Same
  BY <1>7 DEF Download, ReceiveDownload, Receive, FindBlob, ListForDownload,
              SendChunk, EndDownload
<1>8. CASE UNCHANGED vars
  BY <1>8 DEF vars
<1>9. QED
  BY <1>1, <1>2, <1>3, <1>4, <1>5, <1>6, <1>7, <1>8 DEF Next, Upload

LEMMA TargetsStay ==
  ASSUME TypeOK, PlacesKnown, [Next]_vars, NEW s \in Streams,
         NEW u \in Uploads, target[s] = u, IdleStreams
  PROVE  target'[s] = u
<1>0. phase[s] # "idle"
  BY BlobAssumption DEF IdleStreams
<1>1. CASE Upload(s)
  BY <1>0, <1>1
     DEF Upload, FirstChunk, Receive, NextChunk, FindForChunk, PutObject,
         BeginPart, CommitPart, RollBackPart, EndOfStream, FindForCommit,
         CommitBlob, RefuseCommit
<1>2. CASE Refuse(s) \/ Fail(s)
  BY <1>2 DEF Refuse, Fail
<1>3. QED
  BY <1>1, <1>2, StreamMoves

LEMMA IdleStep ==
  ASSUME TypeOK, [Next]_vars, IdleStreams
  PROVE  IdleStreams'
<1> SUFFICES ASSUME NEW s \in Streams, phase'[s] = "idle"
             PROVE  target'[s] = None
  BY DEF IdleStreams
<1> USE BlobAssumption
    DEF TypeOK, Calls, store, calls, Answer, Goto, GotoOrLost, Check
<1>1. CASE Upload(s)
  BY <1>1 DEF Upload, FirstChunk, Receive, NextChunk, FindForChunk, PutObject,
              BeginPart, CommitPart, RollBackPart, EndOfStream, FindForCommit,
              CommitBlob, RefuseCommit, ChunkVerdict, CommitVerdict,
              OwnerVerdict
<1>2. CASE Refuse(s) \/ Fail(s)
  BY <1>2 DEF Refuse, Fail
<1>3. QED
  BY <1>1, <1>2, StreamMoves DEF IdleStreams

(* What an upload holds changes only by the hand of its streams, unless an *)
(* abort has begun.                                                        *)
LEMMA SoleWrites ==
  ASSUME TypeOK, PlacesKnown, [Next]_vars, NEW u \in Uploads,
         NEW s \in Streams, StreamsOn(u) \subseteq {s}, ~ AbortBegan(u)
  PROVE  \/ objects'[u] = objects[u] /\ parts'[u] = parts[u]
         \/ target[s] = u /\ (PutObject(s) \/ CommitPart(s))
<1>1. ASSUME NEW q \in Streams, PutObject(q) \/ CommitPart(q)
      PROVE  \/ objects'[u] = objects[u] /\ parts'[u] = parts[u]
             \/ q = s /\ target[s] = u
  <2>1. CASE target[q] = u
    BY <2>1 DEF StreamsOn
  <2>2. CASE target[q] # u
    BY <1>1, <2>2 DEF PutObject, CommitPart, TypeOK
  <2>3. QED
    BY <2>1, <2>2
<1>2. ASSUME NEW a \in Aborts, RemoveObject(a)
      PROVE  objects'[u] = objects[u] /\ parts'[u] = parts[u]
  <2>1. target[a] # u
    BY <1>2 DEF RemoveObject, AbortBegan
  <2>2. QED
    BY <1>2, <2>1 DEF RemoveObject, TypeOK
<1>3. CASE objects' = objects /\ parts' = parts
  BY <1>3
<1>4. QED
  BY <1>1, <1>2, <1>3, OnlyTheseWrite
     DEF CreateUpload, CommitBlob, AbortSession

(* What a step of the stream itself does to what it is declaring.          *)
LEMMA SoleStreamStep ==
  ASSUME TypeOK, PlacesKnown, BlobsLast, IdleStreams, [Next]_vars,
         NEW u \in Uploads, NEW s \in Streams, target'[s] = u,
         ~ GaveUp(s, u)', Upload(s), ~ CommitPart(s), ~ PutObject(s),
         NEW i \in Indexes
  PROVE  /\ objects' = objects /\ parts' = parts
         /\ Declaring(s, u, i)' = Declaring(s, u, i)
         /\ Declaring(s, u, i) => chunk'[s] = chunk[s]
<1> USE BlobAssumption
    DEF TypeOK, Calls, store, calls, Answer, Goto, GotoOrLost, Check
<1>1. objects' = objects /\ parts' = parts
  BY DEF Upload, FirstChunk, Receive, NextChunk, FindForChunk, BeginPart,
         RollBackPart, EndOfStream, FindForCommit, CommitBlob, RefuseCommit
<1>2. CASE FirstChunk(s) \/ NextChunk(s)
  <2>1. phase[s] \in {"idle", "recv"} /\ phase'[s] = "find"
    BY <1>2 DEF FirstChunk, Receive, NextChunk
  <2>2. QED
    BY <1>1, <2>1 DEF Declaring
<1>3. CASE BeginPart(s)
  BY <1>3 DEF BeginPart, Declaring
<1>4. CASE \/ FindForChunk(s) \/ EndOfStream(s) \/ FindForCommit(s)
           \/ CommitBlob(s) \/ RefuseCommit(s)
  <2>1. /\ phase[s] \notin {"part", "counting"}
        /\ phase'[s] \notin {"part", "counting"}
    BY <1>4 DEF FindForChunk, EndOfStream, FindForCommit, CommitBlob,
                RefuseCommit
  <2>2. QED
    BY <1>1, <2>1 DEF Declaring
<1>5. ~ RollBackPart(s)
  <2> SUFFICES ASSUME RollBackPart(s) PROVE FALSE
    OBVIOUS
  <2>1. phase[s] = "counting" /\ phase'[s] = "done" /\ blobs' = blobs
    BY DEF RollBackPart
  <2>2. blobs[s] = None
    BY <2>1 DEF BlobsLast, BlobLast
  <2>3. QED
    BY <2>1, <2>2 DEF GaveUp
<1>6. QED
  BY <1>1, <1>2, <1>3, <1>4, <1>5 DEF Upload

LEMMA SoleWritersStep ==
  ASSUME TypeOK, PlacesKnown, BlobsLast, IdleStreams, SoleWriters, [Next]_vars
  PROVE  SoleWriters'
<1> SUFFICES ASSUME NEW u \in Uploads, NEW s \in Streams,
                    StreamsOn(u)' \subseteq {s}, ~ AbortBegan(u)',
                    ~ GaveUp(s, u)', NEW i \in Indexes
             PROVE  objects'[u][i] = IF Declaring(s, u, i)' THEN chunk'[s].data
                                     ELSE parts'[u][i]
  BY DEF SoleWriters
<1>1. StreamsOn(u) \subseteq {s}
  BY TargetsStay DEF StreamsOn
<1>2. ~ AbortBegan(u)
  BY AbortBeganStays
<1>3. ~ GaveUp(s, u)
  <2> SUFFICES ASSUME GaveUp(s, u) PROVE FALSE
    OBVIOUS
  <2>1. phase'[s] = "done" /\ target'[s] = u
    BY DoneStays DEF GaveUp, Calls
  <2>2. ~ \E q \in Streams : CommitBlob(q) /\ q = s
    BY DEF CommitBlob, GaveUp
  <2>3. blobs'[s] = blobs[s]
    BY <2>2, OnlyTheseWrite
       DEF CreateUpload, PutObject, CommitPart, CommitBlob, RemoveObject,
           AbortSession, TypeOK
  <2>4. QED
    BY <2>1, <2>3 DEF GaveUp
<1>4. objects[u][i] = IF Declaring(s, u, i) THEN chunk[s].data ELSE parts[u][i]
  BY <1>1, <1>2, <1>3 DEF SoleWriters
<1>5. CASE target[s] = u /\ PutObject(s)
  <2>1. /\ phase[s] = "put" /\ chunk' = chunk /\ target' = target
        /\ blobs' = blobs /\ parts' = parts
        /\ chunk[s].index \in Indexes /\ s \in Calls
    BY <1>5 DEF PutObject, PlacesKnown, Place, Calls, TypeOK
  <2>2. blobs[s] = None
    BY <2>1 DEF BlobsLast, BlobLast
  <2>3. phase'[s] = "part"
    BY <1>5, <2>1, <2>2 DEF PutObject, GotoOrLost, Goto, Answer, GaveUp, TypeOK
  <2>4. Declaring(s, u, i)' <=> chunk[s].index = i
    BY <1>5, <2>1, <2>3 DEF Declaring
  <2>5. ~ Declaring(s, u, i)
    BY <2>1 DEF Declaring
  <2>6. objects'[u][i] = IF chunk[s].index = i THEN chunk[s].data
                         ELSE objects[u][i]
    BY <1>5, <2>1 DEF PutObject, TypeOK
  <2>7. QED
    BY <1>4, <2>1, <2>4, <2>5, <2>6
<1>6. CASE target[s] = u /\ CommitPart(s)
  <2>1. /\ phase[s] = "counting" /\ objects' = objects
        /\ chunk[s].index \in Indexes /\ s \in Calls
    BY <1>6 DEF CommitPart, PlacesKnown, Place, Calls, TypeOK
  <2>2. phase'[s] \in {"recv", "done"}
    BY <1>6, <2>1 DEF CommitPart, GotoOrLost, Goto, Answer, TypeOK
  <2>3. ~ Declaring(s, u, i)' /\ (Declaring(s, u, i) <=> chunk[s].index = i)
    BY <1>6, <2>1, <2>2 DEF Declaring
  <2>4. parts'[u][i] = IF chunk[s].index = i THEN chunk[s].data
                       ELSE parts[u][i]
    BY <1>6, <2>1 DEF CommitPart, TypeOK
  <2>5. QED
    BY <1>4, <2>1, <2>3, <2>4
<1>7. CASE /\ ~ (target[s] = u /\ (PutObject(s) \/ CommitPart(s)))
           /\ objects'[u] = objects[u] /\ parts'[u] = parts[u]
  <2>1. ASSUME target'[s] # u
        PROVE  ~ Declaring(s, u, i)' /\ ~ Declaring(s, u, i)
    BY <2>1, TargetsStay DEF Declaring
  <2>2. ASSUME target'[s] = u, Upload(s)
        PROVE  /\ Declaring(s, u, i)' = Declaring(s, u, i)
               /\ Declaring(s, u, i) => chunk'[s] = chunk[s]
    <3>1. ~ PutObject(s) /\ ~ CommitPart(s)
      BY <1>7, <2>2 DEF PutObject, CommitPart
    <3>2. QED
      BY <2>2, <3>1, SoleStreamStep
  <2>3. ASSUME target'[s] = u, Refuse(s) \/ Fail(s)
        PROVE  FALSE
    <3>1. /\ phase[s] # "done" /\ phase'[s] = "done" /\ blobs' = blobs
      BY <2>3 DEF Refuse, Fail, Answer, store, TypeOK, Calls
    <3>2. blobs[s] = None
      BY <3>1 DEF BlobsLast, BlobLast
    <3>3. QED
      BY <2>3, <3>1, <3>2 DEF GaveUp
  <2>4. ASSUME phase'[s] = phase[s], target'[s] = target[s],
               chunk'[s] = chunk[s]
        PROVE  Declaring(s, u, i)' = Declaring(s, u, i)
    BY <2>4 DEF Declaring
  <2>5. QED
    BY <1>4, <1>7, <2>1, <2>2, <2>3, <2>4, StreamMoves
<1>8. QED
  BY <1>1, <1>2, <1>5, <1>6, <1>7, SoleWrites

----------------------------------------------------------------------------
(* The invariant and the theorems                                          *)

LEMMA InvInit == Init => BlobInv
<1> SUFFICES ASSUME Init PROVE BlobInv
  OBVIOUS
<1> USE BlobAssumption DEF Init, Calls, NoChunks
<1>1. PlacesKnown /\ OutcomesLast /\ OwnerChecked
  BY DEF PlacesKnown, Place, OutcomesLast, OwnerChecked, Owned, Writing
<1>2. SessionsCreated /\ BlobsLast /\ ManifestFrozen
  BY DEF SessionsCreated, BlobsLast, BlobLast, ManifestFrozen
<1>3. OneBlobPerUpload
  BY DEF OneBlobPerUpload, BlobsOf
<1>4. PartsHaveObjects /\ ObjectsFirst
  BY DEF PartsHaveObjects, ObjectsFirst, ObjectFirst
<1>5. DownloadsProgress /\ AnswerMatchesEffect
  BY DEF DownloadsProgress, Progress, AnswerMatchesEffect
<1>6. QED
  BY <1>1, <1>2, <1>3, <1>4, <1>5 DEF BlobInv

LEMMA InvStep == TypeOK /\ BlobInv /\ [Next]_vars => TypeOK' /\ BlobInv'
<1> SUFFICES ASSUME TypeOK, BlobInv, [Next]_vars PROVE TypeOK' /\ BlobInv'
  OBVIOUS
<1>1. /\ PlacesKnown /\ OutcomesLast /\ OwnerChecked /\ SessionsCreated
      /\ BlobsLast /\ OneBlobPerUpload /\ ManifestFrozen /\ PartsHaveObjects
      /\ ObjectsFirst /\ DownloadsProgress
  BY DEF BlobInv
<1>2. TypeOK' /\ PlacesKnown' /\ OutcomesLast'
  BY <1>1, TypeStep, PlacesStep, OutcomesStep
<1>3. OwnerChecked' /\ SessionsCreated' /\ BlobsLast'
  BY <1>1, OwnerCheckedStep, SessionsStep, BlobsLastStep
<1>4. OneBlobPerUpload' /\ ManifestFrozen'
  BY <1>1, OneBlobStep, ManifestStep
<1>5. PartsHaveObjects' /\ ObjectsFirst' /\ DownloadsProgress'
  BY <1>1, PartsHaveObjectsStep, ObjectsFirstStep, ProgressStep
<1>6. AnswerMatchesEffect'
  BY <1>2, <1>3, <1>4, <1>5, AnswersStep
<1>7. QED
  BY <1>2, <1>3, <1>4, <1>5, <1>6 DEF BlobInv

(* The invariant holds in every reachable state.                           *)
THEOREM BlobInvariant == Spec => [](TypeOK /\ BlobInv)
<1>1. Init => TypeOK /\ BlobInv
  BY TypeInit, InvInit
<1>2. QED
  BY <1>1, InvStep, PTL DEF Spec

(* Every variable keeps its type: above all, a session's status is one of  *)
(* the four the code writes ('expired' is none of them).                   *)
THEOREM BlobTypeCorrect == Spec => []TypeOK
BY BlobInvariant, PTL

(* However streams and aborts race, an upload is committed exactly when    *)
(* one blob was made of it (CommitUpload under FOR UPDATE).                *)
THEOREM UploadEndsOneWay == Spec => []OneBlobPerUpload
<1>1. BlobInv => OneBlobPerUpload
  BY DEF BlobInv
<1>2. QED
  BY <1>1, BlobInvariant, PTL

(* The parts of a committed upload stay those its blob was made of, and as *)
(* many and as large as its client declared (CommitUpload, AddUploadPart). *)
THEOREM ManifestIsFrozen == Spec => []ManifestFrozen
<1>1. BlobInv => ManifestFrozen
  BY DEF BlobInv
<1>2. QED
  BY <1>1, BlobInvariant, PTL

(* A part without an object means that the owner asked to abort the upload *)
(* (UploadChunk stores the object before it adds the part).                *)
THEOREM AcceptedPartHasObject == Spec => []PartsHaveObjects
<1>1. BlobInv => PartsHaveObjects
  BY DEF BlobInv
<1>2. QED
  BY <1>1, BlobInvariant, PTL

(* An answer other than "internal" is true: see AnswerMatchesEffect.       *)
THEOREM BlobAnswersAreTrue == Spec => []AnswerMatchesEffect
<1>1. BlobInv => AnswerMatchesEffect
  BY DEF BlobInv
<1>2. QED
  BY <1>1, BlobInvariant, PTL

(* Committed and aborted are final, with the parts, the count and the blob *)
(* they were decided with, whatever step any call takes.                   *)
THEOREM DecisionsAreFinal == Spec => DecisionIsFinal
<1> DEFINE Final ==
      /\ \A u \in Uploads : status[u] \in {"committed", "aborted"} =>
           status'[u] = status[u] /\ parts'[u] = parts[u]
              /\ received'[u] = received[u]
      /\ \A s \in Streams : blobs[s] # None => blobs'[s] = blobs[s]
<1>1. TypeOK /\ BlobInv /\ [Next]_vars => [Final]_vars
  BY RowsStay, DecisionsStay DEF BlobInv
<1>2. QED
  BY <1>1, BlobInvariant, PTL DEF Spec, DecisionIsFinal

(* Only calls of an upload's owner change its status, parts and objects.   *)
THEOREM BlobChangesAreOwners == Spec => OnlyOwnerChanges
<1> DEFINE ByOwner ==
      \A u \in Uploads :
        \/ <<status[u], parts[u], objects[u]>>' =
             <<status[u], parts[u], objects[u]>>
        \/ session[u] = None
        \/ \E c \in Streams \cup Aborts :
             /\ target[c] = u
             /\ user[c] = session[u].owner
             /\ <<phase[c], rows[c]>>' # <<phase[c], rows[c]>>
<1>1. TypeOK /\ BlobInv /\ [Next]_vars => [ByOwner]_vars
  BY OwnerStep DEF BlobInv
<1>2. QED
  BY <1>1, BlobInvariant, PTL DEF Spec, OnlyOwnerChanges

(* If no other stream and no abort names its upload, a blob's objects hold *)
(* what its parts declare, whatever failed on the way (UploadChunk stores  *)
(* the object first; CommitUpload takes only what was declared).           *)
THEOREM SoleWriterKeepsBytes == Spec => []SoleWriterIntact
<1> DEFINE Sole == IdleStreams /\ SoleWriters
<1>1. Init => Sole
  BY BlobAssumption DEF Init, IdleStreams, SoleWriters, Declaring, Calls
<1>2. TypeOK /\ BlobInv /\ Sole /\ [Next]_vars => Sole'
  BY IdleStep, SoleWritersStep DEF BlobInv
<1>3. ASSUME TypeOK, BlobInv, Sole PROVE SoleWriterIntact
  <2> SUFFICES ASSUME NEW s \in Streams, blobs[s] # None,
                      StreamsOn(blobs[s].upload) = {s},
                      ~ AbortBegan(blobs[s].upload)
               PROVE  objects[blobs[s].upload] = parts[blobs[s].upload]
    BY DEF SoleWriterIntact
  <2> DEFINE u == blobs[s].upload
  <2>1. u \in Uploads
    BY <1>3, BlobsUpload DEF BlobInv
  <2>2. phase[s] = "done"
    BY <1>3 DEF BlobInv, BlobsLast, BlobLast
  <2>3. ~ GaveUp(s, u) /\ \A i \in Indexes : ~ Declaring(s, u, i)
    BY <2>2 DEF GaveUp, Declaring
  <2>4. \A i \in Indexes : objects[u][i] = parts[u][i]
    BY <1>3, <2>1, <2>3 DEF SoleWriters
  <2>5. objects[u] \in [Indexes -> Nat] /\ parts[u] \in [Indexes -> Nat]
    BY <1>3, <2>1 DEF TypeOK
  <2>6. QED
    BY <2>4, <2>5
<1>4. QED
  BY <1>1, <1>2, <1>3, BlobInvariant, PTL DEF Spec

=============================================================================
