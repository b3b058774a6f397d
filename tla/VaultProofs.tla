---------------------------- MODULE VaultProofs ----------------------------
(***************************************************************************)
(* Proofs about the vault service, for every set of users, items and       *)
(* requests.                                                               *)
(***************************************************************************)
EXTENDS VaultRefinement, TLAPS

----------------------------------------------------------------------------
(* Type correctness                                                        *)

LEMMA NoneIsNoInput == None \notin Input /\ None \notin Row
  BY VaultAssumption DEF Input, Row, Kinds

(* What each statement leaves is a row.                                    *)
LEMMA NewRowIsRow ==
  ASSUME TypeOK, NEW r \in Requests, input[r] \in Input,
         input[r].kind # "create" => Matches(r)
  PROVE  NewRow(r) \in Row
<1>1. CASE input[r].kind = "create"
  BY <1>1 DEF NewRow, InsertedRow, Row, Input
<1>2. CASE input[r].kind # "create"
  <2>1. items[input[r].item] \in Row
    BY <1>2 DEF Matches, TypeOK, Input
  <2>2. items[input[r].item].version + 1 \in Nat
    BY <2>1 DEF Row
  <2>3. QED
    BY <1>2, <2>1, <2>2 DEF NewRow, UpdatedRow, DeletedRow, Row
<1>3. QED
  BY <1>1, <1>2

TypeInv == TypeOK /\ InputKnown

LEMMA TypeInvInit == Init => TypeInv
  BY VaultAssumption DEF Init, TypeInv, TypeOK, InputKnown, Phases, Outcomes

LEMMA TypeInvStep == TypeInv /\ [Next]_vars => TypeInv'
<1> SUFFICES ASSUME TypeInv, [Next]_vars
             PROVE  TypeInv'
  OBVIOUS
<1> USE DEF TypeInv, TypeOK, InputKnown, Phases, Outcomes, Answer
<1>1. ASSUME NEW r \in Requests, ReceiveCreate(r)
      PROVE  TypeInv'
  BY <1>1 DEF ReceiveCreate, Input, Kinds
<1>2. ASSUME NEW r \in Requests, ReceiveOther(r)
      PROVE  TypeInv'
  <2>1. PICK k \in Kinds \ {"create"}, u \in Users, i \in Items,
             e \in ExpectedVersions :
          input' = [input EXCEPT ![r] =
            [kind |-> k, user |-> u, item |-> i,
             expected |-> IF k = "get" THEN 0 ELSE e]]
    BY <1>2 DEF ReceiveOther
  <2>2. (IF k = "get" THEN 0 ELSE e) \in Nat
    BY VaultAssumption DEF ExpectedVersions
  <2>3. input' \in [Requests -> Input \cup {None}] /\ input'[r] \in Input
    BY <2>1, <2>2 DEF Input
  <2>4. QED
    BY <1>2, <2>1, <2>3 DEF ReceiveOther
<1>3. ASSUME NEW r \in Requests, Refuse(r)
      PROVE  TypeInv'
  BY <1>3 DEF Refuse
<1>4. ASSUME NEW r \in Requests, Find(r)
      PROVE  TypeInv'
  BY <1>4 DEF Find, FindVerdict
<1>5. ASSUME NEW r \in Requests, FailBeforeStatement(r)
      PROVE  TypeInv'
  BY <1>5 DEF FailBeforeStatement
<1>6. ASSUME NEW r \in Requests, BeginStatement(r)
      PROVE  TypeInv'
  BY <1>6 DEF BeginStatement
<1>7. ASSUME NEW r \in Requests, CommitStatement(r)
      PROVE  TypeInv'
  <2>1. NewRow(r) \in Row
    BY <1>7, NewRowIsRow DEF CommitStatement
  <2>2. QED
    BY <1>7, <2>1 DEF CommitStatement
<1>8. ASSUME NEW r \in Requests, NoRows(r)
      PROVE  TypeInv'
  BY <1>8 DEF NoRows
<1>9. ASSUME NEW r \in Requests, FailStatement(r)
      PROVE  TypeInv'
  BY <1>9 DEF FailStatement
<1>10. ASSUME NEW r \in Requests, Refind(r)
       PROVE  TypeInv'
  BY <1>10 DEF Refind
<1>11. CASE Tick
  BY <1>11 DEF Tick
<1>12. CASE UNCHANGED vars
  BY <1>12 DEF vars
<1>13. QED
  BY <1>1, <1>2, <1>3, <1>4, <1>5, <1>6, <1>7, <1>8, <1>9, <1>10, <1>11,
     <1>12 DEF Next, Serve

(* Every reachable state of the vault service is well typed: a row that    *)
(* exists has an owner, a version and the payload of some request          *)
(* (migrations/000001_init_schema.sql vault_items).                        *)
THEOREM TypeCorrect == Spec => []TypeOK
<1>1. TypeInv => TypeOK
  BY DEF TypeInv
<1>2. QED
  BY <1>1, TypeInvInit, TypeInvStep, PTL DEF Spec

----------------------------------------------------------------------------
(* The inductive invariant, one conjunct at a time                         *)

(* Another handler's commit only raises the version of the row a handler   *)
(* aims at, and a read that passes finds the row at the expected version.  *)
LEMMA TargetStandsStep ==
  ASSUME TypeInv, TargetStands, InsertIsFresh, [Next]_vars
  PROVE  TargetStands'
<1> USE DEF TypeInv, TypeOK, InputKnown
<1>1. ASSUME NEW r \in Requests, ReceiveCreate(r)
      PROVE  TargetStands'
  BY <1>1 DEF ReceiveCreate, TargetStands
<1>2. ASSUME NEW r \in Requests, ReceiveOther(r)
      PROVE  TargetStands'
  BY <1>2 DEF ReceiveOther, TargetStands
<1>3. ASSUME NEW r \in Requests, Refuse(r)
      PROVE  TargetStands'
  BY <1>3 DEF Refuse, Answer, TargetStands
<1>4. ASSUME NEW r \in Requests, Find(r)
      PROVE  TargetStands'
  <2>1. CASE FindVerdict(items[input[r].item], input[r]) = "write"
    <3>1. /\ items[input[r].item] # None
          /\ items[input[r].item].owner = input[r].user
          /\ items[input[r].item].version = input[r].expected
          /\ ~ items[input[r].item].deleted
          /\ input[r].kind # "get"
      BY <2>1 DEF FindVerdict
    <3>2. input[r].kind # "create" => input[r].kind \in {"update", "delete"}
      BY <1>4, <3>1 DEF Find, Input, Kinds
    <3>3. input[r].expected \in Nat
      BY <1>4 DEF Find, Input
    <3>4. QED
      BY <1>4, <2>1, <3>1, <3>2, <3>3 DEF Find, TargetStands
  <2>2. CASE FindVerdict(items[input[r].item], input[r]) # "write"
    BY <1>4, <2>2 DEF Find, Answer, TargetStands
  <2>3. QED
    BY <2>1, <2>2
<1>5. ASSUME NEW r \in Requests, FailBeforeStatement(r)
      PROVE  TargetStands'
  BY <1>5 DEF FailBeforeStatement, Answer, TargetStands
<1>6. ASSUME NEW r \in Requests, BeginStatement(r)
      PROVE  TargetStands'
  BY <1>6 DEF BeginStatement, TargetStands
<1>7. ASSUME NEW r \in Requests, CommitStatement(r)
      PROVE  TargetStands'
  <2> SUFFICES ASSUME NEW q \in Requests,
                      phase'[q] \in {"write", "stamped", "refind"},
                      input'[q].kind # "create"
               PROVE  TargetStands!(q)'
    BY DEF TargetStands
  <2>1. /\ q # r /\ phase'[q] = phase[q] /\ input' = input
        /\ input[q] \in Input /\ input[r] \in Input
    BY <1>7 DEF CommitStatement, Answer
  <2>2. CASE input[q].item # input[r].item
    BY <1>7, <2>1, <2>2 DEF CommitStatement, TargetStands, Input
  <2>3. CASE input[q].item = input[r].item
    <3>1. items[input[q].item] \in Row
      BY <2>1 DEF TargetStands, Input
    <3>2. input[r].kind # "create" /\ Matches(r)
      BY <1>7, <2>1, <2>3, <3>1, NoneIsNoInput
      DEF CommitStatement, InsertIsFresh
    <3>3. items'[input[q].item] = NewRow(r)
      BY <1>7, <2>1, <2>3 DEF CommitStatement, Input
    <3>4. /\ NewRow(r) \in Row
          /\ NewRow(r).owner = items[input[q].item].owner
          /\ NewRow(r).version = items[input[q].item].version + 1
      BY <2>1, <2>3, <3>1, <3>2, NewRowIsRow
      DEF NewRow, UpdatedRow, DeletedRow, Row
    <3>5. QED
      BY <2>1, <3>1, <3>3, <3>4, NoneIsNoInput DEF TargetStands, Row, Input
  <2>4. QED
    BY <2>2, <2>3
<1>8. ASSUME NEW r \in Requests, NoRows(r)
      PROVE  TargetStands'
  <2>1. input[r] \in Input /\ items[input[r].item] \in Row
    BY <1>8 DEF NoRows, TargetStands, Input
  <2>2. items[input[r].item].version > input[r].expected
    <3>1. /\ items[input[r].item] # None
          /\ items[input[r].item].owner = input[r].user
          /\ items[input[r].item].version >= input[r].expected
          /\ items[input[r].item].deleted =>
               items[input[r].item].version > input[r].expected
      BY <1>8 DEF NoRows, TargetStands
    <3>2. \/ items[input[r].item].version # input[r].expected
          \/ items[input[r].item].deleted
      BY <1>8, <3>1 DEF NoRows, Matches
    <3>3. /\ items[input[r].item].version \in Nat
          /\ input[r].expected \in Nat
      BY <2>1 DEF Row, Input
    <3>4. QED
      BY <3>1, <3>2, <3>3
  <2>3. QED
    BY <1>8, <2>1, <2>2 DEF NoRows, TargetStands
<1>9. ASSUME NEW r \in Requests, FailStatement(r)
      PROVE  TargetStands'
  BY <1>9 DEF FailStatement, Answer, TargetStands
<1>10. ASSUME NEW r \in Requests, Refind(r)
       PROVE  TargetStands'
  BY <1>10 DEF Refind, Answer, TargetStands
<1>11. CASE Tick
  BY <1>11 DEF Tick, TargetStands
<1>12. CASE UNCHANGED vars
  BY <1>12 DEF vars, TargetStands
<1>13. QED
  BY <1>1, <1>2, <1>3, <1>4, <1>5, <1>6, <1>7, <1>8, <1>9, <1>10, <1>11,
     <1>12 DEF Next, Serve

(* NewID never returns an id twice, so a commit never lands on the id of   *)
(* another insert, except an update of a row already inserted there.       *)
LEMMA InsertIsFreshStep ==
  ASSUME TypeInv, TargetStands, InsertIsFresh, AnsweredOnce, [Next]_vars
  PROVE  InsertIsFresh'
<1> USE DEF TypeInv, TypeOK, InputKnown
<1>1. ASSUME NEW r \in Requests, ReceiveCreate(r)
      PROVE  InsertIsFresh'
  <2>1. PICK u \in Users, i \in Items :
          /\ NewID(i)
          /\ input' = [input EXCEPT ![r] =
               [kind |-> "create", user |-> u, item |-> i, expected |-> 0]]
    BY <1>1 DEF ReceiveCreate
  <2>2. /\ input'[r].kind = "create" /\ input'[r].item = i
        /\ input'[r].expected = 0
        /\ phase'[r] = "write"
        /\ items' = items
        /\ \A q \in Requests :
             q # r => input'[q] = input[q] /\ phase'[q] = phase[q]
    BY <1>1, <2>1 DEF ReceiveCreate
  <2>3. items[i] = None
    BY <2>1 DEF NewID
  <2>4. \A q \in Requests : q # r /\ input[q] # None /\ input[q].kind = "create"
                            => input[q].item # i
    BY <2>1 DEF NewID
  <2>5. QED
    BY <2>2, <2>3, <2>4 DEF InsertIsFresh
<1>2. ASSUME NEW r \in Requests, ReceiveOther(r)
      PROVE  InsertIsFresh'
  <2>1. /\ input'[r].kind # "create"
        /\ items' = items
        /\ \A q \in Requests :
             q # r => input'[q] = input[q] /\ phase'[q] = phase[q]
    BY <1>2 DEF ReceiveOther
  <2>2. QED
    BY <2>1 DEF InsertIsFresh
<1>3. ASSUME NEW r \in Requests, Refuse(r)
      PROVE  InsertIsFresh'
  BY <1>3 DEF Refuse, Answer, InsertIsFresh, AnsweredOnce
<1>4. ASSUME NEW r \in Requests, Find(r)
      PROVE  InsertIsFresh'
  BY <1>4, NoneIsNoInput DEF Find, Answer, InsertIsFresh
<1>5. ASSUME NEW r \in Requests, FailBeforeStatement(r)
      PROVE  InsertIsFresh'
  BY <1>5 DEF FailBeforeStatement, Answer, InsertIsFresh
<1>6. ASSUME NEW r \in Requests, BeginStatement(r)
      PROVE  InsertIsFresh'
  BY <1>6 DEF BeginStatement, InsertIsFresh
<1>7. ASSUME NEW r \in Requests, CommitStatement(r)
      PROVE  InsertIsFresh'
  <2>1. /\ input' = input /\ input[r] \in Input
        /\ phase'[r] = "done"
        /\ \A q \in Requests : q # r => phase'[q] = phase[q]
        /\ \A i \in Items : i # input[r].item => items'[i] = items[i]
    BY <1>7 DEF CommitStatement, Answer
  <2>2. ASSUME NEW q \in Requests, input[q] # None, input[q].kind = "create",
               phase'[q] # "done"
        PROVE  input[q].item # input[r].item
    BY <1>7, <2>1, <2>2, NoneIsNoInput
    DEF CommitStatement, Matches, InsertIsFresh
  <2>3. \A q \in Requests : input[q] # None => input[q] \in Input
    OBVIOUS
  <2>4. QED
    BY <2>1, <2>2, <2>3 DEF InsertIsFresh, Input
<1>8. ASSUME NEW r \in Requests, NoRows(r)
      PROVE  InsertIsFresh'
  BY <1>8 DEF NoRows, InsertIsFresh
<1>9. ASSUME NEW r \in Requests, FailStatement(r)
      PROVE  InsertIsFresh'
  BY <1>9 DEF FailStatement, Answer, InsertIsFresh
<1>10. ASSUME NEW r \in Requests, Refind(r)
       PROVE  InsertIsFresh'
  BY <1>10 DEF Refind, Answer, InsertIsFresh
<1>11. CASE Tick
  BY <1>11 DEF Tick, InsertIsFresh
<1>12. CASE UNCHANGED vars
  BY <1>12 DEF vars, InsertIsFresh
<1>13. QED
  BY <1>1, <1>2, <1>3, <1>4, <1>5, <1>6, <1>7, <1>8, <1>9, <1>10, <1>11,
     <1>12 DEF Next, Serve

(* A handler answers once, and its request has an effect only with its     *)
(* answer.                                                                 *)
LEMMA AnsweredOnceStep ==
  ASSUME TypeInv, TargetStands, AnsweredOnce, [Next]_vars
  PROVE  AnsweredOnce'
<1> USE DEF TypeInv, TypeOK, InputKnown, AnsweredOnce, Answer
<1>1. ASSUME NEW r \in Requests, ReceiveCreate(r)
      PROVE  AnsweredOnce'
  BY <1>1 DEF ReceiveCreate
<1>2. ASSUME NEW r \in Requests, ReceiveOther(r)
      PROVE  AnsweredOnce'
  BY <1>2 DEF ReceiveOther
<1>3. ASSUME NEW r \in Requests, Refuse(r)
      PROVE  AnsweredOnce'
  BY <1>3 DEF Refuse
<1>4. ASSUME NEW r \in Requests, Find(r)
      PROVE  AnsweredOnce'
  BY <1>4 DEF Find
<1>5. ASSUME NEW r \in Requests, FailBeforeStatement(r)
      PROVE  AnsweredOnce'
  BY <1>5 DEF FailBeforeStatement
<1>6. ASSUME NEW r \in Requests, BeginStatement(r)
      PROVE  AnsweredOnce'
  BY <1>6 DEF BeginStatement
<1>7. ASSUME NEW r \in Requests, CommitStatement(r)
      PROVE  AnsweredOnce'
  <2>1. input[r] \in Input /\ input[r].kind # "get"
    BY <1>7 DEF CommitStatement, TargetStands
  <2>2. QED
    BY <1>7, <2>1 DEF CommitStatement
<1>8. ASSUME NEW r \in Requests, NoRows(r)
      PROVE  AnsweredOnce'
  BY <1>8 DEF NoRows
<1>9. ASSUME NEW r \in Requests, FailStatement(r)
      PROVE  AnsweredOnce'
  BY <1>9 DEF FailStatement
<1>10. ASSUME NEW r \in Requests, Refind(r)
       PROVE  AnsweredOnce'
  BY <1>10 DEF Refind
<1>11. CASE Tick
  BY <1>11 DEF Tick
<1>12. CASE UNCHANGED vars
  BY <1>12 DEF vars
<1>13. QED
  BY <1>1, <1>2, <1>3, <1>4, <1>5, <1>6, <1>7, <1>8, <1>9, <1>10, <1>11,
     <1>12 DEF Next, Serve

(* A committing statement stamps its row no later than any stamp taken     *)
(* after it, and overtakes every handler that still expects the old row.   *)
LEMMA StampsFollowRowsStep ==
  ASSUME TypeInv, TargetStands, InsertIsFresh, InsertIsFresh',
         StampsFollowRows, [Next]_vars
  PROVE  StampsFollowRows'
<1> USE DEF TypeInv, TypeOK, InputKnown
<1>1. ASSUME NEW r \in Requests,
             \/ ReceiveCreate(r) \/ ReceiveOther(r) \/ Refuse(r) \/ Find(r)
             \/ FailBeforeStatement(r) \/ NoRows(r) \/ FailStatement(r)
             \/ Refind(r)
      PROVE  StampsFollowRows'
  <2>1. /\ UNCHANGED <<items, updatedAt, clock, stamp>>
        /\ \A q \in Requests : phase'[q] = "stamped" =>
             phase[q] = "stamped" /\ input'[q] = input[q]
    BY <1>1 DEF ReceiveCreate, ReceiveOther, Refuse, Find, Answer, NoRows,
                FailBeforeStatement, FailStatement, Refind
  <2>2. QED
    BY <2>1 DEF StampsFollowRows, Matches
<1>2. ASSUME NEW r \in Requests, BeginStatement(r)
      PROVE  StampsFollowRows'
  <2>1. /\ UNCHANGED <<items, updatedAt, clock, input>>
        /\ stamp'[r] = clock
        /\ input[r] \in Input
        /\ \A q \in Requests :
             q # r => phase'[q] = phase[q] /\ stamp'[q] = stamp[q]
    BY <1>2 DEF BeginStatement
  <2>2. input[r].item \in Items
    BY <2>1 DEF Input
  <2>3. updatedAt[input[r].item] <= clock
    BY <2>2 DEF StampsFollowRows
  <2>4. ASSUME NEW q \in Requests, phase'[q] = "stamped"
        PROVE  /\ stamp'[q] <= clock'
               /\ Matches(q)' => updatedAt'[input'[q].item] <= stamp'[q]
    BY <2>1, <2>3, <2>4 DEF StampsFollowRows, Matches
  <2>5. QED
    BY <2>1, <2>4 DEF StampsFollowRows
<1>3. ASSUME NEW r \in Requests, CommitStatement(r)
      PROVE  StampsFollowRows'
  <2>1. /\ UNCHANGED <<clock, input, stamp>>
        /\ input[r] \in Input
        /\ items' = [items EXCEPT ![input[r].item] = NewRow(r)]
        /\ updatedAt' = [updatedAt EXCEPT ![input[r].item] = stamp[r]]
        /\ \A q \in Requests : phase'[q] = "stamped" =>
             q # r /\ phase[q] = "stamped"
        /\ stamp[r] <= clock
        /\ NewRow(r) \in Row
    BY <1>3, NewRowIsRow DEF CommitStatement, Answer, StampsFollowRows
  <2>2. \A i \in Items :
          /\ updatedAt'[i] <= clock'
          /\ items'[i] = None => updatedAt'[i] = 0
    <3>1. input[r].item \in Items
      BY <2>1 DEF Input
    <3>2. /\ updatedAt'[input[r].item] = stamp[r]
          /\ items'[input[r].item] # None
          /\ \A i \in Items : i # input[r].item =>
               updatedAt'[i] = updatedAt[i] /\ items'[i] = items[i]
      BY <2>1, <3>1, NoneIsNoInput
    <3>3. QED
      BY <2>1, <3>2 DEF StampsFollowRows
  <2>3. ASSUME NEW q \in Requests, phase'[q] = "stamped", Matches(q)'
        PROVE  stamp'[q] <= clock' /\ updatedAt'[input'[q].item] <= stamp'[q]
    <3>1. q # r /\ phase[q] = "stamped" /\ input[q] \in Input
      BY <2>1, <2>3
    <3>2. CASE input[q].item # input[r].item
      BY <2>1, <2>3, <3>1, <3>2 DEF StampsFollowRows, Matches, Input
    <3>3. CASE input[q].item = input[r].item
      <4>1. input[q].kind # "create"
        BY <2>1, <2>3, <3>1, NoneIsNoInput DEF InsertIsFresh, Matches
      <4>2. /\ items[input[q].item] \in Row
            /\ items[input[q].item].version >= input[q].expected
        BY <3>1, <4>1 DEF TargetStands, Input
      <4>3. input[r].kind # "create"
        BY <1>3, <2>1, <3>3, <4>2, NoneIsNoInput
        DEF CommitStatement, InsertIsFresh
      <4>4. NewRow(r).version = items[input[q].item].version + 1
        BY <3>3, <4>2, <4>3 DEF NewRow, UpdatedRow, DeletedRow, Row
      <4>5. items'[input[q].item].version # input[q].expected
        BY <2>1, <3>1, <3>3, <4>2, <4>4 DEF Input, Row
      <4>6. QED
        BY <2>1, <2>3, <4>5 DEF Matches
    <3>4. QED
      BY <3>2, <3>3
  <2>4. \A q \in Requests : phase'[q] = "stamped" => stamp'[q] <= clock'
    BY <2>1 DEF StampsFollowRows
  <2>5. QED
    BY <2>2, <2>3, <2>4 DEF StampsFollowRows
<1>4. CASE Tick
  <2>1. /\ UNCHANGED <<items, updatedAt, phase, input, stamp>>
        /\ clock' = clock + 1
    BY <1>4 DEF Tick
  <2>2. \A n \in Nat : n <= clock => n <= clock'
    BY <2>1
  <2>3. \A i \in Items :
          /\ updatedAt'[i] <= clock'
          /\ items'[i] = None => updatedAt'[i] = 0
    BY <2>1, <2>2 DEF StampsFollowRows
  <2>4. ASSUME NEW q \in Requests, phase'[q] = "stamped"
        PROVE  /\ stamp'[q] <= clock'
               /\ Matches(q)' => updatedAt'[input'[q].item] <= stamp'[q]
    BY <2>1, <2>2, <2>4 DEF StampsFollowRows, Matches
  <2>5. QED
    BY <2>3, <2>4 DEF StampsFollowRows
<1>5. CASE UNCHANGED vars
  BY <1>5 DEF vars, StampsFollowRows, Matches
<1>6. QED
  BY <1>1, <1>2, <1>3, <1>4, <1>5 DEF Next, Serve

(* The answer and the effect of a request are decided in the same step.    *)
LEMMA AnswerMatchesEffectStep ==
  ASSUME TypeInv, TargetStands, AnsweredOnce, AnswerMatchesEffect, [Next]_vars
  PROVE  AnswerMatchesEffect'
<1> USE DEF TypeInv, TypeOK, InputKnown, AnsweredOnce, Answer,
            AnswerMatchesEffect
<1>1. ASSUME NEW r \in Requests, ReceiveCreate(r)
      PROVE  AnswerMatchesEffect'
  BY <1>1 DEF ReceiveCreate
<1>2. ASSUME NEW r \in Requests, ReceiveOther(r)
      PROVE  AnswerMatchesEffect'
  BY <1>2 DEF ReceiveOther
<1>3. ASSUME NEW r \in Requests, Refuse(r)
      PROVE  AnswerMatchesEffect'
  BY <1>3 DEF Refuse
<1>4. ASSUME NEW r \in Requests, Find(r)
      PROVE  AnswerMatchesEffect'
  BY <1>4 DEF Find, FindVerdict
<1>5. ASSUME NEW r \in Requests, FailBeforeStatement(r)
      PROVE  AnswerMatchesEffect'
  BY <1>5 DEF FailBeforeStatement
<1>6. ASSUME NEW r \in Requests, BeginStatement(r)
      PROVE  AnswerMatchesEffect'
  BY <1>6 DEF BeginStatement
<1>7. ASSUME NEW r \in Requests, CommitStatement(r)
      PROVE  AnswerMatchesEffect'
  BY <1>7 DEF CommitStatement
<1>8. ASSUME NEW r \in Requests, NoRows(r)
      PROVE  AnswerMatchesEffect'
  BY <1>8 DEF NoRows
<1>9. ASSUME NEW r \in Requests, FailStatement(r)
      PROVE  AnswerMatchesEffect'
  BY <1>9 DEF FailStatement
<1>10. ASSUME NEW r \in Requests, Refind(r)
       PROVE  AnswerMatchesEffect'
  BY <1>10 DEF Refind
<1>11. CASE Tick
  BY <1>11 DEF Tick
<1>12. CASE UNCHANGED vars
  BY <1>12 DEF vars
<1>13. QED
  BY <1>1, <1>2, <1>3, <1>4, <1>5, <1>6, <1>7, <1>8, <1>9, <1>10, <1>11,
     <1>12 DEF Next, Serve

----------------------------------------------------------------------------
(* The history of an item                                                  *)

(* Only a commit changes rows, and nothing changes the input of a request  *)
(* that has had its effect.                                                *)
LEMMA OnlyCommitsWrite ==
  ASSUME TypeInv, AnsweredOnce, [Next]_vars
  PROVE  \/ \E r \in Requests : CommitStatement(r)
         \/ /\ UNCHANGED <<items, updatedAt, applied>>
            /\ \A q \in Requests : applied[q] => input'[q] = input[q]
<1> USE DEF TypeInv, TypeOK, AnsweredOnce
<1>1. ASSUME NEW r \in Requests, ReceiveCreate(r) \/ ReceiveOther(r)
      PROVE  /\ UNCHANGED <<items, updatedAt, applied>>
             /\ \A q \in Requests : applied[q] => input'[q] = input[q]
  BY <1>1 DEF ReceiveCreate, ReceiveOther
<1>2. ASSUME NEW r \in Requests, Refuse(r) \/ Serve(r), ~ CommitStatement(r)
      PROVE  UNCHANGED <<items, updatedAt, applied, input>>
  BY <1>2 DEF Refuse, Serve, Find, FailBeforeStatement, BeginStatement,
              NoRows, FailStatement, Refind
<1>3. CASE Tick \/ UNCHANGED vars
  BY <1>3 DEF Tick, vars
<1>4. QED
  BY <1>1, <1>2, <1>3 DEF Next

(* What a commit does to its item and to its item's history.               *)
LEMMA CommitWrites ==
  ASSUME TypeInv, TargetStands, InsertIsFresh, AnsweredOnce,
         NEW r \in Requests, CommitStatement(r)
  PROVE  /\ input' = input
         /\ input[r].item \in Items
         /\ ~ applied[r]
         /\ applied' = [applied EXCEPT ![r] = TRUE]
         /\ items' = [items EXCEPT ![input[r].item] = NewRow(r)]
         /\ NewRow(r) \in Row
         /\ NewRow(r).version = Produced(r)
         /\ NewRow(r).owner = input[r].user
         /\ IF input[r].kind = "create"
            THEN /\ items[input[r].item] = None
                 /\ Produced(r) = 1
                 /\ NewRow(r).content = r
                 /\ ~ NewRow(r).deleted
            ELSE /\ items[input[r].item] \in Row
                 /\ items[input[r].item].version = input[r].expected
                 /\ items[input[r].item].owner = input[r].user
                 /\ ~ items[input[r].item].deleted
                 /\ IF input[r].kind = "update"
                    THEN NewRow(r).content = r /\ ~ NewRow(r).deleted
                    ELSE /\ input[r].kind = "delete"
                         /\ NewRow(r).content = items[input[r].item].content
                         /\ NewRow(r).deleted
<1> USE DEF TypeInv, TypeOK, InputKnown
<1>1. /\ input[r] \in Input /\ input' = input
      /\ ~ applied[r]
      /\ applied' = [applied EXCEPT ![r] = TRUE]
      /\ items' = [items EXCEPT ![input[r].item] = NewRow(r)]
      /\ NewRow(r) \in Row
  BY NewRowIsRow DEF CommitStatement, AnsweredOnce
<1>2. CASE input[r].kind = "create"
  <2>1. items[input[r].item] = None /\ input[r].expected = 0
    BY <1>1, <1>2, NoneIsNoInput DEF CommitStatement, InsertIsFresh
  <2>2. QED
    BY <1>1, <1>2, <2>1 DEF NewRow, InsertedRow, Produced, Input
<1>3. CASE input[r].kind # "create"
  <2>1. Matches(r) /\ input[r].kind \in {"update", "delete"}
    BY <1>3 DEF CommitStatement, TargetStands
  <2>2. /\ items[input[r].item] \in Row
        /\ items[input[r].item].version = input[r].expected
        /\ items[input[r].item].owner = input[r].user
        /\ ~ items[input[r].item].deleted
    BY <1>1, <2>1 DEF Matches, Input
  <2>3. CASE input[r].kind = "update"
    BY <1>1, <2>2, <2>3 DEF NewRow, UpdatedRow, Produced, Input, Row
  <2>4. CASE input[r].kind = "delete"
    BY <1>1, <2>2, <2>4 DEF NewRow, DeletedRow, Produced, Input, Row
  <2>5. QED
    BY <2>1, <2>3, <2>4
<1>4. QED
  BY <1>2, <1>3

LEMMA CommitAddsWriter ==
  ASSUME TypeInv, TargetStands, InsertIsFresh, AnsweredOnce,
         NEW r \in Requests, CommitStatement(r)
  PROVE  /\ \A i \in Items :
              Writers(i)' = IF i = input[r].item THEN Writers(i) \cup {r}
                            ELSE Writers(i)
         /\ \A q \in Requests : Produced(q)' = Produced(q)
  BY CommitWrites DEF Writers, Produced, TypeInv, TypeOK

LEMMA EveryVersionHasOneWriterStep ==
  ASSUME TypeInv, TargetStands, InsertIsFresh, AnsweredOnce,
         EveryVersionHasOneWriter, [Next]_vars
  PROVE  EveryVersionHasOneWriter'
<1>1. ASSUME NEW r \in Requests, CommitStatement(r)
      PROVE  EveryVersionHasOneWriter'
  <2> PICK j \in Items : j = input[r].item
    BY <1>1, CommitWrites
  <2>1. /\ j \in Items
        /\ items'[j] = NewRow(r)
        /\ \A i \in Items : i # j => items'[i] = items[i]
        /\ items'[j] # None
        /\ items'[j].version = Produced(r)
    BY <1>1, CommitWrites, NoneIsNoInput DEF TypeInv, TypeOK
  <2>2. ASSUME NEW i \in Items, i # j
        PROVE  OneWriterEach(i)'
    <3>1. Writers(i)' = Writers(i) /\ items'[i] = items[i]
      BY <1>1, <2>1, <2>2, CommitAddsWriter
    <3>2. \A q \in Writers(i) : Produced(q)' = Produced(q)
      BY <1>1, CommitAddsWriter DEF Writers
    <3>3. QED
      BY <3>1, <3>2 DEF EveryVersionHasOneWriter, OneWriterEach
  <2>3. OneWriterEach(j)'
    <3> DEFINE W == Writers(j)
    <3>0. W \subseteq Requests
      BY DEF Writers
    <3>1. /\ Writers(j)' = W \cup {r}
          /\ \A q \in W \cup {r} : Produced(q)' = Produced(q)
      BY <1>1, <3>0, CommitAddsWriter
    <3>2. CASE input[r].kind = "create"
      <4>1. Produced(r) = 1 /\ W = {}
        BY <1>1, <2>1, <3>2, CommitWrites
        DEF EveryVersionHasOneWriter, OneWriterEach
      <4>2. \A v \in 1 .. 1 : v = 1
        OBVIOUS
      <4>3. 1 \in 1 .. 1
        OBVIOUS
      <4>4. QED
        BY <2>1, <3>1, <4>1, <4>2, <4>3 DEF OneWriterEach
    <3>3. CASE input[r].kind # "create"
      <4> DEFINE n == items[j].version
      <4>1. /\ items[j] # None /\ n \in Nat /\ n = input[r].expected
        BY <1>1, <3>3, CommitWrites, NoneIsNoInput DEF Row
      <4>2. /\ \A q \in W : Produced(q) \in 1 .. n
            /\ \A v \in 1 .. n :
                 \E q \in W :
                   /\ Produced(q) = v
                   /\ \A s \in W : Produced(s) = v => s = q
        BY <2>1, <4>1 DEF EveryVersionHasOneWriter, OneWriterEach
      <4>3. Produced(r) = n + 1
        BY <4>1 DEF Produced
      <4>4. 1 .. n + 1 = (1 .. n) \cup {n + 1} /\ n + 1 \notin 1 .. n
        BY <4>1
      <4> HIDE DEF n, W
      <4>5. \A q \in W \cup {r} : Produced(q) \in 1 .. n + 1
        BY <4>2, <4>3, <4>4
      <4>6. ASSUME NEW v \in 1 .. n + 1
            PROVE  \E q \in W \cup {r} :
                     /\ Produced(q) = v
                     /\ \A s \in W \cup {r} : Produced(s) = v => s = q
        <5>1. CASE v = n + 1
          BY <4>2, <4>3, <4>4, <5>1
        <5>2. CASE v \in 1 .. n
          BY <4>2, <4>3, <4>4, <5>2
        <5>3. QED
          BY <4>4, <5>1, <5>2
      <4>7. items'[j].version = n + 1 /\ items'[j] # None
        BY <2>1, <4>3
      <4>8. QED
        BY <3>1, <4>5, <4>6, <4>7 DEF OneWriterEach
    <3>4. QED
      BY <3>2, <3>3
  <2>4. QED
    BY <2>2, <2>3 DEF EveryVersionHasOneWriter
<1>2. CASE /\ UNCHANGED <<items, updatedAt, applied>>
           /\ \A q \in Requests : applied[q] => input'[q] = input[q]
  <2>1. \A i \in Items : Writers(i)' = Writers(i)
    BY <1>2 DEF Writers
  <2>2. \A i \in Items : \A q \in Writers(i) : Produced(q)' = Produced(q)
    BY <1>2 DEF Writers, Produced
  <2>3. QED
    BY <1>2, <2>1, <2>2 DEF EveryVersionHasOneWriter, OneWriterEach
<1>3. QED
  BY <1>1, <1>2, OnlyCommitsWrite

LEMMA StoredContentIsNewestStep ==
  ASSUME TypeInv, TargetStands, InsertIsFresh, AnsweredOnce,
         EveryVersionHasOneWriter, StoredContentIsNewest, [Next]_vars
  PROVE  StoredContentIsNewest'
<1>1. ASSUME NEW r \in Requests, CommitStatement(r)
      PROVE  StoredContentIsNewest'
  <2> DEFINE j == input[r].item
  <2>1. /\ j \in Items /\ input' = input
        /\ items'[j] = NewRow(r)
        /\ \A i \in Items : i # j => items'[i] = items[i]
        /\ NewRow(r) \in Row /\ NewRow(r).version = Produced(r)
    BY <1>1, CommitWrites DEF TypeInv, TypeOK
  <2>2. /\ \A i \in Items :
             Writers(i)' = IF i = j THEN Writers(i) \cup {r} ELSE Writers(i)
        /\ \A q \in Requests : Produced(q)' = Produced(q)
    BY <1>1, CommitAddsWriter
  <2>3. ASSUME NEW i \in Items, i # j
        PROVE  NewestContent(i)'
    BY <2>1, <2>2, <2>3 DEF StoredContentIsNewest, NewestContent, Writers
  <2>4. NewestContent(j)'
    <3>1. CASE NewRow(r).content = r /\ ~ NewRow(r).deleted
      <4>1. input[r].kind # "delete" /\ Produced(r) \in Nat
        BY <1>1, <2>1, <3>1, CommitWrites DEF Row
      <4>2. QED
        BY <2>1, <2>2, <3>1, <4>1 DEF NewestContent
    <3>2. CASE ~ (NewRow(r).content = r /\ ~ NewRow(r).deleted)
      <4> DEFINE c == items[j].content
      <4>1. /\ items[j] \in Row /\ ~ items[j].deleted
            /\ items[j].version = input[r].expected
            /\ NewRow(r).content = c /\ NewRow(r).deleted
        BY <1>1, <3>2, CommitWrites
      <4>2. /\ c \in Writers(j) /\ c \in Requests
            /\ input[c].kind # "delete"
            /\ Produced(c) + 0 = items[j].version
        BY <2>1, <4>1, NoneIsNoInput
        DEF StoredContentIsNewest, NewestContent, Writers
      <4>3. Produced(c) \in Nat
        BY <2>1, <4>1, <4>2, NoneIsNoInput
        DEF EveryVersionHasOneWriter, OneWriterEach
      <4>4. Produced(c) + 1 = Produced(r)
        BY <4>1, <4>2, <4>3 DEF Produced
      <4>5. QED
        BY <2>1, <2>2, <4>1, <4>2, <4>4 DEF NewestContent
    <3>3. QED
      BY <3>1, <3>2
  <2>5. QED
    BY <2>1, <2>3, <2>4 DEF StoredContentIsNewest
<1>2. CASE /\ UNCHANGED <<items, updatedAt, applied>>
           /\ \A q \in Requests : applied[q] => input'[q] = input[q]
  BY <1>2 DEF StoredContentIsNewest, NewestContent, Writers, Produced
<1>3. QED
  BY <1>1, <1>2, OnlyCommitsWrite

----------------------------------------------------------------------------
(* The theorems                                                            *)

LEMMA InvInit == Init => TypeInv /\ VaultInv
<1> SUFFICES ASSUME Init
             PROVE  TypeInv /\ VaultInv
  OBVIOUS
<1>1. TypeInv
  BY TypeInvInit
<1>2. TargetStands /\ InsertIsFresh /\ StampsFollowRows /\ AnsweredOnce
  BY DEF Init, TargetStands, InsertIsFresh, StampsFollowRows, AnsweredOnce
<1>3. EveryVersionHasOneWriter /\ StoredContentIsNewest
  BY DEF Init, EveryVersionHasOneWriter, OneWriterEach, StoredContentIsNewest,
         NewestContent, Writers
<1>4. AnswerMatchesEffect
  BY DEF Init, AnswerMatchesEffect
<1>5. QED
  BY <1>1, <1>2, <1>3, <1>4 DEF VaultInv, TypeInv

LEMMA InvStep == TypeInv /\ VaultInv /\ [Next]_vars => TypeInv' /\ VaultInv'
<1> SUFFICES ASSUME TypeInv, VaultInv, [Next]_vars
             PROVE  TypeInv' /\ VaultInv'
  OBVIOUS
<1> USE DEF VaultInv
<1>1. TypeInv'
  BY TypeInvStep
<1>2. TargetStands'
  BY TargetStandsStep
<1>3. InsertIsFresh'
  BY InsertIsFreshStep
<1>4. StampsFollowRows'
  BY <1>3, StampsFollowRowsStep
<1>5. AnsweredOnce'
  BY AnsweredOnceStep
<1>6. EveryVersionHasOneWriter'
  BY EveryVersionHasOneWriterStep
<1>7. StoredContentIsNewest'
  BY StoredContentIsNewestStep
<1>8. AnswerMatchesEffect'
  BY AnswerMatchesEffectStep
<1>9. QED
  BY <1>1, <1>2, <1>3, <1>4, <1>5, <1>6, <1>7, <1>8 DEF TypeInv

LEMMA Invariance == Spec => [](TypeInv /\ VaultInv)
  BY InvInit, InvStep, PTL DEF Spec

(* No update is lost and none is applied twice, for any number of requests *)
(* and any interleaving (service.go UpdateItem, DeleteItem).               *)
THEOREM NoLostUpdate == Spec => []EveryVersionHasOneWriter
<1>1. VaultInv => EveryVersionHasOneWriter
  BY DEF VaultInv
<1>2. QED
  BY <1>1, Invariance, PTL

(* The stored payload is the last accepted one (postgres_repository.go     *)
(* UpdateItem, DeleteItem).                                                *)
THEOREM ContentIsNewest == Spec => []StoredContentIsNewest
<1>1. VaultInv => StoredContentIsNewest
  BY DEF VaultInv
<1>2. QED
  BY <1>1, Invariance, PTL

(* What the handler answers agrees with what its statement did.            *)
THEOREM AnswersAreTrue == Spec => []AnswerMatchesEffect
<1>1. VaultInv => AnswerMatchesEffect
  BY DEF VaultInv
<1>2. QED
  BY <1>1, Invariance, PTL

(* A handler told of a version conflict by the repository has really been  *)
(* overtaken (vault.go ErrVersionConflict).                                *)
THEOREM ConflictsAreReal == Spec => []ConflictIsReal
<1>1. TypeInv /\ VaultInv => ConflictIsReal
  <2> SUFFICES ASSUME TypeInv, VaultInv,
                      NEW r \in Requests, phase[r] = "refind"
               PROVE  /\ items[input[r].item] # None
                      /\ items[input[r].item].version > input[r].expected
    BY DEF ConflictIsReal
  <2>1. input[r] \in Input /\ input[r].kind # "create"
    BY NoneIsNoInput DEF TypeInv, VaultInv, InputKnown, InsertIsFresh
  <2>2. QED
    BY <2>1 DEF VaultInv, TargetStands
<1>2. QED
  BY <1>1, Invariance, PTL

(* A deleted item stays exactly as its deletion left it (migrations/       *)
(* 000001_init_schema.sql: soft delete).                                   *)
THEOREM TombstonesAreFinal == Spec => TombstoneIsFinal
<1>1. TypeInv /\ VaultInv /\ [Next]_vars =>
        [\A i \in Items :
           items[i] # None =>
             /\ items[i].deleted => items'[i] = items[i]
             /\ items'[i] # None]_vars
  <2> SUFFICES ASSUME TypeInv, VaultInv, [Next]_vars,
                      NEW i \in Items, items[i] # None
               PROVE  /\ items[i].deleted => items'[i] = items[i]
                      /\ items'[i] # None
    OBVIOUS
  <2>1. ASSUME NEW r \in Requests, CommitStatement(r)
        PROVE  /\ items[i].deleted => items'[i] = items[i]
               /\ items'[i] # None
    BY <2>1, CommitWrites, NoneIsNoInput DEF VaultInv, TypeInv, TypeOK
  <2>2. QED
    BY <2>1, OnlyCommitsWrite DEF VaultInv
<1>2. QED
  BY <1>1, Invariance, PTL DEF Spec, TombstoneIsFinal

(* Items change only one version at a time, by their owner's request.      *)
THEOREM ChangesAreOwners == Spec => OnlyOwnerChanges
<1>1. TypeInv /\ VaultInv /\ [Next]_vars =>
        [\A i \in Items : items'[i] # items[i] =>
           /\ items'[i].version =
                (IF items[i] = None THEN 1 ELSE items[i].version + 1)
           /\ items[i] # None => items'[i].owner = items[i].owner
           /\ \E r \in Requests :
                /\ ~ applied[r] /\ applied'[r]
                /\ input[r].item = i
                /\ input[r].user = items'[i].owner]_vars
  <2> SUFFICES ASSUME TypeInv, VaultInv, [Next]_vars,
                      NEW i \in Items, items'[i] # items[i]
               PROVE  /\ items'[i].version =
                           (IF items[i] = None THEN 1 ELSE items[i].version + 1)
                      /\ items[i] # None => items'[i].owner = items[i].owner
                      /\ \E r \in Requests :
                           /\ ~ applied[r] /\ applied'[r]
                           /\ input[r].item = i
                           /\ input[r].user = items'[i].owner
    OBVIOUS
  <2>1. PICK r \in Requests : CommitStatement(r)
    BY OnlyCommitsWrite DEF VaultInv
  <2>2. /\ input[r].item = i
        /\ items'[i] = NewRow(r)
        /\ NewRow(r).owner = input[r].user
        /\ NewRow(r).version = Produced(r)
        /\ ~ applied[r] /\ applied'[r]
    BY <2>1, CommitWrites DEF VaultInv, TypeInv, TypeOK
  <2>3. CASE input[r].kind = "create"
    BY <2>1, <2>2, <2>3, CommitWrites DEF VaultInv
  <2>4. CASE input[r].kind # "create"
    BY <2>1, <2>2, <2>4, CommitWrites, NoneIsNoInput DEF VaultInv, Produced
  <2>5. QED
    BY <2>3, <2>4
<1>2. QED
  BY <1>1, Invariance, PTL DEF Spec, OnlyOwnerChanges

LEMMA UpdatedAtStep ==
  ASSUME TypeInv, VaultInv, [Next]_vars, NEW i \in Items
  PROVE  updatedAt'[i] >= updatedAt[i]
<1>0. updatedAt[i] \in Nat
  BY DEF TypeInv, TypeOK
<1>1. ASSUME NEW r \in Requests, CommitStatement(r)
      PROVE  updatedAt'[i] >= updatedAt[i]
  <2>1. /\ input[r].item \in Items
        /\ updatedAt' = [updatedAt EXCEPT ![input[r].item] = stamp[r]]
        /\ phase[r] = "stamped"
        /\ stamp[r] \in Nat
    BY <1>1, CommitWrites DEF VaultInv, CommitStatement, TypeInv, TypeOK
  <2>2. updatedAt[input[r].item] <= stamp[r]
    <3>1. CASE input[r].kind = "create"
      BY <1>1, <2>1, <3>1, CommitWrites DEF VaultInv, StampsFollowRows
    <3>2. CASE input[r].kind # "create"
      BY <1>1, <2>1, <3>2 DEF VaultInv, StampsFollowRows, CommitStatement
    <3>3. QED
      BY <3>1, <3>2
  <2>3. QED
    BY <1>0, <2>1, <2>2 DEF TypeInv, TypeOK
<1>2. QED
  BY <1>0, <1>1, OnlyCommitsWrite DEF VaultInv

(* updated_at never goes back, although each statement takes it before it  *)
(* waits for the row (postgres_repository.go UpdateItem, DeleteItem).      *)
THEOREM UpdatedAtGrows == Spec => UpdatedAtNeverBack
<1>1. TypeInv /\ VaultInv /\ [Next]_vars =>
        [\A i \in Items : updatedAt'[i] >= updatedAt[i]]_vars
  BY UpdatedAtStep
<1>2. QED
  BY <1>1, Invariance, PTL DEF Spec, UpdatedAtNeverBack

(* No update is lost or applied twice, and the newest one is what is       *)
(* stored (service.go UpdateItem, DeleteItem).                             *)
THEOREM UpdatesAreKept == Spec => []NoUpdateIsLost
<1>1. EveryVersionHasOneWriter /\ StoredContentIsNewest => NoUpdateIsLost
  BY DEF NoUpdateIsLost
<1>2. QED
  BY <1>1, NoLostUpdate, ContentIsNewest, PTL

(* Every answer but "internal" is true, and no conflict is spurious        *)
(* (service.go UpdateItem, DeleteItem).                                    *)
THEOREM AnswersHaveGrounds == Spec => []AnswersAreFounded
<1>1. AnswerMatchesEffect /\ ConflictIsReal => AnswersAreFounded
  BY DEF AnswersAreFounded
<1>2. QED
  BY <1>1, AnswersAreTrue, ConflictsAreReal, PTL

----------------------------------------------------------------------------
(* The vault service implements the atomic store of VaultStore: each step  *)
(* of a handler is a step of the store or invisible to it.                 *)

StatusOf(p) == IF p \in {"idle", "done"} THEN p ELSE "pending"

(* A handler's step moves the status of its own request only.              *)
LEMMA StatusMoves ==
  ASSUME TypeOK, NEW r \in Requests, NEW p,
         phase' = [phase EXCEPT ![r] = p]
  PROVE  /\ Status' = [Status EXCEPT ![r] = StatusOf(p)]
         /\ Status[r] = StatusOf(phase[r])
         /\ StatusOf(p) = Status[r] => Status' = Status
  BY DEF TypeOK, Status, StatusOf

LEMMA SameInput == Store!Input = Input
  BY DEF Store!Input, Input, Kinds

(* A refusal or a read decided by the handler is justified in the store.   *)
LEMMA DeclineImplemented ==
  ASSUME TypeInv, NEW r \in Requests, phase[r] \notin {"idle", "done"},
         NEW out \in {"ok", "notfound", "denied", "conflict", "internal"},
         Answer(r, out), Store!Justified(out, input[r]),
         UNCHANGED <<items, input, applied>>
  PROVE  Store!Decline(r)
<1>1. /\ Status[r] = "pending"
      /\ Status' = [Status EXCEPT ![r] = "done"]
  <2>1. phase' = [phase EXCEPT ![r] = "done"]
    BY DEF Answer
  <2>2. QED
    BY <2>1, StatusMoves DEF TypeInv, StatusOf
<1>2. outcome' = [outcome EXCEPT ![r] = out]
  BY DEF Answer
<1>3. QED
  BY <1>1, <1>2 DEF Store!Decline

LEMMA FindImplemented ==
  ASSUME TypeInv, NEW r \in Requests, Find(r)
  PROVE  Store!Decline(r) \/ UNCHANGED Store!vars
<1> DEFINE v == FindVerdict(items[input[r].item], input[r])
<1>1. CASE v = "write"
  <2>1. phase' = [phase EXCEPT ![r] = "write"] /\ phase[r] = "find"
    BY <1>1 DEF Find
  <2>2. StatusOf("write") = StatusOf(phase[r])
    BY <2>1 DEF StatusOf
  <2>3. Status' = Status
    BY <2>1, <2>2, StatusMoves DEF TypeInv
  <2>4. QED
    BY <1>1, <2>3 DEF Find, Store!vars
<1>2. CASE v # "write"
  <2>1. /\ v \in {"ok", "notfound", "denied", "conflict"}
        /\ Store!Justified(v, input[r])
    BY <1>2 DEF FindVerdict, Store!Justified
  <2>2. QED
    BY <1>2, <2>1, DeclineImplemented DEF Find
<1>3. QED
  BY <1>1, <1>2

LEMMA CommitImplemented ==
  ASSUME TypeInv, VaultInv, NEW r \in Requests, CommitStatement(r)
  PROVE  Store!Change(r)
<1> DEFINE row == items[input[r].item]
<1>1. /\ Status[r] = "pending"
      /\ Status' = [Status EXCEPT ![r] = "done"]
  <2>1. phase' = [phase EXCEPT ![r] = "done"] /\ phase[r] = "stamped"
    BY DEF CommitStatement, Answer
  <2>2. QED
    BY <2>1, StatusMoves DEF TypeInv, StatusOf
<1>2. input[r] \in Input /\ input[r].kind \in Kinds
  BY DEF CommitStatement, TypeInv, InputKnown, Input
<1>3. Store!MayChange(input[r]) /\ NewRow(r) = Store!Changed(r, input[r])
  <2>1. CASE input[r].kind = "create"
    <3>1. row = None
      BY <2>1, CommitWrites DEF VaultInv
    <3>2. QED
      BY <2>1, <3>1 DEF Store!MayChange, Store!Changed, NewRow, InsertedRow
  <2>2. CASE input[r].kind # "create"
    <3>1. /\ Matches(r)
          /\ row \in Row
          /\ input[r].kind \in {"update", "delete"}
      BY <2>2, CommitWrites DEF VaultInv, CommitStatement
    <3>2. Store!MayChange(input[r])
      BY <2>2, <3>1 DEF Matches, Store!MayChange
    <3>3. CASE input[r].kind = "update"
      BY <3>2, <3>3 DEF Store!Changed, NewRow, UpdatedRow
    <3>4. CASE input[r].kind = "delete"
      BY <3>2, <3>4 DEF Store!Changed, NewRow, DeletedRow
    <3>5. QED
      BY <3>1, <3>3, <3>4
  <2>3. QED
    BY <2>1, <2>2
<1>4. /\ items' = [items EXCEPT ![input[r].item] = NewRow(r)]
      /\ applied' = [applied EXCEPT ![r] = TRUE]
      /\ input' = input
      /\ \E out \in {"ok", "internal"} : outcome' = [outcome EXCEPT ![r] = out]
  BY DEF CommitStatement, Answer
<1>5. QED
  BY <1>1, <1>3, <1>4 DEF Store!Change

LEMMA RefindImplemented ==
  ASSUME TypeInv, VaultInv, NEW r \in Requests, Refind(r)
  PROVE  Store!Decline(r)
<1>1. input[r] \in Input /\ input[r].kind # "create"
  BY NoneIsNoInput DEF Refind, TypeInv, VaultInv, InputKnown, InsertIsFresh
<1>2. /\ items[input[r].item] # None
      /\ items[input[r].item].owner = input[r].user
      /\ items[input[r].item].version > input[r].expected
      /\ input[r].kind # "get"
  BY <1>1 DEF Refind, VaultInv, TargetStands
<1>3. items[input[r].item].version # input[r].expected
  <2>1. items[input[r].item] \in Row
    BY <1>1, <1>2 DEF TypeInv, TypeOK, Input
  <2>2. QED
    BY <1>1, <1>2, <2>1 DEF Row, Input
<1>4. Store!Justified("conflict", input[r])
  BY <1>2, <1>3 DEF Store!Justified
<1>5. items[input[r].item].deleted => Store!Justified("notfound", input[r])
  BY <1>2 DEF Store!Justified
<1>6. QED
  BY <1>4, <1>5, DeclineImplemented DEF Refind

LEMMA StepImplemented ==
  TypeInv /\ VaultInv /\ [Next]_vars => [Store!Next]_(Store!vars)
<1> SUFFICES ASSUME TypeInv, VaultInv, [Next]_vars
             PROVE  Store!Next \/ UNCHANGED Store!vars
  OBVIOUS
<1> USE DEF TypeInv
<1>1. ASSUME NEW r \in Requests, ReceiveCreate(r) \/ ReceiveOther(r)
      PROVE  Store!Arrive(r)
  <2>1. PICK p \in {"write", "find"} : phase' = [phase EXCEPT ![r] = p]
    BY <1>1 DEF ReceiveCreate, ReceiveOther
  <2>2. phase[r] = "idle" /\ UNCHANGED <<items, outcome, applied>>
    BY <1>1 DEF ReceiveCreate, ReceiveOther
  <2>3. Status[r] = "idle" /\ Status' = [Status EXCEPT ![r] = "pending"]
    BY <2>1, <2>2, StatusMoves DEF StatusOf
  <2>4. /\ input' = [input EXCEPT ![r] = input'[r]]
        /\ \A q \in Requests : q = r => phase'[q] \in {"write", "find"}
    BY <1>1, <2>1 DEF ReceiveCreate, ReceiveOther, TypeOK
  <2>5. TypeInv'
    BY TypeInvStep
  <2>6. input'[r] \in Input
    BY <2>4, <2>5 DEF InputKnown
  <2>7. QED
    BY <2>2, <2>3, <2>4, <2>6, SameInput DEF Store!Arrive
<1>2. ASSUME NEW r \in Requests, Refuse(r)
      PROVE  Store!Refuse(r)
  <2>1. phase' = [phase EXCEPT ![r] = "done"] /\ phase[r] = "idle"
    BY <1>2 DEF Refuse, Answer
  <2>2. Status[r] = "idle" /\ Status' = [Status EXCEPT ![r] = "done"]
    BY <2>1, StatusMoves DEF StatusOf
  <2>3. QED
    BY <1>2, <2>2 DEF Refuse, Answer, Store!Refuse
<1>3. ASSUME NEW r \in Requests, FailBeforeStatement(r) \/ FailStatement(r)
      PROVE  Store!Decline(r)
  BY <1>3, DeclineImplemented
  DEF FailBeforeStatement, FailStatement, Store!Justified
<1>4. ASSUME NEW r \in Requests, BeginStatement(r) \/ NoRows(r)
      PROVE  UNCHANGED Store!vars
  <2>1. PICK p \in {"stamped", "refind"} : phase' = [phase EXCEPT ![r] = p]
    BY <1>4 DEF BeginStatement, NoRows
  <2>2. StatusOf(p) = StatusOf(phase[r])
    BY <1>4, <2>1 DEF BeginStatement, NoRows, StatusOf
  <2>3. Status' = Status
    BY <2>1, <2>2, StatusMoves
  <2>4. QED
    BY <1>4, <2>3 DEF BeginStatement, NoRows, Store!vars
<1>5. CASE Tick \/ UNCHANGED vars
  BY <1>5 DEF Tick, vars, Store!vars, Status
<1>6. QED
  BY <1>1, <1>2, <1>3, <1>4, <1>5, FindImplemented, CommitImplemented,
     RefindImplemented DEF Next, Serve, Store!Next

(* The read-check-write handlers with optimistic versions behave as if     *)
(* every request were judged and applied in one atomic step (service.go    *)
(* and postgres_repository.go of internal/server/vault).                   *)
THEOREM VaultImplementsStore == Spec => ImplementsStore
<1>1. Init => Store!Init
  BY DEF Init, Store!Init, Status
<1>2. QED
  BY <1>1, StepImplemented, Invariance, PTL
  DEF Spec, Store!Spec, ImplementsStore

=============================================================================
