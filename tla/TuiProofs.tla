----------------------------- MODULE TuiProofs -----------------------------
(***************************************************************************)
(* Proofs about module Tui, for any users, items and versions: the program *)
(* runs one command at a time, its screen always has the state its keys    *)
(* use, nothing on it is of another user, and what it writes is what was   *)
(* on it.                                                                  *)
(***************************************************************************)
EXTENDS Tui, FiniteSetTheorems, TLAPS

(***************************************************************************)
(* The inductive invariant                                                 *)
(***************************************************************************)

(* What a secret on this terminal says of its row in rs: it is its user's, *)
(* and what it was as long as its version has not changed.                 *)
KnownIn(rs, s, user) ==
  /\ rs[s.id] # None
  /\ rs[s.id].owner = user
  /\ s.version <= rs[s.id].version
  /\ s.version = rs[s.id].version =>
       /\ s.type = rs[s.id].type
       /\ s.deleted = rs[s.id].deleted
       /\ s.readable = rs[s.id].readable

(* Everything the model holds, on the screen or off it.                    *)
Held ==
  /\ \A k \in 1 .. Len(secrets) : KnownIn(rows, secrets[k], session)
  /\ current # None => KnownIn(rows, current, session)
  /\ inputs.of # None => KnownIn(rows, inputs.of, session)

(* Keys are dropped exactly while there is a command, and there is one.    *)
OneCommand ==
  /\ busy = (inflight # {})
  /\ \A c, d \in inflight : c = d

(* The screens a command can be under way on; any of them may be left by   *)
(* quitting.                                                               *)
Origin(op) ==
  CASE op = "auth"                 -> {"auth", "quit"}
    [] op \in {"get", "sync"}      -> {"list", "quit"}
    [] op = "list"                 -> {"list", "detail", "quit"}
    [] op \in {"create", "update"} -> {"form", "quit"}
    [] op = "delete"               -> {"delete", "quit"}
    [] op = "save"                 -> {"save", "quit"}

(* What a request asks for is what was on its screen.                      *)
AskedFor(c) ==
  /\ c.op # "auth" => c.user = session /\ session # None
  /\ c.op = "delete" =>
       current # None /\ c.id = current.id /\ c.version = current.version
  /\ c.op \in {"create", "update"} =>
       /\ c.op = form.mode /\ c.type = form.kind /\ c.type \in Types
       /\ c.id = form.id /\ c.version = form.version

(* And an answer is of the vault of the user who asked.                    *)
AnsweredWith(c) ==
  /\ c.op = "auth" => c.user # None
  /\ c.op \in {"get", "create", "update"} =>
       c.got # None /\ KnownIn(rows, c.got, c.user)
  /\ c.op = "list" => \A k \in 1 .. Len(c.list) : KnownIn(rows, c.list[k], c.user)

CommandIs(c) ==
  /\ screen \in Origin(c.op)
  /\ c.status # "error" => AskedFor(c)
  /\ c.status = "ok" => AnsweredWith(c)

FormTarget ==
  /\ form.mode = "create" => inputs.of = None /\ form.id = None
  /\ form.mode = "update" => inputs.of # None /\ form = EditForm(inputs.of)

(* A program that has quit keeps the fields and the list it had.           *)
ScreenIs ==
  /\ focus < Count
  /\ selected < Len(secrets) \/ (selected = 0 /\ secrets = <<>>)
  /\ screen \in {"welcome", "auth"} => session = None /\ inputs.form = authMode
  /\ screen \notin {"welcome", "auth", "quit"} => session # None
  /\ screen \in {"detail", "delete", "save"} => current # None
  /\ screen \in {"detail", "save"} => shown = current
  /\ screen = "save" => current.type = "binary"
  /\ screen = "detail" /\ current.type = "otp" => ticks > 0
  /\ screen = "form" => inputs.form = form.kind /\ FormTarget

Existent == {i \in Ids : rows[i] # None}

TuiInv ==
  /\ TypeOK
  /\ OneCommand
  /\ ScreenIs
  /\ Held
  /\ \A c \in inflight : CommandIs(c)
  /\ IsFiniteSet(Existent)

----------------------------------------------------------------------------
(* Operators                                                               *)

LEMMA NoneIsOutside ==
  /\ None \notin Users /\ None \notin Ids
  /\ None \notin Secret /\ None \notin Row
BY TuiAssumption DEF Secret, Row

(* Every form has a field.                                                 *)
LEMMA FieldsCounted ==
  /\ Types \subseteq DOMAIN FieldCount
  /\ \A f \in DOMAIN FieldCount : FieldCount[f] \in Nat /\ FieldCount[f] > 0
  /\ {"login", "register", "save"} \subseteq DOMAIN FieldCount
BY TuiAssumption DEF FieldCount, SecretTypes

LEMMA ModIsBelow ==
  ASSUME NEW a \in Nat, NEW n \in Nat, n > 0
  PROVE  a % n \in Nat /\ a % n < n
OBVIOUS

(* A step that only adds rows and versions.                                *)
Grown(rs, after) ==
  \A i \in Ids :
    \/ after[i] = rs[i]
    \/ rs[i] = None
    \/ /\ after[i] # None /\ after[i].owner = rs[i].owner
       /\ rs[i].version < after[i].version

(* What is known of a row stays known while the vault grows.               *)
LEMMA KnownStays ==
  ASSUME NEW rs \in [Ids -> Row \cup {None}],
         NEW after \in [Ids -> Row \cup {None}],
         Grown(rs, after),
         NEW s \in Secret, NEW user, KnownIn(rs, s, user), user # None
  PROVE  KnownIn(after, s, user)
<1>1. s.id \in Ids /\ s.version \in Nat
  BY TuiAssumption DEF Secret
<1>2. rs[s.id] \in Row /\ after[s.id] \in Row \cup {None}
  BY <1>1 DEF KnownIn
<1>3. CASE after[s.id] = rs[s.id]
  BY <1>3 DEF KnownIn
<1>4. CASE /\ after[s.id] # None /\ after[s.id].owner = rs[s.id].owner
           /\ rs[s.id].version < after[s.id].version
  <2>1. rs[s.id].version \in Nat /\ after[s.id].version \in Nat
    BY <1>2, <1>4, TuiAssumption DEF Row
  <2>. QED BY <1>1, <1>4, <2>1 DEF KnownIn
<1>. QED BY <1>1, <1>3, <1>4 DEF Grown, KnownIn

LEMMA NobodyKnows ==
  ASSUME NEW rs \in [Ids -> Row \cup {None}], NEW s \in Secret
  PROVE  ~ KnownIn(rs, s, None)
<1>1. s.id \in Ids
  BY DEF Secret
<1>2. rs[s.id] # None => rs[s.id].owner \in Users
  BY <1>1 DEF Row
<1>. QED BY <1>2, NoneIsOutside DEF KnownIn

(* A row that is read is known.                                            *)
LEMMA RowIsKnown ==
  ASSUME rows \in [Ids -> Row \cup {None}], NEW i \in Ids, rows[i] # None
  PROVE  /\ SecretOf(i) \in Secret
         /\ KnownIn(rows, SecretOf(i), rows[i].owner)
<1>1. rows[i] \in Row
  OBVIOUS
<1>2. SecretOf(i) \in Secret
  BY <1>1 DEF Row, Secret, SecretOf
<1>3. rows[i].version \in Nat
  BY <1>1, TuiAssumption DEF Row
<1>4. KnownIn(rows, SecretOf(i), rows[i].owner)
  BY <1>3 DEF SecretOf, KnownIn
<1>. QED BY <1>2, <1>4

(* A secret that is known at its row's version is its row.                 *)
LEMMA KnownIsRow ==
  ASSUME NEW s \in Secret, NEW user, KnownIn(rows, s, user),
         s.version = rows[s.id].version
  PROVE  s = SecretOf(s.id)
BY DEF KnownIn, SecretOf, Secret

(* A write of one row.                                                     *)
LEMMA WriteGrows ==
  ASSUME TypeOK, IsFiniteSet(Existent), NEW i \in Ids, NEW row \in Row,
         Write(i, row),
         \/ rows[i] = None
         \/ rows[i].owner = row.owner /\ rows[i].version < row.version
  PROVE  /\ rows' \in [Ids -> Row \cup {None}]
         /\ older' \in [Ids -> SUBSET Ids]
         /\ rows'[i] = row
         /\ Grown(rows, rows')
         /\ IsFiniteSet(Existent)'
<1>1. /\ rows' \in [Ids -> Row \cup {None}]
      /\ rows'[i] = row
      /\ \A j \in Ids \ {i} : rows'[j] = rows[j]
  BY DEF TypeOK, Write
<1>2. older' \in [Ids -> SUBSET Ids]
  BY DEF TypeOK, Write
<1>3. Grown(rows, rows')
  BY <1>1, NoneIsOutside DEF Grown
<1>4. IsFiniteSet(Existent)'
  <2>1. Existent' \subseteq Existent \cup {i}
    BY <1>1 DEF Existent
  <2>2. IsFiniteSet(Existent \cup {i})
    BY FS_AddElement
  <2>. QED BY <2>1, <2>2, FS_Subset
<1>. QED BY <1>1, <1>2, <1>3, <1>4

(* The list of a user is a sequence of secrets known of that user.         *)
LEMMA ListIsKnown ==
  ASSUME TypeOK, IsFiniteSet(Existent), NEW user \in Users,
         NEW list \in LiveSecrets(user)
  PROVE  /\ list \in Seq(Secret)
         /\ \A k \in 1 .. Len(list) : KnownIn(rows, list[k], user)
<1>1. Live(user) \subseteq Existent
  BY DEF Live, Existent, Owns
<1>2. Cardinality(Live(user)) \in Nat
  BY <1>1, FS_Subset, FS_CardinalityType
<1>. DEFINE n == Cardinality(Live(user))
<1>3. PICK ids \in [1 .. n -> Live(user)] :
        list = [k \in 1 .. n |-> SecretOf(ids[k])]
  BY DEF LiveSecrets
<1>4. \A k \in 1 .. n : /\ ids[k] \in Ids
                        /\ rows[ids[k]] # None
                        /\ rows[ids[k]].owner = user
  BY <1>3 DEF Live, Owns
<1>5. \A k \in 1 .. n : /\ SecretOf(ids[k]) \in Secret
                        /\ KnownIn(rows, SecretOf(ids[k]), user)
  BY <1>4, RowIsKnown DEF TypeOK
<1>6. n \in Nat
  BY <1>2
<1>. HIDE DEF n
<1>7. list \in [1 .. n -> Secret]
  BY <1>3, <1>5
<1>8. list \in Seq(Secret) /\ Len(list) = n
  BY <1>6, <1>7
<1>. QED BY <1>3, <1>5, <1>8

----------------------------------------------------------------------------
(* The initial state                                                       *)

LEMMA InitInv == Init => TuiInv
<1>. SUFFICES ASSUME Init PROVE TuiInv
  OBVIOUS
<1>1. NewForm \in Form
  BY TuiAssumption DEF NewForm, Form
<1>2. TypeOK
  <2>1. inputs \in [form: DOMAIN FieldCount, of: Secret \cup {None}]
    BY FieldsCounted DEF Init, Fields
  <2>2. rows \in [Ids -> Row \cup {None}] /\ older \in [Ids -> SUBSET Ids]
    BY DEF Init
  <2>3. screen \in Screens /\ secrets \in Seq(Secret) /\ ticks \in 0 .. MaxTicks
    BY TuiAssumption DEF Init, Screens
  <2>. QED BY <1>1, <2>1, <2>2, <2>3 DEF Init, TypeOK
<1>3. OneCommand
  BY DEF Init, OneCommand
<1>4. ScreenIs
  BY FieldsCounted DEF Init, ScreenIs, Count, Fields
<1>5. Held
  BY DEF Init, Held, Fields
<1>6. IsFiniteSet(Existent)
  <2>1. Existent = {}
    BY DEF Init, Existent
  <2>. QED BY <2>1, FS_EmptySet
<1>. QED BY <1>2, <1>3, <1>4, <1>5, <1>6 DEF Init, TuiInv

----------------------------------------------------------------------------
(* What a step leaves alone                                                *)

(* A key whose handler starts no command: nothing is under way.            *)
LEMMA QuietKey ==
  ASSUME TuiInv, ~ busy, NoCommand, UNCHANGED server
  PROVE  /\ inflight = {} /\ inflight' = {}
         /\ OneCommand' /\ IsFiniteSet(Existent)'
         /\ \A c \in inflight' : CommandIs(c)'
<1>1. inflight = {} /\ inflight' = {}
  BY DEF TuiInv, OneCommand, NoCommand
<1>2. OneCommand'
  BY <1>1 DEF TuiInv, OneCommand, NoCommand
<1>3. Existent' = Existent
  BY DEF Existent, server
<1>. QED BY <1>1, <1>2, <1>3 DEF TuiInv

LEMMA ScreenStays ==
  ASSUME ScreenIs,
         UNCHANGED <<screen, authMode, inputs, focus, secrets, selected,
                     current, shown, form, session, ticks>>
  PROVE  ScreenIs'
BY DEF ScreenIs, FormTarget, Count

(* Held says nothing of the screen.                                        *)
LEMMA HeldStays ==
  ASSUME TypeOK, Held, rows' \in [Ids -> Row \cup {None}], Grown(rows, rows'),
         UNCHANGED <<secrets, current, inputs, session>>
  PROVE  Held'
<1>1. \A s \in Secret : KnownIn(rows, s, session) => KnownIn(rows', s, session)
  <2>. SUFFICES ASSUME NEW s \in Secret, KnownIn(rows, s, session)
                PROVE  KnownIn(rows', s, session)
    OBVIOUS
  <2>1. rows \in [Ids -> Row \cup {None}]
    BY DEF TypeOK
  <2>2. session # None
    BY <2>1, NobodyKnows
  <2>. QED BY <2>1, <2>2, KnownStays
<1>2. \A k \in 1 .. Len(secrets) : secrets[k] \in Secret
  BY DEF TypeOK
<1>3. /\ current # None => current \in Secret
      /\ inputs.of # None => inputs.of \in Secret
  BY DEF TypeOK
<1>. QED BY <1>1, <1>2, <1>3 DEF Held

LEMMA SameRowsGrown == UNCHANGED rows => Grown(rows, rows')
BY DEF Grown

(* A command and what is said of it, when nothing it depends on moves.     *)
LEMMA CommandStays ==
  ASSUME NEW c \in Command, CommandIs(c), screen' \in {screen, "quit"},
         UNCHANGED <<current, form, session, rows>>
  PROVE  CommandIs(c)'
<1>1. screen' \in Origin(c.op)
  <2>1. screen \in Origin(c.op)
    BY DEF CommandIs
  <2>2. \A op \in Ops : "quit" \in Origin(op)
    BY DEF Ops, Origin
  <2>3. c.op \in Ops
    BY DEF Command
  <2>. QED BY <2>1, <2>2, <2>3
<1>2. AskedFor(c) => AskedFor(c)'
  BY DEF AskedFor
<1>3. AnsweredWith(c) => AnsweredWith(c)'
  BY DEF AnsweredWith
<1>. QED BY <1>1, <1>2, <1>3 DEF CommandIs

----------------------------------------------------------------------------
(* Keys that start no command                                              *)

LEMMA Quiet ==
  ASSUME TuiInv, ~ busy, NoCommand, UNCHANGED server,
         TypeOK', ScreenIs', Held'
  PROVE  TuiInv'
BY QuietKey DEF TuiInv

LEMMA WelcomeEnterInv == TuiInv /\ WelcomeEnter => TuiInv'
<1>. SUFFICES ASSUME TuiInv, WelcomeEnter PROVE TuiInv'
  OBVIOUS
<1>1. TypeOK'
  BY DEF TuiInv, TypeOK, WelcomeEnter, Go, NoCommand, Screens, server
<1>2. ScreenIs'
  BY DEF TuiInv, ScreenIs, FormTarget, Count, WelcomeEnter, Key, Go
<1>3. Held'
  BY DEF TuiInv, Held, WelcomeEnter, server
<1>. QED BY <1>1, <1>2, <1>3, Quiet DEF WelcomeEnter, Key

LEMMA AuthModeInv ==
  ASSUME TuiInv, NEW mode \in {"login", "register"}, AuthMode(mode)
  PROVE  TuiInv'
<1>1. Fields(mode, None) \in [form: DOMAIN FieldCount, of: Secret \cup {None}]
  BY FieldsCounted DEF Fields, FieldCount
<1>2. TypeOK'
  BY <1>1 DEF TuiInv, TypeOK, AuthMode, NoCommand, server
<1>3. focus' < Count'
  <2>1. Count' = FieldCount[mode] /\ focus' = 0
    BY DEF AuthMode, Count, Fields
  <2>. QED BY <2>1 DEF FieldCount
<1>4. ScreenIs'
  BY <1>3 DEF TuiInv, ScreenIs, FormTarget, AuthMode, Key, Fields
<1>5. Held'
  BY DEF TuiInv, Held, AuthMode, Fields, server
<1>. QED BY <1>2, <1>4, <1>5, Quiet DEF AuthMode, Key

LEMMA MoveFocusInv == TuiInv /\ MoveFocus => TuiInv'
<1>. SUFFICES ASSUME TuiInv, MoveFocus PROVE TuiInv'
  OBVIOUS
<1>1. Count \in Nat /\ Count > 0 /\ focus \in Nat
  BY FieldsCounted DEF TuiInv, TypeOK, Count
<1>2. focus + 1 \in Nat /\ focus + Count - 1 \in Nat
  BY <1>1
<1>3. focus' \in Nat /\ focus' < Count
  BY <1>1, <1>2, ModIsBelow DEF MoveFocus
<1>4. Count' = Count
  BY DEF MoveFocus, Count
<1>5. TypeOK'
  BY <1>3 DEF TuiInv, TypeOK, MoveFocus, NoCommand, server
<1>6. ScreenIs'
  BY <1>3, <1>4 DEF TuiInv, ScreenIs, FormTarget, MoveFocus
<1>7. Held'
  BY DEF TuiInv, Held, MoveFocus, server
<1>. QED BY <1>5, <1>6, <1>7, Quiet DEF MoveFocus, Key

LEMMA ListQuitInv == TuiInv /\ ListQuit => TuiInv'
<1>. SUFFICES ASSUME TuiInv, ListQuit PROVE TuiInv'
  OBVIOUS
<1>1. Fields("login", None) \in [form: DOMAIN FieldCount, of: Secret \cup {None}]
  BY FieldsCounted DEF Fields, FieldCount
<1>2. NewForm \in Form
  BY TuiAssumption DEF NewForm, Form
<1>3. TypeOK'
  BY <1>1, <1>2
     DEF TuiInv, TypeOK, ListQuit, ResetToWelcome, Go, NoCommand, Screens, server
<1>4. focus' < Count'
  <2>1. Count' = FieldCount["login"] /\ focus' = 0
    BY DEF ListQuit, ResetToWelcome, Count, Fields
  <2>. QED BY <2>1 DEF FieldCount
<1>5. ScreenIs'
  BY <1>4 DEF ScreenIs, FormTarget, ListQuit, ResetToWelcome, Go, Fields
<1>6. Held'
  BY DEF Held, ListQuit, ResetToWelcome, Fields
<1>. QED BY <1>3, <1>5, <1>6, Quiet DEF ListQuit, Key

LEMMA ListMoveInv == TuiInv /\ ListMove => TuiInv'
<1>. SUFFICES ASSUME TuiInv, ListMove PROVE TuiInv'
  OBVIOUS
<1>1. selected \in Nat /\ Len(secrets) \in Nat
  BY DEF TuiInv, TypeOK
<1>2. selected' \in Nat /\ selected' < Len(secrets)
  BY <1>1 DEF TuiInv, ScreenIs, ListMove
<1>3. TypeOK'
  BY <1>2 DEF TuiInv, TypeOK, ListMove, NoCommand, server
<1>4. ScreenIs'
  BY <1>2 DEF TuiInv, ScreenIs, FormTarget, Count, ListMove
<1>5. Held'
  BY DEF TuiInv, Held, ListMove, server
<1>. QED BY <1>3, <1>4, <1>5, Quiet DEF ListMove, Key

LEMMA ListNewInv == TuiInv /\ ListNew => TuiInv'
<1>. SUFFICES ASSUME TuiInv, ListNew PROVE TuiInv'
  OBVIOUS
<1>1. TypeOK'
  BY DEF TuiInv, TypeOK, ListNew, Go, NoCommand, Screens, server
<1>2. ScreenIs'
  BY DEF TuiInv, ScreenIs, FormTarget, Count, ListNew, Key, Go
<1>3. Held'
  BY DEF TuiInv, Held, ListNew, server
<1>. QED BY <1>1, <1>2, <1>3, Quiet DEF ListNew, Key

(* The row that is highlighted is one of the list, of the user.            *)
LEMMA HighlightedIs ==
  ASSUME TuiInv, secrets # <<>>
  PROVE  /\ Highlighted \in Secret /\ Highlighted # None
         /\ KnownIn(rows, Highlighted, session)
<1>1. selected \in Nat /\ selected < Len(secrets) /\ Len(secrets) \in Nat
  BY DEF TuiInv, TypeOK, ScreenIs
<1>2. selected + 1 \in 1 .. Len(secrets)
  BY <1>1
<1>3. Highlighted \in Secret
  BY <1>2 DEF Highlighted, TuiInv, TypeOK
<1>. QED BY <1>2, <1>3, NoneIsOutside DEF Highlighted, TuiInv, Held

LEMMA ListDeleteInv == TuiInv /\ ListDelete => TuiInv'
<1>. SUFFICES ASSUME TuiInv, ListDelete PROVE TuiInv'
  OBVIOUS
<1>1. /\ Highlighted \in Secret /\ Highlighted # None
      /\ KnownIn(rows, Highlighted, session)
  BY HighlightedIs DEF ListDelete
<1>2. TypeOK'
  BY <1>1 DEF TuiInv, TypeOK, ListDelete, Go, NoCommand, Screens, server
<1>3. ScreenIs'
  BY <1>1 DEF TuiInv, ScreenIs, FormTarget, Count, ListDelete, Key, Go
<1>4. Held'
  BY <1>1 DEF TuiInv, Held, ListDelete, server
<1>. QED BY <1>2, <1>3, <1>4, Quiet DEF ListDelete, Key

(* Both keys that edit a secret.                                           *)
LEMMA UpdateFormInv ==
  ASSUME TuiInv, ~ busy, NoCommand, screen \in {"list", "detail"},
         NEW s \in Secret, KnownIn(rows, s, session), StartUpdateForm(s),
         UNCHANGED <<authMode, secrets, selected, current, shown, session,
                     ticks, server>>
  PROVE  TuiInv'
<1>1. s.type \in Types /\ s.id \in Ids /\ s.version \in 1 .. MaxVersion
  BY DEF Secret
<1>2. EditForm(s) \in Form
  BY <1>1, TuiAssumption DEF EditForm, Form
<1>3. s # None
  BY NoneIsOutside
<1>4. CASE s.readable
  <2>1. Fields(s.type, s) \in [form: DOMAIN FieldCount, of: Secret \cup {None}]
    BY <1>1, FieldsCounted DEF Fields
  <2>2. /\ form' = EditForm(s) /\ inputs' = Fields(s.type, s)
        /\ focus' = 0 /\ screen' = "form"
    BY <1>4 DEF StartUpdateForm, Go
  <2>3. TypeOK'
    BY <1>2, <2>1, <2>2 DEF TuiInv, TypeOK, NoCommand, Screens, server
  <2>4. focus' < Count'
    <3>1. Count' = FieldCount[s.type]
      BY <2>2 DEF Count, Fields
    <3>. QED BY <1>1, <2>2, <3>1, FieldsCounted
  <2>5. (inputs.form = form.kind /\ FormTarget)'
    BY <1>3, <2>2 DEF FormTarget, EditForm, Fields
  <2>6. ScreenIs'
    BY <2>2, <2>4, <2>5 DEF TuiInv, ScreenIs
  <2>7. Held'
    BY <2>2 DEF TuiInv, Held, Fields, server
  <2>. QED BY <2>3, <2>6, <2>7, Quiet
<1>5. CASE ~ s.readable
  <2>1. form' = EditForm(s) /\ UNCHANGED <<inputs, focus, screen>>
    BY <1>5 DEF StartUpdateForm
  <2>2. TypeOK'
    BY <1>2, <2>1 DEF TuiInv, TypeOK, NoCommand, server
  <2>3. ScreenIs'
    BY <2>1 DEF TuiInv, ScreenIs, Count
  <2>4. Held'
    BY <2>1 DEF TuiInv, Held, server
  <2>. QED BY <2>2, <2>3, <2>4, Quiet
<1>. QED BY <1>4, <1>5

LEMMA ListUpdateInv == TuiInv /\ ListUpdate => TuiInv'
BY HighlightedIs, UpdateFormInv DEF ListUpdate, Key

LEMMA DetailUpdateInv == TuiInv /\ DetailUpdate => TuiInv'
<1>. SUFFICES ASSUME TuiInv, DetailUpdate PROVE TuiInv'
  OBVIOUS
<1>1. current \in Secret /\ KnownIn(rows, current, session)
  BY DEF DetailUpdate, TuiInv, TypeOK, Held
<1>. QED BY <1>1, UpdateFormInv DEF DetailUpdate, Key

LEMMA DetailDeleteInv == TuiInv /\ DetailDelete => TuiInv'
<1>. SUFFICES ASSUME TuiInv, DetailDelete PROVE TuiInv'
  OBVIOUS
<1>1. TypeOK'
  BY DEF TuiInv, TypeOK, DetailDelete, Go, NoCommand, Screens, server
<1>2. ScreenIs'
  BY DEF TuiInv, ScreenIs, FormTarget, Count, DetailDelete, Key, Go
<1>3. Held'
  BY DEF TuiInv, Held, DetailDelete, server
<1>. QED BY <1>1, <1>2, <1>3, Quiet DEF DetailDelete, Key

LEMMA DetailSaveInv == TuiInv /\ DetailSave => TuiInv'
<1>. SUFFICES ASSUME TuiInv, DetailSave PROVE TuiInv'
  OBVIOUS
<1>1. Fields("save", None) \in [form: DOMAIN FieldCount, of: Secret \cup {None}]
  BY FieldsCounted DEF Fields, FieldCount
<1>2. TypeOK'
  BY <1>1 DEF TuiInv, TypeOK, DetailSave, Go, NoCommand, Screens, server
<1>3. focus' < Count'
  <2>1. Count' = FieldCount["save"] /\ focus' = 0
    BY DEF DetailSave, Count, Fields
  <2>. QED BY <2>1 DEF FieldCount
<1>4. ScreenIs'
  BY <1>3 DEF TuiInv, ScreenIs, FormTarget, DetailSave, Key, Go
<1>5. Held'
  BY DEF TuiInv, Held, DetailSave, Fields, server
<1>. QED BY <1>2, <1>4, <1>5, Quiet DEF DetailSave, Key

LEMMA BackToListInv == TuiInv /\ BackToList => TuiInv'
<1>. SUFFICES ASSUME TuiInv, BackToList PROVE TuiInv'
  OBVIOUS
<1>1. screen \in {"detail", "type", "form", "delete"} /\ ~ busy
  BY DEF BackToList, Key
<1>2. TypeOK'
  BY DEF TuiInv, TypeOK, BackToList, Go, NoCommand, Screens, server
<1>3. ScreenIs'
  BY <1>1 DEF TuiInv, ScreenIs, FormTarget, Count, BackToList, Go
<1>4. Held'
  BY DEF TuiInv, Held, BackToList, server
<1>. QED BY <1>1, <1>2, <1>3, <1>4, Quiet DEF BackToList

LEMMA TypeChosenInv == TuiInv /\ TypeChosen => TuiInv'
<1>. SUFFICES ASSUME TuiInv, TypeChosen PROVE TuiInv'
  OBVIOUS
<1>1. PICK kind \in Types : StartCreateForm(kind)
  BY DEF TypeChosen
<1>2. /\ form' = [mode |-> "create", kind |-> kind, id |-> None, version |-> 0]
      /\ inputs' = Fields(kind, None) /\ focus' = 0 /\ screen' = "form"
  BY <1>1 DEF StartCreateForm, NewForm, Go
<1>3. form' \in Form
  BY <1>2, TuiAssumption DEF Form
<1>4. inputs' \in [form: DOMAIN FieldCount, of: Secret \cup {None}]
  BY <1>2, FieldsCounted DEF Fields
<1>5. TypeOK'
  BY <1>2, <1>3, <1>4 DEF TuiInv, TypeOK, TypeChosen, NoCommand, Screens, server
<1>6. focus' < Count'
  <2>1. Count' = FieldCount[kind]
    BY <1>2 DEF Count, Fields
  <2>. QED BY <1>2, <2>1, FieldsCounted
<1>7. (inputs.form = form.kind /\ FormTarget)'
  BY <1>2 DEF FormTarget, Fields
<1>8. ScreenIs'
  BY <1>2, <1>6, <1>7 DEF TuiInv, ScreenIs, TypeChosen, Key
<1>9. Held'
  BY <1>2 DEF TuiInv, Held, TypeChosen, Fields, server
<1>. QED BY <1>5, <1>8, <1>9, Quiet DEF TypeChosen, Key

LEMMA SaveCancelInv == TuiInv /\ SaveCancel => TuiInv'
<1>. SUFFICES ASSUME TuiInv, SaveCancel PROVE TuiInv'
  OBVIOUS
<1>1. TypeOK'
  BY DEF TuiInv, TypeOK, SaveCancel, Go, NoCommand, Screens, server
<1>2. ScreenIs'
  BY DEF TuiInv, ScreenIs, FormTarget, Count, SaveCancel, Key, Go
<1>3. Held'
  BY DEF TuiInv, Held, SaveCancel, server
<1>. QED BY <1>1, <1>2, <1>3, Quiet DEF SaveCancel, Key

LEMMA QuitInv == TuiInv /\ Quit => TuiInv'
<1>. SUFFICES ASSUME TuiInv, Quit PROVE TuiInv'
  OBVIOUS
<1>1. TypeOK'
  BY DEF TuiInv, TypeOK, Quit, Go, Screens, server
<1>2. ScreenIs'
  BY DEF TuiInv, ScreenIs, Count, Quit, Go
<1>3. Held' /\ OneCommand' /\ Existent' = Existent
  BY DEF TuiInv, Held, OneCommand, Existent, Quit, server
<1>4. \A c \in inflight' : CommandIs(c)'
  BY CommandStays DEF TuiInv, TypeOK, Quit, Go, server
<1>. QED BY <1>1, <1>2, <1>3, <1>4 DEF TuiInv

LEMMA TickInv == TuiInv /\ Tick => TuiInv'
<1>. SUFFICES ASSUME TuiInv, Tick PROVE TuiInv'
  OBVIOUS
<1>1. ticks \in Nat /\ ticks > 0 /\ MaxTicks \in Nat
  BY TuiAssumption DEF TuiInv, TypeOK, Tick
<1>2. ticks' \in 0 .. MaxTicks
  <2>1. ticks - 1 \in 0 .. MaxTicks
    BY <1>1 DEF TuiInv, TypeOK
  <2>. QED BY <2>1 DEF Tick, TuiInv, TypeOK
<1>3. TypeOK'
  BY <1>2 DEF TuiInv, TypeOK, Tick, server
<1>4. ScreenIs'
  BY <1>1 DEF TuiInv, ScreenIs, FormTarget, Count, Tick, OtpShown
<1>5. Held' /\ OneCommand' /\ Existent' = Existent
  BY DEF TuiInv, Held, OneCommand, Existent, Tick, server
<1>6. \A c \in inflight' : CommandIs(c)'
  BY CommandStays DEF TuiInv, TypeOK, Tick, server
<1>. QED BY <1>3, <1>4, <1>5, <1>6 DEF TuiInv

----------------------------------------------------------------------------
(* Keys that start a command                                               *)

LEMMA AskIsCommand ==
  ASSUME NEW op \in Ops, NEW user \in Users \cup {None},
         NEW id \in Ids \cup {None}, NEW version \in 0 .. MaxVersion,
         NEW type \in Types \cup {"none"}
  PROVE  Ask(op, user, id, version, type) \in Command
BY DEF Ask, Command

(* A command that has failed already says nothing but its screen.          *)
LEMMA RefusedIs ==
  ASSUME NEW op \in Ops, screen \in Origin(op)
  PROVE  Refused(op) \in Command /\ CommandIs(Refused(op))
<1>1. Ask(op, None, None, 0, "none") \in Command
  BY AskIsCommand, TuiAssumption
<1>2. Refused(op) \in Command
  BY <1>1 DEF Refused, Command
<1>3. Refused(op).op = op /\ Refused(op).status = "error"
  BY DEF Refused, Ask
<1>. QED BY <1>2, <1>3 DEF CommandIs

(* A request that was sent is that of the screen.                          *)
LEMMA AskIs ==
  ASSUME NEW op \in Ops, NEW user \in Users \cup {None},
         NEW id \in Ids \cup {None}, NEW version \in 0 .. MaxVersion,
         NEW type \in Types \cup {"none"},
         screen \in Origin(op), AskedFor(Ask(op, user, id, version, type))
  PROVE  CommandIs(Ask(op, user, id, version, type))
<1>1. /\ Ask(op, user, id, version, type).op = op
      /\ Ask(op, user, id, version, type).status = "sent"
  BY DEF Ask
<1>. QED BY <1>1 DEF CommandIs

LEMMA StartInv ==
  ASSUME TuiInv, ~ busy, NEW cmd \in Command, Start(cmd), CommandIs(cmd),
         UNCHANGED <<screen, authMode, inputs, focus, secrets, selected,
                     current, shown, form, session, ticks, server>>
  PROVE  TuiInv'
<1>1. inflight' = {cmd} /\ busy' = TRUE
  BY DEF TuiInv, OneCommand, Start
<1>2. TypeOK'
  BY <1>1 DEF TuiInv, TypeOK, server
<1>3. OneCommand'
  BY <1>1 DEF OneCommand
<1>4. ScreenIs'
  BY ScreenStays DEF TuiInv
<1>5. Held' /\ Existent' = Existent
  BY DEF TuiInv, Held, Existent, server
<1>6. CommandIs(cmd)'
  BY CommandStays DEF server
<1>. QED BY <1>1, <1>2, <1>3, <1>4, <1>5, <1>6 DEF TuiInv

LEMMA SubmitAuthInv == TuiInv /\ SubmitAuth => TuiInv'
<1>. SUFFICES ASSUME TuiInv, SubmitAuth PROVE TuiInv'
  OBVIOUS
<1>1. screen = "auth" /\ ~ busy /\ screen \in Origin("auth") /\ "auth" \in Ops
  BY DEF SubmitAuth, Key, Origin, Ops
<1>2. CASE Start(Ask("auth", None, None, 0, "none"))
  <2>1. Ask("auth", None, None, 0, "none") \in Command
    BY <1>1, AskIsCommand, TuiAssumption
  <2>2. AskedFor(Ask("auth", None, None, 0, "none"))
    BY DEF Ask, AskedFor
  <2>3. CommandIs(Ask("auth", None, None, 0, "none"))
    BY <1>1, <2>2, AskIs, TuiAssumption
  <2>. QED BY <1>1, <1>2, <2>1, <2>3, StartInv DEF SubmitAuth
<1>3. CASE Start(Refused("auth"))
  BY <1>1, <1>3, RefusedIs, StartInv DEF SubmitAuth
<1>. QED BY <1>2, <1>3 DEF SubmitAuth

(* A request to the vault, with a session open.                            *)
LEMMA StartVaultInv ==
  ASSUME TuiInv, ~ busy, NEW op \in Ops \ {"auth"}, screen \in Origin(op),
         screen \notin {"welcome", "auth", "quit"},
         NEW id \in Ids \cup {None}, NEW version \in 0 .. MaxVersion,
         NEW type \in Types \cup {"none"},
         op = "delete" => /\ current # None
                          /\ id = current.id /\ version = current.version,
         op \in {"create", "update"} =>
           /\ op = form.mode /\ type = form.kind /\ type \in Types
           /\ id = form.id /\ version = form.version,
         StartVault(op, id, version, type),
         UNCHANGED <<screen, authMode, inputs, focus, secrets, selected,
                     current, shown, form, session, ticks, server>>
  PROVE  TuiInv'
<1>. DEFINE cmd == Ask(op, session, id, version, type)
<1>1. session \in Users \cup {None} /\ session # None
  BY DEF TuiInv, TypeOK, ScreenIs
<1>2. Start(cmd)
  BY <1>1 DEF StartVault, VaultCommand
<1>3. cmd \in Command
  BY <1>1, AskIsCommand
<1>4. AskedFor(cmd)
  BY <1>1 DEF Ask, AskedFor
<1>5. CommandIs(cmd)
  BY <1>1, <1>4, AskIs
<1>. HIDE DEF cmd
<1>. QED BY <1>2, <1>3, <1>5, StartInv

LEMMA ListRefreshInv == TuiInv /\ ListRefresh => TuiInv'
<1>. SUFFICES ASSUME TuiInv, ListRefresh PROVE TuiInv'
  OBVIOUS
<1>1. PICK op \in {"list", "sync"} : StartVault(op, None, 0, "none")
  BY DEF ListRefresh
<1>2. op \in Ops \ {"auth"} /\ screen \in Origin(op) /\ 0 \in 0 .. MaxVersion
  BY TuiAssumption DEF ListRefresh, Key, Origin, Ops
<1>3. screen = "list" /\ ~ busy
  BY DEF ListRefresh, Key
<1>. QED BY <1>1, <1>2, <1>3, StartVaultInv DEF ListRefresh

LEMMA ListOpenInv == TuiInv /\ ListOpen => TuiInv'
<1>. SUFFICES ASSUME TuiInv, ListOpen PROVE TuiInv'
  OBVIOUS
<1>1. Highlighted.id \in Ids /\ 0 \in 0 .. MaxVersion
  BY HighlightedIs, TuiAssumption DEF ListOpen, Secret
<1>2. /\ screen = "list" /\ ~ busy
      /\ "get" \in Ops \ {"auth"} /\ screen \in Origin("get")
  BY DEF ListOpen, Key, Origin, Ops
<1>3. StartVault("get", Highlighted.id, 0, "none")
  BY DEF ListOpen
<1>. QED BY <1>1, <1>2, <1>3, StartVaultInv DEF ListOpen

LEMMA SubmitFormInv == TuiInv /\ SubmitForm => TuiInv'
<1>. SUFFICES ASSUME TuiInv, SubmitForm PROVE TuiInv'
  OBVIOUS
<1>1. screen = "form" /\ ~ busy
  BY DEF SubmitForm, Key
<1>2. /\ form.mode \in {"create", "update"} /\ form.kind \in Types \cup {"none"}
      /\ form.id \in Ids \cup {None} /\ form.version \in 0 .. MaxVersion
  BY DEF TuiInv, TypeOK, Form
<1>3. form.kind \in Types
  <2>1. form.kind = inputs.form /\ inputs.form \in DOMAIN FieldCount
    BY <1>1 DEF TuiInv, ScreenIs, TypeOK
  <2>2. "none" \notin DOMAIN FieldCount
    BY DEF FieldCount
  <2>. QED BY <1>2, <2>1, <2>2
<1>4. form.mode \in Ops \ {"auth"} /\ screen \in Origin(form.mode)
  BY <1>1, <1>2 DEF Origin, Ops
<1>5. CASE StartVault(form.mode, form.id, form.version, form.kind)
  <2>. DEFINE op == form.mode
  <2>1. op # "delete"
    BY <1>2
  <2>. QED BY <1>1, <1>2, <1>3, <1>4, <1>5, <2>1, StartVaultInv DEF SubmitForm
<1>6. CASE Start(Refused(form.mode))
  BY <1>1, <1>4, <1>6, RefusedIs, StartInv DEF SubmitForm
<1>. QED BY <1>5, <1>6 DEF SubmitForm

LEMMA ConfirmDeleteInv == TuiInv /\ ConfirmDelete => TuiInv'
<1>. SUFFICES ASSUME TuiInv, ConfirmDelete PROVE TuiInv'
  OBVIOUS
<1>1. current # None /\ current \in Secret
  BY DEF ConfirmDelete, TuiInv, TypeOK
<1>2. current.id \in Ids /\ current.version \in 0 .. MaxVersion
  BY <1>1, TuiAssumption DEF Secret
<1>3. /\ screen = "delete" /\ ~ busy
      /\ "delete" \in Ops \ {"auth"} /\ screen \in Origin("delete")
  BY DEF ConfirmDelete, Key, Origin, Ops
<1>4. StartVault("delete", current.id, current.version, "none")
  BY DEF ConfirmDelete
<1>. QED BY <1>1, <1>2, <1>3, <1>4, StartVaultInv DEF ConfirmDelete

LEMMA SaveBinaryInv == TuiInv /\ SaveBinary => TuiInv'
<1>. SUFFICES ASSUME TuiInv, SaveBinary PROVE TuiInv'
  OBVIOUS
<1>1. current.id \in Ids /\ 0 \in 0 .. MaxVersion
  BY TuiAssumption DEF SaveBinary, TuiInv, TypeOK, Secret
<1>2. /\ screen = "save" /\ ~ busy
      /\ "save" \in Ops \ {"auth"} /\ screen \in Origin("save")
  BY DEF SaveBinary, Key, Origin, Ops
<1>3. StartVault("save", current.id, 0, "none")
  BY DEF SaveBinary
<1>. QED BY <1>1, <1>2, <1>3, StartVaultInv DEF SaveBinary

----------------------------------------------------------------------------
(* The service                                                             *)

LEMMA AloneInFlight ==
  ASSUME TuiInv, NEW c \in inflight
  PROVE  /\ inflight = {c} /\ busy = TRUE
         /\ c \in Command /\ CommandIs(c)
BY DEF TuiInv, TypeOK, OneCommand

(* An answer to the command under way, beside what it did to the rows.     *)
LEMMA AnswerInv ==
  ASSUME TuiInv, NEW c \in inflight, NEW answer \in Command,
         Answered(c, answer), UNCHANGED ui,
         rows' \in [Ids -> Row \cup {None}], older' \in [Ids -> SUBSET Ids],
         Grown(rows, rows'), IsFiniteSet(Existent)',
         answer.op = c.op,
         answer.status # "error" => AskedFor(answer),
         answer.status = "ok" => AnsweredWith(answer)'
  PROVE  TuiInv'
<1>1. /\ inflight' = {answer} /\ busy' = TRUE
      /\ CommandIs(c)
  BY AloneInFlight DEF Answered, ui
<1>2. TypeOK'
  BY <1>1 DEF TuiInv, TypeOK, ui
<1>3. OneCommand'
  BY <1>1 DEF OneCommand
<1>4. ScreenIs'
  BY ScreenStays DEF TuiInv, ui
<1>5. Held'
  BY HeldStays DEF TuiInv, ui
<1>6. CommandIs(answer)'
  <2>1. screen' \in Origin(answer.op)
    BY <1>1 DEF CommandIs, ui
  <2>2. AskedFor(answer) => AskedFor(answer)'
    BY DEF AskedFor, ui
  <2>. QED BY <2>1, <2>2 DEF CommandIs
<1>. QED BY <1>1, <1>2, <1>3, <1>4, <1>5, <1>6 DEF TuiInv

(* Two commands that ask for the same.                                     *)
LEMMA SameRequest ==
  ASSUME NEW c, NEW d, AskedFor(c),
         d.op = c.op, d.user = c.user, d.id = c.id, d.version = c.version,
         d.type = c.type
  PROVE  AskedFor(d)
BY DEF AskedFor

(* Every error is the request with its status.                             *)
LEMMA ErrorIs ==
  ASSUME NEW c \in Command
  PROVE  LET e == [c EXCEPT !.status = "error"] IN
         e \in Command /\ e.op = c.op /\ e.status = "error"
BY DEF Command

LEMMA OkIs ==
  ASSUME NEW c \in Command
  PROVE  LET a == [c EXCEPT !.status = "ok"] IN
         /\ a \in Command /\ a.status = "ok" /\ a.op = c.op /\ a.user = c.user
         /\ a.id = c.id /\ a.version = c.version /\ a.type = c.type
BY DEF Command

LEMMA OkGotIs ==
  ASSUME NEW c \in Command, NEW s \in Secret
  PROVE  LET a == [c EXCEPT !.status = "ok", !.got = s] IN
         /\ a \in Command /\ a.status = "ok" /\ a.op = c.op /\ a.user = c.user
         /\ a.id = c.id /\ a.version = c.version /\ a.type = c.type
         /\ a.got = s
BY DEF Command

LEMMA OkListIs ==
  ASSUME NEW c \in Command, NEW list \in Seq(Secret)
  PROVE  LET a == [c EXCEPT !.status = "ok", !.list = list] IN
         /\ a \in Command /\ a.status = "ok" /\ a.op = c.op /\ a.user = c.user
         /\ a.id = c.id /\ a.version = c.version /\ a.type = c.type
         /\ a.list = list
BY DEF Command

(* What every request that is served finds.                                *)
Sent(c) == c \in inflight /\ c.status = "sent" /\ UNCHANGED ui

LEMMA SentIs ==
  ASSUME TuiInv, NEW c, Sent(c)
  PROVE  /\ c \in inflight /\ c \in Command /\ AskedFor(c) /\ UNCHANGED ui
         /\ c.op # "auth" => c.user \in Users /\ c.user = session
<1>1. c \in inflight /\ c \in Command /\ CommandIs(c) /\ c.status = "sent"
  BY AloneInFlight DEF Sent
<1>2. AskedFor(c)
  BY <1>1 DEF CommandIs
<1>3. c.user \in Users \cup {None}
  BY <1>1 DEF Command
<1>. QED BY <1>1, <1>2, <1>3 DEF AskedFor, Sent

LEMMA RowsUntouched ==
  ASSUME TuiInv, UNCHANGED server
  PROVE  /\ rows' \in [Ids -> Row \cup {None}]
         /\ older' \in [Ids -> SUBSET Ids]
         /\ Grown(rows, rows') /\ IsFiniteSet(Existent)'
<1>1. Existent' = Existent
  BY DEF Existent, server
<1>. QED BY <1>1, SameRowsGrown DEF TuiInv, TypeOK, server

LEMMA FailInv ==
  ASSUME TuiInv, NEW c, Sent(c), Fail(c)
  PROVE  TuiInv'
<1>. DEFINE e == [c EXCEPT !.status = "error"]
<1>1. e \in Command /\ e.op = c.op /\ e.status = "error"
  BY SentIs, ErrorIs
<1>2. Answered(c, e) /\ UNCHANGED server
  BY DEF Fail
<1>. HIDE DEF e
<1>. QED BY <1>1, <1>2, SentIs, RowsUntouched, AnswerInv

LEMMA ServeAuthInv ==
  ASSUME TuiInv, NEW c, Sent(c), ServeAuth(c)
  PROVE  TuiInv'
<1>1. PICK u \in Users : Answered(c, [c EXCEPT !.status = "ok", !.user = u])
  BY DEF ServeAuth
<1>. DEFINE a == [c EXCEPT !.status = "ok", !.user = u]
<1>2. a \in Command /\ a.op = "auth" /\ c.op = "auth" /\ a.user = u
  <2>1. c \in Command /\ c.op = "auth"
    BY SentIs DEF ServeAuth
  <2>. QED BY <2>1 DEF Command
<1>. HIDE DEF a
<1>3. AskedFor(a)
  BY <1>2 DEF AskedFor
<1>4. AnsweredWith(a)'
  BY <1>2, NoneIsOutside DEF AnsweredWith
<1>5. Answered(c, a)
  BY <1>1 DEF a
<1>. QED BY <1>2, <1>3, <1>4, <1>5, SentIs, RowsUntouched, AnswerInv DEF ServeAuth

LEMMA ServeListInv ==
  ASSUME TuiInv, NEW c, Sent(c), ServeList(c)
  PROVE  TuiInv'
<1>1. PICK list \in LiveSecrets(c.user) :
        Answered(c, [c EXCEPT !.status = "ok", !.list = list])
  BY DEF ServeList
<1>2. c.op = "list" /\ c.user \in Users
  BY SentIs DEF ServeList
<1>3. /\ list \in Seq(Secret)
      /\ \A k \in 1 .. Len(list) : KnownIn(rows, list[k], c.user)
  BY <1>2, ListIsKnown DEF TuiInv
<1>. DEFINE a == [c EXCEPT !.status = "ok", !.list = list]
<1>4. /\ a \in Command /\ a.op = c.op /\ a.user = c.user /\ a.list = list
      /\ a.id = c.id /\ a.version = c.version /\ a.type = c.type
  BY <1>3, SentIs, OkListIs
<1>. HIDE DEF a
<1>5. AskedFor(a)
  BY <1>4, SentIs, SameRequest
<1>6. AnsweredWith(a)'
  BY <1>2, <1>3, <1>4 DEF AnsweredWith, ServeList, server
<1>7. Answered(c, a)
  BY <1>1 DEF a
<1>. QED BY <1>4, <1>5, <1>6, <1>7, SentIs, RowsUntouched, AnswerInv DEF ServeList

LEMMA ServeGetInv ==
  ASSUME TuiInv, NEW c, Sent(c), ServeGet(c)
  PROVE  TuiInv'
<1>1. /\ c.op = "get" /\ c.id \in Ids /\ rows[c.id] # None
      /\ rows[c.id].owner = c.user
  BY SentIs DEF ServeGet, Owns, Command
<1>2. PICK s \in Secret : s = SecretOf(c.id) /\ KnownIn(rows, s, c.user)
  BY <1>1, RowIsKnown DEF TuiInv, TypeOK
<1>. DEFINE a == [c EXCEPT !.status = "ok", !.got = s]
<1>3. /\ a \in Command /\ a.op = c.op /\ a.user = c.user /\ a.got = s
      /\ a.id = c.id /\ a.version = c.version /\ a.type = c.type
  BY SentIs, OkGotIs
<1>4. Answered(c, a) /\ rows' = rows
  BY <1>2 DEF ServeGet, server
<1>. HIDE DEF a
<1>5. AskedFor(a)
  BY <1>3, SentIs, SameRequest
<1>6. AnsweredWith(a)'
  BY <1>1, <1>2, <1>3, <1>4, NoneIsOutside DEF AnsweredWith
<1>. QED BY <1>3, <1>4, <1>5, <1>6, SentIs, RowsUntouched, AnswerInv DEF ServeGet

LEMMA ServeOtherInv ==
  ASSUME TuiInv, NEW c, Sent(c), ServeOther(c)
  PROVE  TuiInv'
<1>. DEFINE a == [c EXCEPT !.status = "ok"]
<1>1. /\ a \in Command /\ a.op = c.op /\ a.user = c.user
      /\ a.id = c.id /\ a.version = c.version /\ a.type = c.type
  BY SentIs, OkIs
<1>2. Answered(c, a) /\ c.op \in {"sync", "save"}
  BY DEF ServeOther
<1>. HIDE DEF a
<1>3. AskedFor(a)
  BY <1>1, SentIs, SameRequest
<1>4. AnsweredWith(a)'
  BY <1>1, <1>2 DEF AnsweredWith
<1>. QED BY <1>1, <1>2, <1>3, <1>4, SentIs, RowsUntouched, AnswerInv DEF ServeOther

(* The service answers a write, or the answer is lost.                     *)
LEMMA WrittenInv ==
  ASSUME TuiInv, NEW c, Sent(c), NEW a \in Command, OkOrLost(c, a),
         a.status = "ok", a.op = c.op, a.user = c.user, a.id = c.id,
         a.version = c.version, a.type = c.type,
         AnsweredWith(a)',
         rows' \in [Ids -> Row \cup {None}], older' \in [Ids -> SUBSET Ids],
         Grown(rows, rows'), IsFiniteSet(Existent)'
  PROVE  TuiInv'
<1>1. CASE Answered(c, a)
  <2>1. AskedFor(a)
    BY SentIs, SameRequest
  <2>. QED BY <1>1, <2>1, SentIs, AnswerInv
<1>2. CASE Answered(c, [c EXCEPT !.status = "error"])
  <2>. DEFINE e == [c EXCEPT !.status = "error"]
  <2>1. e \in Command /\ e.op = c.op /\ e.status = "error"
    BY SentIs, ErrorIs
  <2>2. Answered(c, e)
    BY <1>2
  <2>. HIDE DEF e
  <2>. QED BY <2>1, <2>2, SentIs, AnswerInv
<1>. QED BY <1>1, <1>2 DEF OkOrLost

LEMMA FirstRow ==
  ASSUME NEW user \in Users, NEW type \in Types, NEW readable \in BOOLEAN
  PROVE  [owner |-> user, type |-> type, version |-> 1, deleted |-> FALSE,
          readable |-> readable] \in Row
BY TuiAssumption DEF Row

LEMMA NextVersion ==
  ASSUME NEW v \in 1 .. MaxVersion, v < MaxVersion
  PROVE  v + 1 \in 1 .. MaxVersion /\ v < v + 1
BY TuiAssumption

LEMMA ServeCreateInv ==
  ASSUME TuiInv, NEW c, Sent(c), ServeCreate(c)
  PROVE  TuiInv'
<1>1. /\ c.op = "create" /\ c.user \in Users /\ c.type \in Types
      /\ c \in Command
  BY SentIs DEF ServeCreate, AskedFor
<1>. DEFINE row == [owner |-> c.user, type |-> c.type, version |-> 1,
                    deleted |-> FALSE, readable |-> TRUE]
            secret(i) == [id |-> i, type |-> c.type, version |-> 1,
                          deleted |-> FALSE, readable |-> TRUE]
<1>2. PICK i \in Ids :
        /\ rows[i] = None
        /\ Write(i, row)
        /\ OkOrLost(c, [c EXCEPT !.status = "ok", !.got = secret(i)])
  BY DEF ServeCreate
<1>3. row \in Row
  BY <1>1, FirstRow
<1>4. /\ rows' \in [Ids -> Row \cup {None}] /\ older' \in [Ids -> SUBSET Ids]
      /\ rows'[i] = row
      /\ Grown(rows, rows') /\ IsFiniteSet(Existent)'
  BY <1>2, <1>3, WriteGrows DEF TuiInv
<1>5. PICK s \in Secret : s = secret(i)
  <2>1. 1 \in 1 .. MaxVersion
    BY TuiAssumption
  <2>2. secret(i) \in Secret
    BY <1>1, <2>1 DEF Secret
  <2>. QED BY <2>2
<1>6. KnownIn(rows', s, c.user)
  <2>1. s.id = i /\ s.version = 1 /\ s.type = c.type /\ s.deleted = FALSE
        /\ s.readable = TRUE
    BY <1>5
  <2>2. /\ row.owner = c.user /\ row.version = 1 /\ row.type = c.type
        /\ row.deleted = FALSE /\ row.readable = TRUE /\ row # None
    BY <1>3, NoneIsOutside
  <2>3. s.version <= row.version
    BY <2>1, <2>2
  <2>. HIDE DEF row, secret
  <2>4. rows'[s.id] = row
    BY <1>4, <2>1
  <2>. QED BY <2>1, <2>2, <2>3, <2>4, Zenon DEF KnownIn
<1>7. OkOrLost(c, [c EXCEPT !.status = "ok", !.got = s])
  BY <1>2, <1>5
<1>. HIDE DEF row, secret
<1>. DEFINE a == [c EXCEPT !.status = "ok", !.got = s]
<1>8. /\ a \in Command /\ a.status = "ok" /\ a.op = c.op /\ a.user = c.user
      /\ a.id = c.id /\ a.version = c.version /\ a.type = c.type /\ a.got = s
  BY <1>1, OkGotIs
<1>. HIDE DEF a
<1>9. AnsweredWith(a)'
  BY <1>1, <1>6, <1>8, NoneIsOutside DEF AnsweredWith
<1>10. OkOrLost(c, a)
  BY <1>7 DEF a
<1>. QED BY <1>4, <1>8, <1>9, <1>10, WrittenInv

(* The row that an update or a delete matches.                             *)
LEMMA MatchedRow ==
  ASSUME TuiInv, NEW c, Sent(c), Matches(c)
  PROVE  /\ c.id \in Ids /\ rows[c.id] \in Row /\ rows[c.id].owner = c.user
         /\ rows[c.id].version = c.version /\ ~ rows[c.id].deleted
         /\ rows[c.id].version \in 1 .. MaxVersion
<1>1. c \in Command
  BY SentIs
<1>2. c.id \in Ids /\ rows[c.id] # None
  BY <1>1 DEF Command, Matches, Owns
<1>3. rows[c.id] \in Row
  BY <1>2 DEF TuiInv, TypeOK
<1>. QED BY <1>2, <1>3 DEF Matches, Owns, Row

LEMMA ServeUpdateInv ==
  ASSUME TuiInv, NEW c, Sent(c), ServeUpdate(c)
  PROVE  TuiInv'
<1>1. /\ c.op = "update" /\ c.user \in Users /\ c.type \in Types
      /\ c \in Command
  BY SentIs DEF ServeUpdate, AskedFor
<1>2. /\ c.id \in Ids /\ rows[c.id] \in Row /\ rows[c.id].owner = c.user
      /\ rows[c.id].version \in 1 .. MaxVersion
      /\ rows[c.id].version < MaxVersion
  BY MatchedRow DEF ServeUpdate
<1>3. PICK next : next = rows[c.id].version + 1
  OBVIOUS
<1>4. next \in 1 .. MaxVersion /\ rows[c.id].version < next
  BY <1>2, <1>3, NextVersion
<1>5. PICK row : row = [rows[c.id] EXCEPT !.version = next, !.type = c.type,
                                          !.readable = TRUE]
  OBVIOUS
<1>6. /\ row \in Row /\ row.owner = c.user /\ row.version = next
      /\ row.type = c.type /\ row.readable = TRUE /\ row.deleted = FALSE
  <2>1. ~ rows[c.id].deleted /\ rows[c.id].deleted \in BOOLEAN
    BY <1>2, MatchedRow DEF ServeUpdate, Row
  <2>. QED BY <1>1, <1>2, <1>4, <1>5, <2>1 DEF Row
<1>7. PICK s \in Secret :
        s = [id |-> c.id, type |-> c.type, version |-> next,
             deleted |-> FALSE, readable |-> TRUE]
  BY <1>1, <1>2, <1>4 DEF Secret
<1>8. Write(c.id, row) /\ OkOrLost(c, [c EXCEPT !.status = "ok", !.got = s])
  BY <1>3, <1>5, <1>7 DEF ServeUpdate
<1>9. /\ rows' \in [Ids -> Row \cup {None}] /\ older' \in [Ids -> SUBSET Ids]
      /\ rows'[c.id] = row
      /\ Grown(rows, rows') /\ IsFiniteSet(Existent)'
  BY <1>2, <1>4, <1>6, <1>8, WriteGrows DEF TuiInv
<1>10. KnownIn(rows', s, c.user)
  <2>1. s.id = c.id /\ s.version = next /\ next <= next
    BY <1>4, <1>7
  <2>. QED BY <1>6, <1>7, <1>9, <2>1, NoneIsOutside DEF KnownIn
<1>. DEFINE a == [c EXCEPT !.status = "ok", !.got = s]
<1>11. /\ a \in Command /\ a.status = "ok" /\ a.op = c.op /\ a.user = c.user
       /\ a.id = c.id /\ a.version = c.version /\ a.type = c.type /\ a.got = s
  BY <1>1, OkGotIs
<1>12. OkOrLost(c, a)
  BY <1>8
<1>. HIDE DEF a
<1>13. AnsweredWith(a)'
  BY <1>1, <1>10, <1>11, NoneIsOutside DEF AnsweredWith
<1>. QED BY <1>9, <1>11, <1>12, <1>13, WrittenInv

LEMMA ServeDeleteInv ==
  ASSUME TuiInv, NEW c, Sent(c), ServeDelete(c)
  PROVE  TuiInv'
<1>1. c.op = "delete" /\ c \in Command
  BY SentIs DEF ServeDelete
<1>2. /\ c.id \in Ids /\ rows[c.id] \in Row
      /\ rows[c.id].version \in 1 .. MaxVersion
      /\ rows[c.id].version < MaxVersion
  BY MatchedRow DEF ServeDelete
<1>3. PICK next : next = rows[c.id].version + 1
  OBVIOUS
<1>4. next \in 1 .. MaxVersion /\ rows[c.id].version < next
  BY <1>2, <1>3, NextVersion
<1>5. PICK row : row = [rows[c.id] EXCEPT !.version = next, !.deleted = TRUE]
  OBVIOUS
<1>6. row \in Row /\ row.owner = rows[c.id].owner /\ row.version = next
  BY <1>2, <1>4, <1>5 DEF Row
<1>7. Write(c.id, row) /\ OkOrLost(c, [c EXCEPT !.status = "ok"])
  BY <1>3, <1>5 DEF ServeDelete
<1>8. /\ rows' \in [Ids -> Row \cup {None}] /\ older' \in [Ids -> SUBSET Ids]
      /\ Grown(rows, rows') /\ IsFiniteSet(Existent)'
  BY <1>2, <1>4, <1>6, <1>7, WriteGrows DEF TuiInv
<1>. DEFINE a == [c EXCEPT !.status = "ok"]
<1>9. /\ a \in Command /\ a.status = "ok" /\ a.op = c.op /\ a.user = c.user
      /\ a.id = c.id /\ a.version = c.version /\ a.type = c.type
  BY <1>1, OkIs
<1>10. OkOrLost(c, a)
  BY <1>7
<1>. HIDE DEF a
<1>11. AnsweredWith(a)'
  BY <1>1, <1>9 DEF AnsweredWith
<1>. QED BY <1>8, <1>9, <1>10, <1>11, WrittenInv

LEMMA ServeInv ==
  ASSUME TuiInv, NEW c \in inflight, Serve(c)
  PROVE  TuiInv'
<1>1. Sent(c)
  BY DEF Serve, Sent
<1>. QED
  BY <1>1, ServeAuthInv, ServeListInv, ServeGetInv, ServeOtherInv,
     ServeCreateInv, ServeUpdateInv, ServeDeleteInv, FailInv DEF Serve

(* Another device's write keeps what is known here, answers included.      *)
LEMMA OtherWriteInv ==
  ASSUME TuiInv, UNCHANGED <<ui, inflight>>,
         NEW i \in Ids, NEW row \in Row, Write(i, row),
         \/ rows[i] = None
         \/ rows[i].owner = row.owner /\ rows[i].version < row.version
  PROVE  TuiInv'
<1>1. /\ rows' \in [Ids -> Row \cup {None}] /\ older' \in [Ids -> SUBSET Ids]
      /\ Grown(rows, rows') /\ IsFiniteSet(Existent)'
  BY WriteGrows DEF TuiInv
<1>2. TypeOK'
  BY <1>1 DEF TuiInv, TypeOK, ui
<1>3. OneCommand' /\ ScreenIs'
  BY ScreenStays DEF TuiInv, OneCommand, ui
<1>4. Held'
  BY <1>1, HeldStays DEF TuiInv, ui
<1>5. \A s \in Secret, u \in Users :
        KnownIn(rows, s, u) => KnownIn(rows', s, u)
  <2>1. rows \in [Ids -> Row \cup {None}]
    BY DEF TuiInv, TypeOK
  <2>. QED BY <1>1, <2>1, KnownStays, NoneIsOutside
<1>6. \A c \in inflight' : CommandIs(c)'
  <2>. SUFFICES ASSUME NEW c \in inflight PROVE CommandIs(c)'
    BY DEF ui
  <2>1. CommandIs(c) /\ c \in Command
    BY AloneInFlight
  <2>2. screen' \in Origin(c.op)
    BY <2>1 DEF CommandIs, ui
  <2>3. AskedFor(c) => AskedFor(c)'
    BY DEF AskedFor, ui
  <2>4. ASSUME AskedFor(c), AnsweredWith(c) PROVE AnsweredWith(c)'
    <3>1. c.op # "auth" => c.user \in Users
      BY <2>1, <2>4 DEF AskedFor, Command
    <3>2. c.got # None => c.got \in Secret
      BY <2>1 DEF Command
    <3>3. \A k \in 1 .. Len(c.list) : c.list[k] \in Secret
      <4>1. c.list \in Seq(Secret)
        BY <2>1 DEF Command
      <4>. QED BY <4>1
    <3>. QED BY <1>5, <2>4, <3>1, <3>2, <3>3 DEF AnsweredWith
  <2>. QED BY <2>1, <2>2, <2>3, <2>4 DEF CommandIs
<1>. QED BY <1>1, <1>2, <1>3, <1>4, <1>6 DEF TuiInv

LEMMA OtherDeviceInv == TuiInv /\ OtherDevice => TuiInv'
<1>. SUFFICES ASSUME TuiInv, OtherDevice PROVE TuiInv'
  OBVIOUS
<1>1. UNCHANGED <<ui, inflight>>
  BY DEF OtherDevice
<1>2. PICK i \in Ids, u \in Users, t \in Types, r \in BOOLEAN :
       \/ /\ rows[i] = None
          /\ Write(i, [owner |-> u, type |-> t, version |-> 1,
                       deleted |-> FALSE, readable |-> r])
       \/ /\ Owns(u, i) /\ ~ rows[i].deleted
          /\ rows[i].version < MaxVersion
          /\ \/ Write(i, [rows[i] EXCEPT !.version = @ + 1, !.type = t,
                                         !.readable = r])
             \/ Write(i, [rows[i] EXCEPT !.version = @ + 1,
                                         !.deleted = TRUE])
  BY DEF OtherDevice
<1>3. CASE rows[i] = None /\ Write(i, [owner |-> u, type |-> t, version |-> 1,
                                       deleted |-> FALSE, readable |-> r])
  BY <1>1, <1>3, FirstRow, OtherWriteInv
<1>4. ASSUME Owns(u, i), rows[i].version < MaxVersion,
             NEW row, Write(i, row),
             \/ row = [rows[i] EXCEPT !.version = @ + 1, !.type = t,
                                      !.readable = r]
             \/ row = [rows[i] EXCEPT !.version = @ + 1, !.deleted = TRUE]
      PROVE  TuiInv'
  <2>1. rows[i] \in Row
    BY <1>4 DEF Owns, TuiInv, TypeOK
  <2>2. PICK next : next = rows[i].version + 1
    OBVIOUS
  <2>3. next \in 1 .. MaxVersion /\ rows[i].version < next
    <3>1. rows[i].version \in 1 .. MaxVersion
      BY <2>1 DEF Row
    <3>. QED BY <1>4, <2>2, <3>1, NextVersion
  <2>4. \/ row = [rows[i] EXCEPT !.version = next, !.type = t, !.readable = r]
        \/ row = [rows[i] EXCEPT !.version = next, !.deleted = TRUE]
    BY <1>4, <2>2
  <2>5. row \in Row /\ rows[i].owner = row.owner /\ row.version = next
    BY <2>1, <2>3, <2>4 DEF Row
  <2>. QED BY <1>1, <1>4, <2>3, <2>5, OtherWriteInv
<1>. QED BY <1>2, <1>3, <1>4

----------------------------------------------------------------------------
(* Messages                                                                *)

(* A message comes on the screen its command was started on.               *)
LEMMA MessageIs ==
  ASSUME TuiInv, NEW c, NEW op \in Ops, NEW status \in {"ok", "error"},
         Message(c, op, status)
  PROVE  /\ c \in inflight /\ c \in Command /\ c.op = op
         /\ screen \in Origin(op) \ {"quit"}
         /\ status = "ok" => AskedFor(c) /\ AnsweredWith(c)
<1>1. /\ c \in inflight /\ c \in Command /\ CommandIs(c)
      /\ c.op = op /\ c.status = status /\ screen # "quit"
  BY AloneInFlight DEF Message
<1>. QED BY <1>1 DEF CommandIs

LEMMA DoneInv ==
  ASSUME TuiInv, NEW c \in inflight, Done(c), UNCHANGED server
  PROVE  /\ inflight' = {} /\ OneCommand' /\ IsFiniteSet(Existent)'
         /\ \A d \in inflight' : CommandIs(d)'
<1>1. inflight' = {} /\ busy' = FALSE
  BY AloneInFlight DEF Done
<1>2. Existent' = Existent
  BY DEF Existent, server
<1>. QED BY <1>1, <1>2 DEF OneCommand, TuiInv

LEMMA DoneThenListInv ==
  ASSUME TuiInv, NEW c \in inflight, NEW user \in Users,
         DoneThenList(c, user), session' = user,
         screen' \in {"list", "detail"}, UNCHANGED server
  PROVE  /\ inflight' \subseteq Command /\ busy' = TRUE
         /\ OneCommand' /\ IsFiniteSet(Existent)'
         /\ \A d \in inflight' : CommandIs(d)'
<1>. DEFINE next == Ask("list", user, None, 0, "none")
<1>1. inflight' = {next} /\ busy' = TRUE
  BY AloneInFlight, NoneIsOutside DEF DoneThenList, ListCommand, VaultCommand
<1>2. next \in Command
  BY AskIsCommand, TuiAssumption DEF Ops
<1>3. next.op = "list" /\ next.user = user /\ next.status = "sent"
  BY DEF Ask
<1>. HIDE DEF next
<1>4. OneCommand'
  BY <1>1 DEF OneCommand
<1>5. screen' \in Origin("list")
  BY DEF Origin
<1>6. \A d \in inflight' : CommandIs(d)'
  BY <1>1, <1>3, <1>5, NoneIsOutside DEF CommandIs, AskedFor
<1>7. Existent' = Existent
  BY DEF Existent, server
<1>. QED BY <1>1, <1>2, <1>4, <1>6, <1>7 DEF TuiInv

LEMMA FailedInv ==
  ASSUME TuiInv, NEW c, Failed(c)
  PROVE  TuiInv'
<1>1. c \in inflight /\ Done(c) /\ UNCHANGED server
  BY DEF Failed, Message
<1>2. TypeOK'
  BY <1>1, DoneInv DEF TuiInv, TypeOK, Failed, Done, server
<1>3. ScreenIs'
  BY ScreenStays DEF TuiInv, Failed
<1>4. Held'
  BY DEF TuiInv, Held, Failed, server
<1>. QED BY <1>1, <1>2, <1>3, <1>4, DoneInv DEF TuiInv

(* Nothing of a user is held before somebody logs in.                      *)
LEMMA NothingHeld ==
  ASSUME TuiInv, session = None
  PROVE  secrets = <<>> /\ current = None /\ inputs.of = None
<1>1. rows \in [Ids -> Row \cup {None}] /\ secrets \in Seq(Secret)
  BY DEF TuiInv, TypeOK
<1>2. current = None /\ inputs.of = None
  BY <1>1, NobodyKnows DEF TuiInv, TypeOK, Held
<1>3. Len(secrets) = 0
  <2>. SUFFICES ASSUME Len(secrets) # 0 PROVE FALSE
    OBVIOUS
  <2>1. 1 \in 1 .. Len(secrets) /\ secrets[1] \in Secret
    BY <1>1
  <2>. QED BY <1>1, <2>1, NobodyKnows DEF TuiInv, Held
<1>. QED BY <1>1, <1>2, <1>3

LEMMA AuthDoneInv ==
  ASSUME TuiInv, NEW c, AuthDone(c)
  PROVE  TuiInv'
<1>1. /\ c \in inflight /\ c \in Command /\ c.op = "auth"
      /\ screen \in Origin("auth") \ {"quit"}
      /\ AnsweredWith(c)
  BY MessageIs DEF AuthDone, Ops
<1>2. screen = "auth" /\ session = None
  BY <1>1 DEF Origin, TuiInv, ScreenIs
<1>3. c.user \in Users
  BY <1>1 DEF AnsweredWith, Command
<1>4. session' = c.user /\ screen' = "list"
  BY DEF AuthDone, Go
<1>5. /\ inflight' \subseteq Command /\ busy' = TRUE
      /\ OneCommand' /\ IsFiniteSet(Existent)'
      /\ \A d \in inflight' : CommandIs(d)'
  BY <1>1, <1>3, <1>4, DoneThenListInv DEF AuthDone
<1>6. TypeOK'
  BY <1>3, <1>4, <1>5 DEF TuiInv, TypeOK, AuthDone, Screens, server
<1>7. ScreenIs'
  BY <1>3, <1>4, NoneIsOutside DEF TuiInv, ScreenIs, FormTarget, Count, AuthDone
<1>8. Held'
  <2>1. secrets' = <<>> /\ current' = None /\ inputs'.of = None
    BY <1>2, NothingHeld DEF AuthDone
  <2>. QED BY <2>1 DEF Held
<1>. QED BY <1>5, <1>6, <1>7, <1>8 DEF TuiInv

LEMMA ClampIs ==
  ASSUME selected \in Nat, NEW list \in Seq(Secret)
  PROVE  /\ Clamp(list) \in Nat
         /\ Clamp(list) < Len(list) \/ (Clamp(list) = 0 /\ list = <<>>)
<1>1. Len(list) \in Nat /\ (list = <<>> \/ Len(list) > 0)
  OBVIOUS
<1>. QED BY <1>1 DEF Clamp

LEMMA ListDoneInv ==
  ASSUME TuiInv, NEW c, ListDone(c)
  PROVE  TuiInv'
<1>1. /\ c \in inflight /\ c \in Command /\ c.op = "list"
      /\ AskedFor(c) /\ AnsweredWith(c)
  BY MessageIs DEF ListDone, Ops
<1>2. Done(c) /\ UNCHANGED server /\ secrets' = c.list
  BY DEF ListDone
<1>3. c.list \in Seq(Secret) /\ c.user = session
  BY <1>1 DEF Command, AskedFor
<1>4. /\ selected' \in Nat
      /\ selected' < Len(c.list) \/ (selected' = 0 /\ c.list = <<>>)
  BY <1>3, ClampIs DEF ListDone, TuiInv, TypeOK
<1>5. inflight' = {} /\ busy' = FALSE
  BY <1>1, <1>2, DoneInv DEF Done
<1>6. TypeOK'
  BY <1>2, <1>3, <1>4, <1>5 DEF TuiInv, TypeOK, ListDone, server
<1>7. ScreenIs'
  BY <1>2, <1>4 DEF TuiInv, ScreenIs, FormTarget, Count, ListDone
<1>8. \A k \in 1 .. Len(c.list) : KnownIn(rows, c.list[k], session)
  BY <1>1, <1>3 DEF AnsweredWith
<1>9. Held'
  BY <1>2, <1>8 DEF TuiInv, Held, ListDone, server
<1>. QED BY <1>1, <1>2, <1>6, <1>7, <1>9, DoneInv DEF TuiInv

(* Whoever asked the vault for something has a session open still.         *)
LEMMA SessionIs ==
  ASSUME TuiInv, NEW c \in Command, AskedFor(c), c.op # "auth"
  PROVE  session \in Users /\ c.user = session
BY DEF AskedFor, Command

LEMMA SecretDoneInv ==
  ASSUME TuiInv, NEW c, SecretDone(c)
  PROVE  TuiInv'
<1>1. PICK op \in {"get", "create", "update"} : Message(c, op, "ok")
  BY DEF SecretDone
<1>2. /\ c \in inflight /\ c \in Command /\ c.op = op
      /\ AskedFor(c) /\ AnsweredWith(c)
  BY <1>1, MessageIs DEF Ops
<1>3. session \in Users /\ c.user = session
  BY <1>2, SessionIs
<1>4. c.got \in Secret /\ c.got # None /\ KnownIn(rows, c.got, session)
  BY <1>2, <1>3 DEF AnsweredWith, Command
<1>5. /\ current' = c.got /\ shown' = c.got /\ screen' = "detail"
      /\ session' = session /\ UNCHANGED server /\ DoneThenList(c, session)
  BY DEF SecretDone, Go
<1>6. /\ inflight' \subseteq Command /\ busy' = TRUE
      /\ OneCommand' /\ IsFiniteSet(Existent)'
      /\ \A d \in inflight' : CommandIs(d)'
  <2>1. PICK user \in Users : user = session
    BY <1>3
  <2>. QED BY <1>2, <1>5, <2>1, DoneThenListInv
<1>7. ticks' \in 0 .. MaxTicks /\ (c.got.type = "otp" => ticks' > 0)
  <2>1. ticks \in 0 .. MaxTicks /\ MaxTicks \in Nat
    BY TuiAssumption DEF TuiInv, TypeOK
  <2>2. CASE c.got.type = "otp"
    <3>1. ticks < MaxTicks /\ ticks' = ticks + 1
      BY <2>2 DEF SecretDone, NewTicks
    <3>. QED BY <2>1, <3>1
  <2>3. CASE c.got.type # "otp"
    <3>1. ticks' = ticks
      BY <2>3 DEF SecretDone, NewTicks
    <3>. QED BY <2>1, <2>3, <3>1
  <2>. QED BY <2>2, <2>3
<1>8. TypeOK'
  BY <1>4, <1>5, <1>6, <1>7 DEF TuiInv, TypeOK, SecretDone, Screens, server
<1>9. ScreenIs'
  BY <1>3, <1>4, <1>5, <1>7, NoneIsOutside
     DEF TuiInv, ScreenIs, FormTarget, Count, SecretDone
<1>10. Held'
  BY <1>4, <1>5 DEF TuiInv, Held, SecretDone, server
<1>. QED BY <1>6, <1>8, <1>9, <1>10 DEF TuiInv

LEMMA DeleteDoneInv ==
  ASSUME TuiInv, NEW c, DeleteDone(c)
  PROVE  TuiInv'
<1>1. c \in inflight /\ c \in Command /\ c.op = "delete" /\ AskedFor(c)
  BY MessageIs DEF DeleteDone, Ops
<1>2. session \in Users
  BY <1>1, SessionIs
<1>3. /\ current' = None /\ screen' = "list"
      /\ session' = session /\ UNCHANGED server /\ DoneThenList(c, session)
  BY DEF DeleteDone, Go
<1>4. /\ inflight' \subseteq Command /\ busy' = TRUE
      /\ OneCommand' /\ IsFiniteSet(Existent)'
      /\ \A d \in inflight' : CommandIs(d)'
  <2>1. PICK user \in Users : user = session
    BY <1>2
  <2>. QED BY <1>1, <1>3, <2>1, DoneThenListInv
<1>5. TypeOK'
  BY <1>3, <1>4 DEF TuiInv, TypeOK, DeleteDone, Screens, server
<1>6. ScreenIs'
  BY <1>2, <1>3, NoneIsOutside DEF TuiInv, ScreenIs, FormTarget, Count, DeleteDone
<1>7. Held'
  BY <1>3 DEF TuiInv, Held, DeleteDone, server
<1>. QED BY <1>4, <1>5, <1>6, <1>7 DEF TuiInv

LEMMA SyncDoneInv ==
  ASSUME TuiInv, NEW c, SyncDone(c)
  PROVE  TuiInv'
<1>1. /\ c \in inflight /\ c \in Command /\ c.op = "sync" /\ AskedFor(c)
      /\ screen \in Origin("sync") \ {"quit"}
  BY MessageIs DEF SyncDone, Ops
<1>2. session \in Users
  BY <1>1, SessionIs
<1>3. /\ screen' = "list"
      /\ session' = session /\ UNCHANGED server /\ DoneThenList(c, session)
  BY <1>1 DEF SyncDone, Origin
<1>4. /\ inflight' \subseteq Command /\ busy' = TRUE
      /\ OneCommand' /\ IsFiniteSet(Existent)'
      /\ \A d \in inflight' : CommandIs(d)'
  <2>1. PICK user \in Users : user = session
    BY <1>2
  <2>. QED BY <1>1, <1>3, <2>1, DoneThenListInv
<1>5. TypeOK'
  BY <1>4 DEF TuiInv, TypeOK, SyncDone, server
<1>6. ScreenIs'
  BY ScreenStays DEF TuiInv, SyncDone
<1>7. Held'
  BY DEF TuiInv, Held, SyncDone, server
<1>. QED BY <1>4, <1>5, <1>6, <1>7 DEF TuiInv

LEMMA SaveDoneInv ==
  ASSUME TuiInv, NEW c, SaveDone(c)
  PROVE  TuiInv'
<1>1. c \in inflight /\ c.op = "save" /\ screen \in Origin("save") \ {"quit"}
  BY MessageIs DEF SaveDone, Ops
<1>2. screen = "save"
  BY <1>1 DEF Origin
<1>3. Done(c) /\ UNCHANGED server /\ screen' = "detail"
  BY DEF SaveDone, Go
<1>4. inflight' = {} /\ busy' = FALSE
  BY <1>1, <1>3, DoneInv DEF Done
<1>5. TypeOK'
  BY <1>3, <1>4 DEF TuiInv, TypeOK, SaveDone, Screens, server
<1>6. ScreenIs'
  BY <1>2, <1>3 DEF TuiInv, ScreenIs, FormTarget, Count, SaveDone
<1>7. Held'
  BY DEF TuiInv, Held, SaveDone, server
<1>. QED BY <1>1, <1>3, <1>5, <1>6, <1>7, DoneInv DEF TuiInv

LEMMA HandleInv ==
  ASSUME TuiInv, NEW c, Handle(c)
  PROVE  TuiInv'
BY FailedInv, AuthDoneInv, ListDoneInv, SecretDoneInv, DeleteDoneInv,
   SyncDoneInv, SaveDoneInv DEF Handle

LEMMA KeysInv == TuiInv /\ Keys => TuiInv'
BY WelcomeEnterInv, AuthModeInv, MoveFocusInv, SubmitAuthInv, ListQuitInv,
   ListMoveInv, ListRefreshInv, ListNewInv, ListOpenInv, ListDeleteInv,
   ListUpdateInv, DetailUpdateInv, DetailDeleteInv, DetailSaveInv,
   BackToListInv, TypeChosenInv, SubmitFormInv, ConfirmDeleteInv,
   SaveBinaryInv, SaveCancelInv, QuitInv DEF Keys

LEMMA NextInv == TuiInv /\ [Next]_vars => TuiInv'
<1>. SUFFICES ASSUME TuiInv, [Next]_vars PROVE TuiInv'
  OBVIOUS
<1>1. CASE UNCHANGED vars
  <2>1. UNCHANGED ui /\ UNCHANGED inflight /\ UNCHANGED server
    BY <1>1 DEF vars
  <2>2. TypeOK' /\ OneCommand' /\ Existent' = Existent
    BY <2>1 DEF TuiInv, TypeOK, OneCommand, Existent, ui, server
  <2>3. ScreenIs'
    BY <2>1, ScreenStays DEF TuiInv, ui
  <2>4. Held'
    BY <2>1 DEF TuiInv, Held, ui, server
  <2>5. \A c \in inflight' : CommandIs(c)'
    BY <2>1, CommandStays DEF TuiInv, TypeOK, ui, server
  <2>. QED BY <2>2, <2>3, <2>4, <2>5 DEF TuiInv
<1>2. CASE Next
  BY <1>2, KeysInv, TickInv, ServeInv, HandleInv, OtherDeviceInv DEF Next
<1>. QED BY <1>1, <1>2

----------------------------------------------------------------------------
(* Theorems                                                                *)

(* The invariant holds in every state the program reaches, whatever is     *)
(* typed and whatever other devices write.                                 *)
THEOREM TuiInvHolds == Spec => []TuiInv
<1>. QED BY InitInv, NextInv, PTL DEF Spec

(* Every field of the model, each command and each row has its type: in    *)
(* particular the index of a form's field and of the list's row.           *)
THEOREM TuiTypeCorrect == Spec => []TypeOK
<1>1. TuiInv => TypeOK
  BY DEF TuiInv
<1>. QED BY <1>1, TuiInvHolds, PTL

(* busy says whether a command is under way, and there is never a second:  *)
(* m.busy is set with every tea.Cmd that calls a service and reset by its  *)
(* message, errors included.                                               *)
THEOREM OneCommandAtATime == Spec => []OneCommandWhileBusy
<1>1. TuiInv => OneCommandWhileBusy
  <2>. SUFFICES ASSUME TuiInv PROVE OneCommandWhileBusy
    OBVIOUS
  <2>1. CASE inflight = {}
    BY <2>1, FS_EmptySet DEF TuiInv, OneCommand, OneCommandWhileBusy
  <2>2. CASE inflight # {}
    <3>1. PICK c : inflight = {c}
      BY <2>2 DEF TuiInv, OneCommand
    <3>2. Cardinality(inflight) = 1
      BY <3>1, FS_Singleton
    <3>. QED BY <3>2 DEF TuiInv, OneCommand, OneCommandWhileBusy
  <2>. QED BY <2>1, <2>2
<1>. QED BY <1>1, TuiInvHolds, PTL

(* No handler of a screen finds the focus or the highlighted row out of    *)
(* range, no current secret or no session, after any list, any failure and *)
(* any deletion.                                                           *)
THEOREM HandlersFindTheirState == Spec => []ScreenHasItsState
<1>1. TuiInv => ScreenHasItsState
  BY DEF TuiInv, ScreenIs, ScreenHasItsState
<1>. QED BY <1>1, TuiInvHolds, PTL

(* The fields on screen were filled from the secret the form would write,  *)
(* and a form that creates one holds nothing of another.                   *)
THEOREM FormsKeepTheirTarget == Spec => []FormIsOfItsTarget
<1>1. TuiInv => FormIsOfItsTarget
  BY DEF TuiInv, ScreenIs, FormTarget, FormIsOfItsTarget
<1>. QED BY <1>1, TuiInvHolds, PTL

(* Nothing on screen is of another user than the one logged in, whatever   *)
(* was on its way when the user before logged out.                         *)
THEOREM UsersSeeTheirOwn == Spec => []ShowsOnlyOwnSecrets
<1>1. TuiInv => ShowsOnlyOwnSecrets
  <2>. SUFFICES ASSUME TuiInv, NEW s \in OnScreen, s # None
                PROVE  rows[s.id].owner = session
    BY DEF ShowsOnlyOwnSecrets
  <2>1. KnownIn(rows, s, session)
    <3>1. CASE screen = "list"
      <4>1. s \in ToSet(secrets)
        BY <3>1 DEF OnScreen
      <4>2. PICK k \in DOMAIN secrets : s = secrets[k]
        BY <4>1 DEF ToSet
      <4>3. k \in 1 .. Len(secrets)
        BY <4>2 DEF TuiInv, TypeOK
      <4>. QED BY <4>2, <4>3 DEF TuiInv, Held
    <3>2. CASE screen \in {"detail", "delete", "save"}
      <4>1. s = current
        BY <3>2 DEF OnScreen, TuiInv, ScreenIs
      <4>. QED BY <4>1 DEF TuiInv, Held
    <3>3. CASE screen = "form"
      <4>1. s = inputs.of
        BY <3>3 DEF OnScreen
      <4>. QED BY <4>1 DEF TuiInv, Held
    <3>4. screen \in {"list", "detail", "delete", "save", "form"}
      BY DEF OnScreen, TuiInv, TypeOK, Screens
    <3>. QED BY <3>1, <3>2, <3>3, <3>4
  <2>. QED BY <2>1 DEF KnownIn
<1>. QED BY <1>1, TuiInvHolds, PTL

(* The detail page shows the secret its keys update, delete and save, and  *)
(* a one-time password on it has its tick: the code is renewed.            *)
THEOREM DetailStaysCurrent == Spec => []DetailIsCurrent
<1>1. TuiInv => DetailIsCurrent
  BY DEF TuiInv, ScreenIs, DetailIsCurrent, DetailShowsCurrent,
         ShownCodeIsRenewed, OtpShown
<1>. QED BY <1>1, TuiInvHolds, PTL

(* What a served request that was sent writes over is what is on screen.   *)
LEMMA ServeChangesScreen ==
  ASSUME TuiInv, NEW c \in inflight, Serve(c),
         NEW i \in Ids, rows[i] # None, rows'[i] # rows[i]
  PROVE  screen = "quit" \/ OnScreen = {SecretOf(i)}
<1>1. Sent(c)
  BY DEF Serve, Sent
<1>2. AskedFor(c) /\ screen \in Origin(c.op)
  BY <1>1, SentIs, AloneInFlight DEF CommandIs
<1>3. /\ c.op \in {"update", "delete"} /\ Matches(c)
      /\ \E row : Write(c.id, row)
  <2>1. ~ UNCHANGED server
    BY DEF server
  <2>2. ~ ServeCreate(c)
    <3>. SUFFICES ASSUME NEW j \in Ids, NEW row, rows[j] = None, Write(j, row)
                  PROVE  FALSE
      BY DEF ServeCreate
    <3>. QED BY DEF Write, TuiInv, TypeOK
  <2>3. ServeUpdate(c) \/ ServeDelete(c)
    BY <2>1, <2>2
       DEF Serve, ServeAuth, ServeList, ServeGet, ServeOther, Fail
  <2>. QED BY <2>3 DEF ServeUpdate, ServeDelete
<1>4. c.id = i
  BY <1>3 DEF Write, TuiInv, TypeOK
<1>5. rows[i].version = c.version
  BY <1>3, <1>4 DEF Matches
<1>6. CASE c.op = "update" /\ screen = "form"
  <2>1. form.mode = "update" /\ c.id = form.id /\ c.version = form.version
    BY <1>2, <1>6 DEF AskedFor
  <2>2. inputs.of # None /\ form = EditForm(inputs.of)
    BY <1>6, <2>1 DEF TuiInv, ScreenIs, FormTarget
  <2>3. inputs.of.id = i /\ inputs.of.version = rows[i].version
    BY <1>4, <1>5, <2>1, <2>2 DEF EditForm
  <2>4. inputs.of \in Secret /\ KnownIn(rows, inputs.of, session)
    BY <2>2 DEF TuiInv, TypeOK, Held
  <2>5. inputs.of = SecretOf(i)
    BY <2>3, <2>4, KnownIsRow
  <2>. QED BY <1>6, <2>5 DEF OnScreen
<1>7. CASE c.op = "delete" /\ screen = "delete"
  <2>1. current # None /\ current.id = i /\ current.version = rows[i].version
    BY <1>2, <1>4, <1>5, <1>7 DEF AskedFor
  <2>2. current \in Secret /\ KnownIn(rows, current, session)
    BY <2>1 DEF TuiInv, TypeOK, Held
  <2>3. current = SecretOf(i)
    BY <2>1, <2>2, KnownIsRow
  <2>. QED BY <1>7, <2>3 DEF OnScreen
<1>. QED BY <1>2, <1>3, <1>6, <1>7 DEF Origin

(* A row this terminal replaces is the one its form was filled from, and a *)
(* row it deletes the one whose deletion was confirmed, field for field:   *)
(* the version sent with the request stands for everything that was shown. *)
THEOREM WritesWhatWasOnScreen == Spec => ChangesWhatWasOnScreen
<1>1. TuiInv /\ [Next]_vars =>
        [\A i \in Ids :
           rows[i] # None /\ rows'[i] # rows[i] /\ inflight' # inflight =>
             screen = "quit" \/ OnScreen = {SecretOf(i)}]_vars
  <2>. SUFFICES ASSUME TuiInv, Next, NEW i \in Ids, rows[i] # None,
                       rows'[i] # rows[i], inflight' # inflight
                PROVE  screen = "quit" \/ OnScreen = {SecretOf(i)}
    OBVIOUS
  <2>1. rows' # rows
    OBVIOUS
  <2>2. ~ Keys
    BY <2>1
       DEF Keys, WelcomeEnter, AuthMode, MoveFocus, SubmitAuth, ListQuit,
           ListMove, ListRefresh, ListNew, ListOpen, ListDelete, ListUpdate,
           DetailUpdate, DetailDelete, DetailSave, BackToList, TypeChosen,
           SubmitForm, ConfirmDelete, SaveBinary, SaveCancel, Quit, server
  <2>3. ~ Tick
    BY <2>1 DEF Tick, server
  <2>4. \A c : ~ Handle(c)
    BY <2>1
       DEF Handle, Failed, AuthDone, ListDone, SecretDone, DeleteDone,
           SyncDone, SaveDone, server
  <2>5. ~ OtherDevice
    BY DEF OtherDevice
  <2>. QED BY <2>2, <2>3, <2>4, <2>5, ServeChangesScreen DEF Next
<1>. QED BY <1>1, TuiInvHolds, PTL DEF Spec, ChangesWhatWasOnScreen

=============================================================================
