-------------------------------- MODULE Tui --------------------------------
(***************************************************************************)
(* The terminal client: one model value updated by one message at a time   *)
(* (cmd/gophkeeper-tui/model.go), beside the vault its commands reach.     *)
(*                                                                         *)
(* A key press runs the handler of the screen that is shown.  A handler    *)
(* may start a command, a goroutine that calls a service of the client     *)
(* core and whose answer comes back as a message; between the key and the  *)
(* message the server handles the request, other devices of the same user  *)
(* go on writing, and the answer may be lost.  Timers (the tick of a       *)
(* one-time password) are messages too.                                    *)
(*                                                                         *)
(* Typing into a field changes no other state and is left out; inputs says *)
(* which form the fields belong to and which secret they were filled from. *)
(* A secret's payload is abstracted to whether this client can decode it.  *)
(***************************************************************************)
EXTENDS Naturals, FiniteSets, SequencesExt

CONSTANTS
  Users,       \* accounts somebody may log in to from this terminal
  Ids,         \* ids of vault items; NewID never hands one out twice
  Types,       \* bound: the types of secret, of the five FieldCount knows
  MaxVersion,  \* bound: versions an item reaches
  MaxTicks,    \* bound: pending ticks of one-time passwords
  None         \* no secret, no user, no item

SecretTypes == {"text", "login_password", "bank_card", "binary", "otp"}

ASSUME TuiAssumption ==
  /\ Types \subseteq SecretTypes
  /\ MaxVersion \in Nat \ {0}
  /\ MaxTicks \in Nat \ {0}
  /\ None \notin Users \cup Ids
  /\ None \notin [id: Ids, type: Types, version: 1..MaxVersion,
                  deleted: BOOLEAN, readable: BOOLEAN]
  /\ None \notin [owner: Users, type: Types, version: 1..MaxVersion,
                  deleted: BOOLEAN, readable: BOOLEAN]

VARIABLES
  screen,    \* what is shown; "quit" once the program has ended
  busy,      \* a command runs: keys other than ctrl+c are dropped
  authMode,  \* the authentication form logs in or registers
  inputs,    \* the fields: their form, and the secret they were filled from
  focus,     \* index of the focused field
  secrets,   \* the list, as it was last loaded
  selected,  \* index into the list, from 0
  current,   \* the secret of the detail, delete and save screens
  shown,     \* the secret the detail viewport was rendered from
  form,      \* formMode, formKind, editID and editVer
  session,   \* SessionState: the user whose vault is open
  inflight,  \* commands whose message has not been handled
  ticks,     \* pending one-time password ticks
  rows,      \* vault_items on the server
  older      \* for each item, those whose updated_at is before its own

ui == <<screen, busy, authMode, inputs, focus, secrets, selected, current,
        shown, form, session, ticks>>
server == <<rows, older>>
vars == <<ui, inflight, server>>

Screens == {"welcome", "auth", "list", "detail", "type", "form", "delete",
            "save", "quit"}

FieldCount ==
  [login |-> 3, register |-> 4, save |-> 1, text |-> 2, login_password |-> 5,
   bank_card |-> 7, binary |-> 3, otp |-> 8]

Secret == [id: Ids, type: Types, version: 1..MaxVersion, deleted: BOOLEAN,
           readable: BOOLEAN]
Row == [owner: Users, type: Types, version: 1..MaxVersion, deleted: BOOLEAN,
        readable: BOOLEAN]
Form == [mode: {"create", "update"}, kind: Types \cup {"none"},
         id: Ids \cup {None}, version: 0..MaxVersion]
Ops == {"auth", "list", "get", "sync", "delete", "update", "create", "save"}
Command == [op: Ops, user: Users \cup {None}, id: Ids \cup {None},
            version: 0..MaxVersion, type: Types \cup {"none"},
            status: {"sent", "ok", "error"}, list: Seq(Secret),
            got: Secret \cup {None}]

TypeOK ==
  /\ screen \in Screens
  /\ busy \in BOOLEAN
  /\ authMode \in {"login", "register"}
  /\ inputs \in [form: DOMAIN FieldCount, of: Secret \cup {None}]
  /\ focus \in Nat
  /\ secrets \in Seq(Secret)
  /\ selected \in Nat
  /\ current \in Secret \cup {None}
  /\ shown \in Secret \cup {None}
  /\ form \in Form
  /\ session \in Users \cup {None}
  /\ inflight \subseteq Command
  /\ ticks \in 0..MaxTicks
  /\ rows \in [Ids -> Row \cup {None}]
  /\ older \in [Ids -> SUBSET Ids]

NewForm == [mode |-> "create", kind |-> "none", id |-> None, version |-> 0]

(* setAuthInputs and makeInputs: fresh fields, the first one focused.      *)
Fields(name, secret) == [form |-> name, of |-> secret]

Init ==
  /\ screen = "welcome"
  /\ busy = FALSE
  /\ authMode = "login"
  /\ inputs = Fields("login", None)
  /\ focus = 0
  /\ secrets = <<>>
  /\ selected = 0
  /\ current = None
  /\ shown = None
  /\ form = NewForm
  /\ session = None
  /\ inflight = {}
  /\ ticks = 0
  /\ rows = [i \in Ids |-> None]
  /\ older = [i \in Ids |-> {}]

----------------------------------------------------------------------------
(* Commands                                                                *)

Ask(op, user, id, version, type) ==
  [op |-> op, user |-> user, id |-> id, version |-> version,
   type |-> type, status |-> "sent", list |-> <<>>, got |-> None]

(* A command that has its error before it calls any service.               *)
Refused(op) == [Ask(op, None, None, 0, "none") EXCEPT !.status = "error"]

(* loadSecretsCmd and the others refuse without an open session.           *)
VaultCommand(op, user, id, version, type) ==
  IF user = None THEN Refused(op) ELSE Ask(op, user, id, version, type)

ListCommand(user) == VaultCommand("list", user, None, 0, "none")

(* The handler returns a command and the program runs it in a goroutine.   *)
Start(cmd) ==
  /\ busy' = TRUE
  /\ inflight' = inflight \cup {cmd}

StartVault(op, id, version, type) ==
  Start(VaultCommand(op, session, id, version, type))

NoCommand == UNCHANGED <<busy, inflight>>

----------------------------------------------------------------------------
(* Keys                                                                    *)

(* update drops every key but ctrl+c while a command runs.                 *)
Key_WhileBusy(s) == screen = s

Key(s) == screen = s /\ ~ busy

Go(s) == screen' = s

Quit ==
  /\ screen # "quit"
  /\ Go("quit")
  /\ UNCHANGED <<busy, authMode, inputs, focus, secrets, selected, current,
                 shown, form, session, ticks, inflight, server>>

WelcomeEnter ==
  /\ Key("welcome")
  /\ Go("auth")
  /\ NoCommand
  /\ UNCHANGED <<authMode, inputs, focus, secrets, selected, current, shown,
                 form, session, ticks, server>>

AuthMode_KeepsFocus(mode) ==
  /\ Key("auth")
  /\ authMode' = mode
  /\ inputs' = Fields(mode, None)
  /\ NoCommand
  /\ UNCHANGED <<screen, focus, secrets, selected, current, shown, form,
                 session, ticks, server>>

(* ctrl+r and ctrl+l                                                       *)
AuthMode(mode) ==
  /\ Key("auth")
  /\ authMode' = mode
  /\ inputs' = Fields(mode, None)
  /\ focus' = 0
  /\ NoCommand
  /\ UNCHANGED <<screen, secrets, selected, current, shown, form, session,
                 ticks, server>>

Count == FieldCount[inputs.form]

(* tab and shift+tab; enter on a field that is not the last one.           *)
MoveFocus ==
  /\ Key("auth") \/ Key("form")
  /\ focus' \in {(focus + 1) % Count, (focus + Count - 1) % Count}
  /\ NoCommand
  /\ UNCHANGED <<screen, authMode, inputs, secrets, selected, current, shown,
                 form, session, ticks, server>>

LastField == focus = Count - 1

(* submitAuthCmd; two master passwords that differ are refused at once.    *)
SubmitAuth ==
  /\ Key("auth")
  /\ LastField
  /\ \/ Start(Ask("auth", None, None, 0, "none"))
     \/ authMode = "register" /\ Start(Refused("auth"))
  /\ UNCHANGED <<screen, authMode, inputs, focus, secrets, selected, current,
                 shown, form, session, ticks, server>>

ResetToWelcome_KeepsVault ==
  /\ Go("welcome")
  /\ session' = None
  /\ authMode' = "login"
  /\ form' = NewForm
  /\ inputs' = Fields("login", None)
  /\ focus' = 0
  /\ UNCHANGED <<secrets, selected, current>>

(* resetToWelcome; the detail viewport keeps its text, off screen.         *)
ResetToWelcome ==
  /\ Go("welcome")
  /\ session' = None
  /\ authMode' = "login"
  /\ secrets' = <<>>
  /\ selected' = 0
  /\ current' = None
  /\ form' = NewForm
  /\ inputs' = Fields("login", None)
  /\ focus' = 0

ListQuit ==
  /\ Key("list")
  /\ ResetToWelcome
  /\ NoCommand
  /\ UNCHANGED <<shown, ticks, server>>

ListMove ==
  /\ Key("list")
  /\ \/ selected > 0 /\ selected' = selected - 1
     \/ selected + 1 < Len(secrets) /\ selected' = selected + 1
  /\ NoCommand
  /\ UNCHANGED <<screen, authMode, inputs, focus, secrets, current, shown,
                 form, session, ticks, server>>

(* "r" and "s"                                                             *)
ListRefresh ==
  /\ Key("list")
  /\ \E op \in {"list", "sync"} : StartVault(op, None, 0, "none")
  /\ UNCHANGED <<screen, authMode, inputs, focus, secrets, selected, current,
                 shown, form, session, ticks, server>>

ListNew ==
  /\ Key("list")
  /\ Go("type")
  /\ NoCommand
  /\ UNCHANGED <<authMode, inputs, focus, secrets, selected, current, shown,
                 form, session, ticks, server>>

Highlighted == secrets[selected + 1]

ListOpen ==
  /\ Key("list")
  /\ secrets # <<>>
  /\ StartVault("get", Highlighted.id, 0, "none")
  /\ UNCHANGED <<screen, authMode, inputs, focus, secrets, selected, current,
                 shown, form, session, ticks, server>>

ListDelete ==
  /\ Key("list")
  /\ secrets # <<>>
  /\ current' = Highlighted
  /\ Go("delete")
  /\ NoCommand
  /\ UNCHANGED <<authMode, inputs, focus, secrets, selected, shown, form,
                 session, ticks, server>>

EditForm(secret) ==
  [mode |-> "update", kind |-> secret.type, id |-> secret.id,
   version |-> secret.version]

(* startUpdateForm: the form's mode and target are set before the payload  *)
(* is decoded, which may fail and leave the fields and the screen.         *)
StartUpdateForm(secret) ==
  /\ form' = EditForm(secret)
  /\ IF secret.readable
     THEN inputs' = Fields(secret.type, secret) /\ focus' = 0 /\ Go("form")
     ELSE UNCHANGED <<inputs, focus, screen>>

ListUpdate ==
  /\ Key("list")
  /\ secrets # <<>>
  /\ StartUpdateForm(Highlighted)
  /\ NoCommand
  /\ UNCHANGED <<authMode, secrets, selected, current, shown, session, ticks,
                 server>>

DetailUpdate ==
  /\ Key("detail")
  /\ current # None
  /\ StartUpdateForm(current)
  /\ NoCommand
  /\ UNCHANGED <<authMode, secrets, selected, current, shown, session, ticks,
                 server>>

DetailDelete ==
  /\ Key("detail")
  /\ current # None
  /\ Go("delete")
  /\ NoCommand
  /\ UNCHANGED <<authMode, inputs, focus, secrets, selected, current, shown,
                 form, session, ticks, server>>

DetailSave ==
  /\ Key("detail")
  /\ current # None /\ current.type = "binary"
  /\ inputs' = Fields("save", None)
  /\ focus' = 0
  /\ Go("save")
  /\ NoCommand
  /\ UNCHANGED <<authMode, secrets, selected, current, shown, form, session,
                 ticks, server>>

(* esc on the detail, type, form and delete screens ("n" on the last).     *)
BackToList ==
  /\ \E s \in {"detail", "type", "form", "delete"} : Key(s)
  /\ Go("list")
  /\ NoCommand
  /\ UNCHANGED <<authMode, inputs, focus, secrets, selected, current, shown,
                 form, session, ticks, server>>

StartCreateForm_KeepsTarget(kind) ==
  /\ form' = [form EXCEPT !.kind = kind]
  /\ inputs' = Fields(kind, None)
  /\ focus' = 0
  /\ Go("form")

StartCreateForm(kind) ==
  /\ form' = [NewForm EXCEPT !.kind = kind]
  /\ inputs' = Fields(kind, None)
  /\ focus' = 0
  /\ Go("form")

TypeChosen ==
  /\ Key("type")
  /\ \E kind \in Types : StartCreateForm(kind)
  /\ NoCommand
  /\ UNCHANGED <<authMode, secrets, selected, current, shown, session, ticks,
                 server>>

(* submitFormCmd: fields that make no payload, a file that cannot be read  *)
(* or uploaded, are an error before the vault is called.                   *)
SubmitForm ==
  /\ Key("form")
  /\ LastField
  /\ \/ StartVault(form.mode, form.id, form.version, form.kind)
     \/ Start(Refused(form.mode))
  /\ UNCHANGED <<screen, authMode, inputs, focus, secrets, selected, current,
                 shown, form, session, ticks, server>>

ConfirmDelete ==
  /\ Key("delete")
  /\ current # None
  /\ StartVault("delete", current.id, current.version, "none")
  /\ UNCHANGED <<screen, authMode, inputs, focus, secrets, selected, current,
                 shown, form, session, ticks, server>>

SaveBinary ==
  /\ Key("save")
  /\ current # None
  /\ StartVault("save", current.id, 0, "none")
  /\ UNCHANGED <<screen, authMode, inputs, focus, secrets, selected, current,
                 shown, form, session, ticks, server>>

SaveCancel ==
  /\ Key("save")
  /\ Go("detail")
  /\ NoCommand
  /\ UNCHANGED <<authMode, inputs, focus, secrets, selected, current, shown,
                 form, session, ticks, server>>

----------------------------------------------------------------------------
(* The vault service, as Vault describes it: each request one step         *)

SecretOf(i) ==
  [id |-> i, type |-> rows[i].type, version |-> rows[i].version,
   deleted |-> rows[i].deleted, readable |-> rows[i].readable]

Owns(user, i) == i # None /\ rows[i] # None /\ rows[i].owner = user

Answered(c, answer) == inflight' = (inflight \ {c}) \cup {answer}

OkOrLost(c, ok) ==
  Answered(c, ok) \/ Answered(c, [c EXCEPT !.status = "error"])

Write(i, row) ==
  /\ rows' = [rows EXCEPT ![i] = row]
  /\ older' = [j \in Ids |-> IF j = i THEN Ids \ {i} ELSE older[j] \ {i}]

(* The credentials that were typed are those of some user.                 *)
ServeAuth(c) ==
  /\ c.op = "auth"
  /\ \E u \in Users :
       Answered(c, [c EXCEPT !.status = "ok", !.user = u])
  /\ UNCHANGED server

Live(user) == {i \in Ids : Owns(user, i) /\ ~ rows[i].deleted}

(* Live rows of the user, ORDER BY updated_at DESC: there is one list.     *)
LiveSecrets(user) ==
  LET ranks == 1..Cardinality(Live(user)) IN
  {[k \in ranks |-> SecretOf(ids[k])] :
     ids \in {f \in [ranks -> Live(user)] :
                \A j, k \in ranks : j < k => f[k] \in older[f[j]]}}

ServeList(c) ==
  /\ c.op = "list"
  /\ \E list \in LiveSecrets(c.user) :
       Answered(c, [c EXCEPT !.status = "ok", !.list = list])
  /\ UNCHANGED server

(* GetItem answers with a deleted item too.                                *)
ServeGet(c) ==
  /\ c.op = "get"
  /\ Owns(c.user, c.id)
  /\ Answered(c, [c EXCEPT !.status = "ok", !.got = SecretOf(c.id)])
  /\ UNCHANGED server

(* Sync, whose rows are only counted; DownloadBinary and the file.         *)
ServeOther(c) ==
  /\ c.op \in {"sync", "save"}
  /\ Answered(c, [c EXCEPT !.status = "ok"])
  /\ UNCHANGED server

ServeCreate(c) ==
  /\ c.op = "create"
  /\ \E i \in Ids :
       LET row == [owner |-> c.user, type |-> c.type, version |-> 1,
                   deleted |-> FALSE, readable |-> TRUE] IN
       /\ rows[i] = None
       /\ Write(i, row)
       /\ OkOrLost(c, [c EXCEPT !.status = "ok", !.got =
            [id |-> i, type |-> c.type, version |-> 1, deleted |-> FALSE,
             readable |-> TRUE]])

Matches_AnyVersion(c) == Owns(c.user, c.id) /\ ~ rows[c.id].deleted

(* WHERE id, user_id, version = expected AND deleted_at IS NULL            *)
Matches(c) ==
  /\ Owns(c.user, c.id)
  /\ ~ rows[c.id].deleted
  /\ rows[c.id].version = c.version

ServeUpdate(c) ==
  /\ c.op = "update"
  /\ Matches(c)
  /\ rows[c.id].version < MaxVersion
  /\ LET next == rows[c.id].version + 1 IN
     /\ Write(c.id, [rows[c.id] EXCEPT !.version = next, !.type = c.type,
                                       !.readable = TRUE])
     /\ OkOrLost(c, [c EXCEPT !.status = "ok", !.got =
          [id |-> c.id, type |-> c.type, version |-> next,
           deleted |-> FALSE, readable |-> TRUE]])

ServeDelete(c) ==
  /\ c.op = "delete"
  /\ Matches(c)
  /\ rows[c.id].version < MaxVersion
  /\ Write(c.id, [rows[c.id] EXCEPT !.version = @ + 1, !.deleted = TRUE])
  /\ OkOrLost(c, [c EXCEPT !.status = "ok"])

(* Refused by the server, or it was not reached.                           *)
Fail(c) ==
  /\ Answered(c, [c EXCEPT !.status = "error"])
  /\ UNCHANGED server

Serve(c) ==
  /\ c \in inflight
  /\ c.status = "sent"
  /\ \/ ServeAuth(c)   \/ ServeList(c)   \/ ServeGet(c) \/ ServeOther(c)
     \/ ServeCreate(c) \/ ServeUpdate(c) \/ ServeDelete(c)
     \/ Fail(c)
  /\ UNCHANGED ui

(* Another device, whose payloads may be of a newer schema.                *)
OtherDevice ==
  /\ \E i \in Ids, u \in Users, t \in Types, r \in BOOLEAN :
       \/ /\ rows[i] = None
          /\ Write(i, [owner |-> u, type |-> t, version |-> 1,
                       deleted |-> FALSE, readable |-> r])
       \/ /\ Owns(u, i) /\ ~ rows[i].deleted
          /\ rows[i].version < MaxVersion
          /\ \/ Write(i, [rows[i] EXCEPT !.version = @ + 1, !.type = t,
                                         !.readable = r])
             \/ Write(i, [rows[i] EXCEPT !.version = @ + 1,
                                         !.deleted = TRUE])
  /\ UNCHANGED <<ui, inflight>>

----------------------------------------------------------------------------
(* Messages                                                                *)

Message(c, op, status) ==
  /\ c \in inflight
  /\ c.op = op /\ c.status = status
  /\ screen # "quit"

Done_StaysBusy(c) ==
  /\ inflight' = inflight \ {c}
  /\ UNCHANGED busy

Done(c) ==
  /\ busy' = FALSE
  /\ inflight' = inflight \ {c}

(* The handler goes on with loadSecretsCmd.                                *)
DoneThenList(c, user) ==
  /\ busy' = TRUE
  /\ inflight' = (inflight \ {c}) \cup {ListCommand(user)}

Failed(c) ==
  /\ \E op \in Ops : Message(c, op, "error")
  /\ Done(c)
  /\ UNCHANGED <<screen, authMode, inputs, focus, secrets, selected, current,
                 shown, form, session, ticks, server>>

AuthDone(c) ==
  /\ Message(c, "auth", "ok")
  /\ session' = c.user
  /\ Go("list")
  /\ DoneThenList(c, c.user)
  /\ UNCHANGED <<authMode, inputs, focus, secrets, selected, current, shown,
                 form, ticks, server>>

Clamp(list) ==
  IF selected < Len(list) THEN selected
  ELSE IF list = <<>> THEN 0 ELSE Len(list) - 1

ListDone(c) ==
  /\ Message(c, "list", "ok")
  /\ secrets' = c.list
  /\ selected' = Clamp(c.list)
  /\ Done(c)
  /\ UNCHANGED <<screen, authMode, inputs, focus, current, shown, form,
                 session, ticks, server>>

NewTicks_None(secret) == UNCHANGED ticks

(* One more tick is scheduled for each one-time password that is loaded.   *)
NewTicks(secret) ==
  IF secret.type = "otp" THEN ticks < MaxTicks /\ ticks' = ticks + 1
                         ELSE UNCHANGED ticks

(* secretDoneMsg of a get, an update or a create: formMode is always one   *)
(* of the two modes, so that the list is loaded again after a get as well. *)
SecretDone(c) ==
  /\ \E op \in {"get", "create", "update"} : Message(c, op, "ok")
  /\ current' = c.got
  /\ shown' = c.got
  /\ Go("detail")
  /\ NewTicks(c.got)
  /\ DoneThenList(c, session)
  /\ UNCHANGED <<authMode, inputs, focus, secrets, selected, form, session,
                 server>>

DeleteDone(c) ==
  /\ Message(c, "delete", "ok")
  /\ current' = None
  /\ Go("list")
  /\ DoneThenList(c, session)
  /\ UNCHANGED <<authMode, inputs, focus, secrets, selected, shown, form,
                 session, ticks, server>>

SyncDone(c) ==
  /\ Message(c, "sync", "ok")
  /\ DoneThenList(c, session)
  /\ UNCHANGED <<screen, authMode, inputs, focus, secrets, selected, current,
                 shown, form, session, ticks, server>>

SaveDone(c) ==
  /\ Message(c, "save", "ok")
  /\ Go("detail")
  /\ Done(c)
  /\ UNCHANGED <<authMode, inputs, focus, secrets, selected, current, shown,
                 form, session, ticks, server>>

OtpShown == screen = "detail" /\ current # None /\ current.type = "otp"

Tick_AnyScreen ==
  /\ screen # "quit"
  /\ ticks > 0
  /\ UNCHANGED <<shown, ticks>>
  /\ UNCHANGED <<screen, busy, authMode, inputs, focus, secrets, selected,
                 current, form, session, inflight, server>>

(* otpTickMsg: the detail is rendered again and the tick re-armed while a  *)
(* one-time password is shown; otherwise this tick was the last.           *)
Tick ==
  /\ screen # "quit"
  /\ ticks > 0
  /\ IF OtpShown THEN shown' = current /\ UNCHANGED ticks
                 ELSE ticks' = ticks - 1 /\ UNCHANGED shown
  /\ UNCHANGED <<screen, busy, authMode, inputs, focus, secrets, selected,
                 current, form, session, inflight, server>>

Handle(c) ==
  \/ Failed(c)     \/ AuthDone(c)   \/ ListDone(c) \/ SecretDone(c)
  \/ DeleteDone(c) \/ SyncDone(c)   \/ SaveDone(c)

Keys ==
  \/ WelcomeEnter \/ (\E mode \in {"login", "register"} : AuthMode(mode))
  \/ MoveFocus    \/ SubmitAuth
  \/ ListQuit     \/ ListMove      \/ ListRefresh  \/ ListNew
  \/ ListOpen     \/ ListDelete    \/ ListUpdate
  \/ DetailUpdate \/ DetailDelete  \/ DetailSave   \/ BackToList
  \/ TypeChosen   \/ SubmitForm    \/ ConfirmDelete
  \/ SaveBinary   \/ SaveCancel    \/ Quit

Next ==
  \/ Keys
  \/ Tick
  \/ \E c \in inflight : Serve(c) \/ Handle(c)
  \/ OtherDevice

Spec == Init /\ [][Next]_vars

(* A service call returns: the server answers or the connection breaks.    *)
(* Messages are delivered and timers fire.  Nobody has to press a key.     *)
Fairness ==
  /\ WF_vars(\E c \in inflight : Serve(c))
  /\ WF_vars(\E c \in inflight : Handle(c))
  /\ WF_vars(Tick)

FairSpec == Spec /\ Fairness

----------------------------------------------------------------------------
(* Properties                                                              *)

(* A command runs exactly while keys are dropped, and one at a time: the   *)
(* answers, which move the screen, can never overtake one another.         *)
OneCommandWhileBusy ==
  /\ Cardinality(inflight) <= 1
  /\ busy = (inflight # {})

(* What a handler of the screen shown would index or dereference is there: *)
(* the highlighted row, the focused field, the current secret, whatever    *)
(* list answers, failed forms and deletions came before.                   *)
ScreenHasItsState ==
  /\ focus < Count
  /\ selected < Len(secrets) \/ (selected = 0 /\ secrets = <<>>)
  /\ screen \in {"detail", "delete", "save"} => current # None
  /\ screen = "auth" => inputs.form = authMode
  /\ screen \notin {"welcome", "auth", "quit"} => session # None

(* The fields on screen are those of the secret the form would write, and  *)
(* a form that creates holds nothing of a secret edited before.            *)
FormIsOfItsTarget ==
  screen = "form" =>
    /\ inputs.form = form.kind
    /\ form.mode = "create" => inputs.of = None /\ form.id = None
    /\ form.mode = "update" =>
         inputs.of # None /\ form = EditForm(inputs.of)

OnScreen ==
  CASE screen = "list"               -> ToSet(secrets)
    [] screen = "detail"             -> {shown, current}
    [] screen \in {"delete", "save"} -> {current}
    [] screen = "form"               -> {inputs.of}
    [] OTHER                         -> {}

(* After another user logs in, nothing on screen is of the user before:    *)
(* not a list, a form or a detail whose answer was still on its way.       *)
ShowsOnlyOwnSecrets ==
  \A s \in OnScreen \ {None} : rows[s.id].owner = session

(* The detail page shows the secret that its keys update and delete.       *)
DetailShowsCurrent == screen = "detail" => shown = current

(* While a one-time password is shown a tick is pending, so that the code  *)
(* is renewed.                                                             *)
ShownCodeIsRenewed == OtpShown => ticks > 0

(* The detail page is never stale: it shows what its keys act on, with a   *)
(* code that will be renewed.                                              *)
DetailIsCurrent == DetailShowsCurrent /\ ShownCodeIsRenewed

(* A row this terminal deletes is, version for version, the one whose      *)
(* deletion it asked to confirm; a row it replaces is the one its form was *)
(* filled from, whatever other devices wrote meanwhile.                    *)
ChangesWhatWasOnScreen ==
  [][\A i \in Ids :
       rows[i] # None /\ rows'[i] # rows[i] /\ inflight' # inflight =>
         screen = "quit" \/ OnScreen = {SecretOf(i)}]_vars

(* Every command comes to an end, with the list it loads next: keys are    *)
(* not dropped for ever.                                                   *)
KeysComeBack == busy ~> (~ busy \/ screen = "quit")

(* Once no one-time password is on screen its ticks die out.               *)
TicksDieOut == []<>(ticks = 0 \/ OtpShown \/ screen = "quit")

=============================================================================
