-------------------------------- MODULE Forms -------------------------------
(***************************************************************************)
(* What becomes of the fields of a secret between the user and the vault:  *)
(* typed at a prompt of the CLI or into a form of the TUI, trimmed,        *)
(* checked and encoded by the payload schemas, decoded again, shown in an  *)
(* edit form, and saved from there.                                        *)
(*                                                                         *)
(* The fields of a secret are handled one by one and alike: the model      *)
(* follows one field of one secret, whichever it is, the others being      *)
(* well-formed.  Of a text it keeps what the conversions tell apart.       *)
(***************************************************************************)

CONSTANTS None

(* Nothing but blanks; some words; more than a form's input holds; as many *)
(* as it holds, cut from more.                                             *)
Words == {"none", "some", "many", "cut"}

(* A text also has blanks around its words or not, and line breaks or tabs *)
(* in it or not.                                                           *)
Text == [words: Words, pad: BOOLEAN, lines: BOOLEAN]

Empty == [words |-> "none", pad |-> FALSE, lines |-> FALSE]

Typable == {t \in Text : t.words # "cut"}

(* Which kind of secret has a field is told by its name alone.             *)
Fields == {"title", "text", "login", "password", "url", "notes", "number",
           "cardholder", "month", "year", "cvv", "content type", "issuer",
           "account", "otp secret"}

(* The CLI knows no OTP secrets.                                           *)
CliFields == Fields \ {"issuer", "account", "otp secret"}

VARIABLES
  field,   \* the field followed
  vault,   \* its value in the vault, decrypted and decoded
  writer,  \* the client that wrote it
  typed,   \* what the user gave that client
  form,    \* the value in the TUI's input
  opened   \* the value in the vault an edit form was filled from

vars == <<field, vault, writer, typed, form, opened>>

TypeOK ==
  /\ field \in Fields
  /\ vault \in Text \cup {None}
  /\ writer \in {"cli", "tui", None}
  /\ typed \in Text \cup {None}
  /\ form \in Text \cup {None}
  /\ opened \in Text \cup {None}
  /\ form # None => form.words # "many" /\ ~ form.lines

Init ==
  /\ field \in Fields
  /\ vault = None
  /\ writer = None
  /\ typed = None
  /\ form = None
  /\ opened = None

----------------------------------------------------------------------------
(* Conversions                                                             *)

(* strings.TrimSpace.                                                      *)
Trim(t) == IF t.words = "none" THEN Empty ELSE [t EXCEPT !.pad = FALSE]

(* textinput: tabs and line breaks become spaces, and what is beyond       *)
(* CharLimit is dropped.                                                   *)
Holds(t) ==
  [words |-> IF t.words = "many" THEN "cut" ELSE t.words,
   pad   |-> t.pad \/ (t.words = "none" /\ t.lines),
   lines |-> FALSE]

(* The fields secretInputFromForm, or the schema behind it, trims.         *)
TrimmedByTui == {"url", "notes", "content type", "issuer", "account",
                 "otp secret"}

(* Prompt trims every answer; PromptHidden does not.                       *)
TrimmedByCli == CliFields \ {"text", "password", "cvv"}

TuiInput(t) == IF field \in TrimmedByTui THEN Trim(t) ELSE t
CliInput(t) == IF field \in TrimmedByCli THEN Trim(t) ELSE t

(* The checks of the Encode functions: the texts that must have words, and *)
(* those that must only not be empty.  The title has no check there.       *)
Accepts(t) ==
  /\ field \in {"login", "number", "cardholder", "month", "year",
                "otp secret"} => t.words # "none"
  /\ field \in {"text", "password"} => t # Empty

(* promptRequired, and the CLI's own check of the title.                   *)
CliAccepts(t) == Accepts(t) /\ (field = "title" => t # Empty)

----------------------------------------------------------------------------
(* The command line client: create and update ask for every field          *)

(* A prompt reads one line.                                                *)
CliWrite(t) ==
  /\ field \in CliFields
  /\ ~ t.lines
  /\ CliAccepts(CliInput(t))
  /\ vault' = CliInput(t)
  /\ writer' = "cli"
  /\ typed' = t
  /\ UNCHANGED <<field, form, opened>>

----------------------------------------------------------------------------
(* The terminal UI: a form for a new secret, or one filled from a secret   *)

(* startCreateForm.                                                        *)
NewForm ==
  /\ form' = Empty
  /\ opened' = None
  /\ UNCHANGED <<field, vault, writer, typed>>

EditForm_Empty ==
  /\ vault # None
  /\ form' = Empty
  /\ opened' = vault
  /\ UNCHANGED <<field, vault, writer, typed>>

(* inputsFromSecret.                                                       *)
EditForm ==
  /\ vault # None
  /\ form' = Holds(vault)
  /\ opened' = vault
  /\ UNCHANGED <<field, vault, writer, typed>>

(* The user clears the input and types or pastes a text.                   *)
Type(t) ==
  /\ form # None
  /\ form' = Holds(t)
  /\ typed' = t
  /\ opened' = None
  /\ UNCHANGED <<field, vault, writer>>

(* secretInputFromForm and the Encode function it calls.                   *)
Save ==
  /\ form # None
  /\ Accepts(TuiInput(form))
  /\ vault' = TuiInput(form)
  /\ writer' = "tui"
  /\ form' = None
  /\ UNCHANGED <<field, typed, opened>>

Leave ==
  /\ form # None
  /\ form' = None
  /\ opened' = None
  /\ UNCHANGED <<field, vault, writer, typed>>

Next ==
  \/ \E t \in Typable : CliWrite(t) \/ Type(t)
  \/ NewForm \/ EditForm \/ Save \/ Leave

Spec == Init /\ [][Next]_vars

----------------------------------------------------------------------------
(* Properties                                                              *)

(* An edit form that is saved as it was opened does not change a field the *)
(* TUI wrote, nor one the CLI wrote unless it trims, or cannot hold, what  *)
(* the CLI takes.                                                          *)
UnchangedFormKeepsField ==
  [][ /\ Save
       /\ opened # None
       /\ opened = vault
       /\ \/ writer = "tui"
          \/ vault = Trim(vault) /\ vault.words # "many"
      => vault' = vault ]_vars

(* Whatever is in the vault can be edited: a form filled from it is        *)
(* accepted as it is.                                                      *)
WhatIsStoredCanBeSaved ==
  opened # None /\ form # None => Accepts(TuiInput(form))

(* What the schemas require is there for both clients, whichever wrote it: *)
(* a field that identifies or protects something is never stored blank.    *)
RequiredIsStored ==
  vault # None =>
    /\ field \in {"login", "number", "cardholder", "month", "year",
                  "otp secret"} => vault.words # "none"
    /\ field \in {"text", "password"} => vault # Empty

(* A field goes through the forms of both clients and stays what it must   *)
(* be: stored, shown, edited and saved again.                              *)
FieldsSurviveForms ==
  [](WhatIsStoredCanBeSaved /\ RequiredIsStored) /\ UnchangedFormKeepsField

=============================================================================
