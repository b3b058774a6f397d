------------------------------- MODULE MCCli --------------------------------
(* Model-checking instance of Cli: two files of one name, of one chunk and *)
(* of two.  Three settings in one run: two commands of any kind; one that  *)
(* creates a secret and two that get it at once; one that creates, one     *)
(* that gets and one that changes a secret.                                *)
EXTENDS Cli, TLC

CONSTANTS c1, c2, c3, f1, f2, n1

ChunksOf == [f \in Files |-> IF f = f1 THEN 1 ELSE 2]
SameName == [f \in Files |-> n1]

Symmetry == Permutations({c1, c2}) \cup Permutations(Ids)

Given == {command[c] : c \in Commands} \ {None}

(* Uploads meet in items only: one of several chunks is enough.            *)
TwoCommands ==
  /\ command[c3] = None
  /\ \/ \E c \in {c1, c2} : command[c] = None
     \/ \E cmd \in Given : cmd.binary => cmd.file = f1

Kind(kinds) ==
  {c \in Commands : command[c] # None /\ command[c].kind \in kinds}

OneCreate ==
  /\ Cardinality(Kind({"create"})) <= 1
  /\ Kind({"create"}) \subseteq {c1, c2}
  /\ \A cmd \in Given :
       \/ cmd.kind = "get"
       \/ cmd.kind = "create" /\ cmd.binary /\ cmd.file = f1

OneOfEach ==
  /\ Cardinality(Kind({"create"})) <= 1
  /\ Cardinality(Kind({"get"})) <= 1
  /\ Kind({"create", "get"}) \subseteq {c1, c2}
  /\ Kind({"update", "delete"}) \subseteq {c3}
  /\ \A cmd \in Given :
       /\ Writes(cmd) => cmd.binary /\ cmd.file = f1
       /\ cmd.version \in {0, 1}

(* Another program's file is of interest to a get only.                    *)
Setting ==
  /\ TwoCommands \/ OneCreate \/ OneOfEach
  /\ (\E n \in Names : disk[n] = "foreign") => Kind({"get"}) # {}

SpecSettings == Init /\ [][Next /\ Setting']_vars

=============================================================================
