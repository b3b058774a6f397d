------------------------------- MODULE MCAuth -------------------------------
(* Model-checking instance of Auth: one login may be typed with spaces     *)
(* around it, and one that is all spaces is no login.  Two settings in one *)
(* run: two attempts of any kind, or three that want one login at once.    *)
EXTENDS Auth, TLC

CONSTANTS a3, w1

MCTyped == Logins \cup {"padded", "blank"}

MCTrimSpace ==
  [t \in MCTyped |->
     IF t = "padded" THEN CHOOSE l \in Logins : TRUE
     ELSE IF t = "blank" THEN None ELSE t]

OneLogin(i) == i.login = "ann" /\ i.terminal = "tui" /\ i.master = w1

\* Restricts what users begin, and no step after that.
Settings ==
  \/ input[a3] = None
  \/ \A a \in Attempts : input[a] # None => OneLogin(input[a])

FairSettings == Init /\ [][Next /\ Settings']_vars /\ Fairness

=============================================================================
