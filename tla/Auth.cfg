SPECIFICATION FairSettings
CONSTANTS
  a3 = a3
  w1 = w1
  Attempts = {a1, a2, a3}
  Logins = {"ann", "bob"}
  Typed <- MCTyped
  TrimSpace <- MCTrimSpace
  Words = {w1, w2}
  Terminals = {"cli", "tui"}
  None = None
INVARIANTS
  AccountsAreAllOrNothing
  SessionsAreOfAccounts
PROPERTIES
  RefusalIsRight
  ImplementsAccounts
  AttemptsEnd
CHECK_DEADLOCK FALSE
