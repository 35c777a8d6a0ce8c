CONSTANTS
  s1 = s1
  s2 = s2
  Source = {s1}
  NoParent = none
  Parent <- Alone
  Naming = "in usage lines"
  Turns = TRUE
  Allowed = {"rewrite"}
  Delta = {0, 1}
  MaxLines <- Three
  MaxGeneration = 2
SPECIFICATION Spec
INVARIANTS
  TypeOK
  NoOvercount
  ExactWhenQuiet
CHECK_DEADLOCK FALSE
