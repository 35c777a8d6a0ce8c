CONSTANTS
  s1 = s1
  s2 = s2
  Source = {s1, s2}
  NoParent = none
  Parent <- Forked
  Naming = "never"
  Turns = TRUE
  Allowed = {}
  Delta = {1, 2}
  MaxLines <- OneAndThree
  MaxGeneration = 1
SPECIFICATION Spec
INVARIANTS
  NoOvercount
  ExactWhenQuiet
CHECK_DEADLOCK FALSE
