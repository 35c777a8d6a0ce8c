CONSTANTS
  Logs <- SomeLogs
  Trouble = {"restart", "break", "lost answer", "ignored"}
  MaxTrouble = 1
SPECIFICATION FairSpec
INVARIANTS
  TypeOK
  NewestDecides
  EstimateIsOpen
PROPERTIES
  NeverBehind
  ShowsTheTask
CHECK_DEADLOCK FALSE
