CONSTANTS
  Source = {s1}
  ChunkLimit = 1
  MaxPending = 1
  Trouble = {"lost notification", "walk error", "stat error", "read error", "crash"}
  MaxLines = 2
  MaxTrouble = 2
SPECIFICATION FairSpec
INVARIANTS
  TypeOK
  PassedOverWhenRead
  Noticed
PROPERTIES
  EveryLineRead
CHECK_DEADLOCK FALSE
