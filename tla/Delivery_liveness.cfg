CONSTANTS
  Source = {s1}
  Replaceable = {}
  Service = {svc}
  OneShot = {}
  Kind = {"usage"}
  BatchLimit = 1
  ChunkLimit = 1
  MaxLines = 2
  MaxGeneration = 0
  MaxTrouble = 1
  MaxLate = 1
SPECIFICATION FairSpec
PROPERTIES
  EveryLineDelivered
  SpoolDrains
CHECK_DEADLOCK FALSE
