CONSTANTS
  Source = {s1}
  Replaceable = {s1}
  Service = {svc}
  OneShot = {}
  Kind = {"usage", "other"}
  BatchLimit = 2
  ChunkLimit = 1
  MaxLines = 2
  MaxGeneration = 0
  MaxTrouble = 1
  MaxLate = 0
SPECIFICATION Spec
PROPERTIES
  TruncationAdvancesEpoch
CHECK_DEADLOCK FALSE
