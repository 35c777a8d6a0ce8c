CONSTANTS
  Source = {s1}
  Replaceable = {}
  Service = {svc}
  OneShot = {cli}
  Kind = {"usage"}
  BatchLimit = 2
  ChunkLimit = 2
  MaxLines = 2
  MaxGeneration = 0
  MaxTrouble = 0
  MaxLate = 0
SPECIFICATION Spec
INVARIANT HistoryStays
CHECK_DEADLOCK FALSE
