CONSTANTS
  Source = {s1}
  Replaceable = {}
  Service = {svc}
  OneShot = {cli}
  Kind = {"usage"}
  BatchLimit = 2
  ChunkLimit = 2
  MaxLines = 2
  MaxGeneration = 1
  MaxTrouble = 0
  MaxLate = 1
SPECIFICATION Spec
INVARIANTS
  TypeOK
  NoQueuedEventLost
  CheckpointCovered
  InOrder
  AppliedOnce
PROPERTIES
  Promise
CHECK_DEADLOCK FALSE
