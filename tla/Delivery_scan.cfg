CONSTANTS
  Source = {s1}
  Replaceable = {s1}
  Service = {svc}
  OneShot = {cli}
  Kind = {"invalid"}
  BatchLimit = 2
  ChunkLimit = 2
  MaxLines = 2
  MaxGeneration = 1
  MaxTrouble = 1
  MaxLate = 0
SPECIFICATION Spec
INVARIANTS
  CheckpointCovered
  LineQueuedOnce
  BaselineBoundary
CHECK_DEADLOCK FALSE
