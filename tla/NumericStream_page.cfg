CONSTANTS
  Conversation = {1}
  Browser = {b1}
  Hidden = {}
  Blank = Blank
  Query = {"24h"}
  Rolling = {"24h"}
  Length <- ShortDays
  Start = 1
  MaxViews = 1
  MaxCached = 1
  Kind = {"usage", "metadata", "rename", "activity"}
  Trouble = {"restart", "break", "lost answer", "database error", "large change", "suspend", "slow stream", "show"}
  MaxEvents = 2
SPECIFICATION Spec
INVARIANTS
  TypeOK
  ViewExact
  SameRevisionSameRows
  SeqCovers
PROPERTIES
  Promised
  CatchesUp
CHECK_DEADLOCK FALSE
