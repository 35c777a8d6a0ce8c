CONSTANTS
  Conversation = {1}
  Browser = {b1}
  Hidden = {}
  Blank = Blank
  Query = {"24h"}
  Rolling = {"24h"}
  Length <- ShortDays
  Start = 1
  MaxViews = 1
  MaxCached = 1
  Kind = {"usage", "rename"}
  Trouble = {}
  MaxEvents = 2
SPECIFICATION Spec
INVARIANT RenameShown
CHECK_DEADLOCK FALSE
