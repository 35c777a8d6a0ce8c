CONSTANTS
  Conversation = {1}
  Browser = {b1, b2}
  Hidden = {b2}
  Blank = Blank
  Query = {"24h", "today"}
  Rolling = {"24h"}
  Length <- ShortDays
  Start = 1
  MaxViews = 1
  MaxCached = 1
  Kind = {"usage", "metadata", "rename", "activity"}
  Trouble = {"restart", "break", "lost answer", "database error", "large change", "suspend", "choose"}
  MaxEvents = 1
SPECIFICATION Spec
PROPERTIES
  Promised
  RangeChosen
CHECK_DEADLOCK FALSE
