SPECIFICATION PagesSpec
CONSTANTS
  OpenPages = {"blocking"}
  First = First
  Mine = Mine
  Landed = Landed
  MaxRead = 2
  Mixes <- FewEvents
  MaxClicks = 4
  Levels = {30, 60}
  MaxLog = 2
  MaxReads = 1
  MaxSlips = 1
  Size = 3
  ImageConcurrency = 2
  MaxTurns = 3
  MaxCheckpoints = 2
  MaxEdits = 2
  MaxRestores = 1
  MaxUpsets = 0
  MaxDoings = 5
INVARIANTS TurnsSurvive
CHECK_DEADLOCK FALSE
