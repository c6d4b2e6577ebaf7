SPECIFICATION PagesSpec
CONSTANTS
  OpenPages = {"canvas", "studio", "job", "script", "editor", "blocking"}
  First = First
  Mine = Mine
  Landed = Landed
  MaxRead = 2
  Mixes <- FewEvents
  MaxClicks = 4
  Levels = {30}
  MaxLog = 2
  MaxReads = 1
  MaxSlips = 1
  Size = 3
  ImageConcurrency = 2
  MaxTurns = 3
  MaxCheckpoints = 2
  MaxEdits = 3
  MaxRestores = 2
  MaxUpsets = 1
  MaxDoings = 5
INVARIANTS
  PagesTypeOK
  FeedIsTheCanvas Converged OnlyTheirOwn NothingIsStranded
  ChargedOnce RecordIsWhole StopsOnlyWhenOver
  OneLiveJob StopsAtFailure NothingForgotten
  InSync UndoGoesOneBack
  EditsGoOut
PROPERTIES ProgressNeverDrops
CHECK_DEADLOCK FALSE
