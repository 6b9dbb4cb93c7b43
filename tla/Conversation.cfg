CONSTANTS
  Ids = {1, 2}
  Selections <- OnlyCalendar
  Tasks <- ReadAndReuse
  PageSize = 1  MaxPages = 1  MaxBuffers = 2
  MaxCommands = 4  MaxTroubles = 1
SPECIFICATION FairSpec
CHECK_DEADLOCK FALSE
INVARIANTS ClosedMeansErased ActionsAreAccounted
PROPERTIES RecordsAreFinal CloseSucceeds
