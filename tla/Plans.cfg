CONSTANTS
  Model <- Models
  TotGpu = 4
  Unit = 2
  Searches <- AllSearches
SPECIFICATION FairSpec
INVARIANTS
  TypeOK
  FeedsTheScheduler
  OvertakenOnlyFromBelow
  NoEmptyStage
PROPERTIES
  SearchEnds
CHECK_DEADLOCK FALSE
