SPECIFICATION Spec
CONSTANTS
  RatId <- AllRats
  CacheId <- Ends
  FetchId <- FetchEnds
  LoopCount <- LoopCounts
  Start <- TwoStarts
  LocalSize <- Groups
  ChipFamily = "CYPRESS"
  MaxCalls = 2
CHECK_DEADLOCK FALSE
INVARIANTS
  ImmedOfRat
