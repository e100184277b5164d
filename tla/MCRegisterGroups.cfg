SPECIFICATION Spec
CONSTANTS
  RatId <- AllRats
  CacheId <- Ends
  FetchId <- FetchEnds
  LoopCount <- LoopCounts
  Start <- TwoStarts
  LocalSize <- LargeGroups
  ChipFamily = "CYPRESS"
  MaxCalls = 1
CHECK_DEADLOCK FALSE
INVARIANTS
  WithinFields
