SPECIFICATION Spec
CONSTANTS
  p1 = p1
  p2 = p2
  Nobody = Nobody
  Prog = {p1, p2}
  StartOf <- Starts
  ShaderOf <- Shaders
  LocalOf <- Groups
  Single = {"lds", "gds", "ring", "export", "engine"}
  RatId <- TwoRats
  LoopCount <- OneLoop
  ChipFamily = "CYPRESS"
  MaxJobs = 2
  MaxSets = 1
CHECK_DEADLOCK FALSE
INVARIANTS
  TypeOK
  OwnRegisters
