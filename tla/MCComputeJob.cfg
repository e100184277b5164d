SPECIFICATION JobSpec
CONSTANTS
  b1 = b1
  b2 = b2
  s1 = s1
  s2 = s2
  BO = {b1, b2, s1, s2}
  Shader = {s1, s2}
  Dword <- Register
  Access <- AnyAccess
  Home <- HomeOf
  Late = FALSE
  MaxSpaceBos = 6
  MaxQueue = 20
  MaxPers = 4
  MaxBuf = 20
  MaxSent = 3
  MaxJobs = 2
  MaxSets = 2
SYMMETRY Symmetry
INVARIANTS
  JobTypeOK
  FlushSucceeds
  ReadbackCurrent
CHECK_DEADLOCK FALSE
