SPECIFICATION CarelessSpec
CONSTANTS
  b1 = b1
  b2 = b2
  s1 = s1
  s2 = s2
  BO = {b1, s1}
  Shader = {s1}
  Dword <- Register
  Access <- AnyAccess
  Home <- AnyHome
  Late = TRUE
  MaxSpaceBos = 6
  MaxQueue = 20
  MaxPers = 4
  MaxBuf = 20
  MaxSent = 3
  MaxJobs = 2
  MaxSets = 2
INVARIANTS
  ReadbackCurrent
PROPERTY Finishes
CHECK_DEADLOCK FALSE
