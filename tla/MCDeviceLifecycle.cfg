SPECIFICATION Spec
CONSTANTS
  p1 = p1
  p2 = p2
  p3 = p3
  Server = Server
  Nobody = Nobody
  Proc <- MCProc
  Exclusive <- MCExclusive
  Root <- MCRoot
CHECK_DEADLOCK FALSE
INVARIANTS
  TypeOK
  MasterBelief
  DropSucceeds
  ExclusiveIsMaster
  OneManager
PROPERTY ModeKept
