SPECIFICATION Spec
CONSTANTS
  o1 = o1
  o2 = o2
  Object = {o1, o2}
  Line = 8
  WordSize = 64
  ObjectSize = 16
  VtxDwords <- FewDwords
  ConstBytes <- FewBytes
  CodeBytes <- CodeSizes
  Offset <- SecondLine
  MaxQueue = 3
SYMMETRY Objects
INVARIANTS
  FreshReads
