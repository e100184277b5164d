SPECIFICATION Spec
CONSTANTS
  Byte <- Chars
  WordSize = 8
  HeaderSize = 10
  Checked = 8
  Align = 4
  CodeSize <- CodeSizes
  Garbage = 9
CHECK_DEADLOCK FALSE
INVARIANTS
  TypeOK
  LoadedIntact
