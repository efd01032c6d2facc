SPECIFICATION LibcSpec
CONSTANTS
  Byte = 2
  MemSize = 2
  Registers = {p, q}
  Null = Null
  Broken = Broken
  MaxSteps = 4
  Deviations = {}
  p = p
  q = q
SYMMETRY Symmetry
INVARIANTS
  TypeOK
  
  NothingLost
  PathExact
PROPERTIES
  NoSymbolFromNowhere
CHECK_DEADLOCK FALSE
