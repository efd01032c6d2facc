SPECIFICATION Spec
CONSTANTS
  Byte = 2
  MemSize = 2
  Registers = {p, q}
  Null = Null
  Broken = Broken
  MaxSteps = 5
  Deviations = {"select"}
  p = p
  q = q
SYMMETRY Symmetry
INVARIANTS
  NothingLost
CHECK_DEADLOCK FALSE
