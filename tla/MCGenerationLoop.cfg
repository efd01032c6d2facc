SPECIFICATION Spec
CONSTANTS
  b00 = b00
  b01 = b01
  b10 = b10
  b11 = b11
  empty = empty
  n1 = n1
  n2 = n2
  Inputs <- MCInputs
  Program <- MCProgram
  Blocks = {1, 2, 4, 16}
  TraceSize = 32
  Trouble = {"killed"}
  Names = {n1, n2}
  Seeds = {b00, empty}
  Found <- ExactGrep
INVARIANTS
  TestsKept
  
PROPERTIES
  
  Terminates
CHECK_DEADLOCK FALSE
