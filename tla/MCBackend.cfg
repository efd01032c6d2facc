SPECIFICATION Spec
CONSTANTS
  Bits = 2
  Big = 6
  IntLiterals = {3}
  Literals <- MCLiterals
  InputLen = 2
  Inputs <- MCInputs
  Registers = {r1, r2}
  Null = Null
  NaN = NaN
  MaxSteps = 4
  r1 = r1
  r2 = r2
SYMMETRY Symmetry
INVARIANTS
  
  
  SolverKnowsPath
  VariablesDistinct
CHECK_DEADLOCK FALSE
