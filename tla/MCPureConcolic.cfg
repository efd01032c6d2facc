SPECIFICATION ProcSpec
CONSTANTS
  b00 = b00
  b01 = b01
  b10 = b10
  b11 = b11
  empty = empty
  Inputs <- MCInputs
  Program <- MCProgram
  Blocks = {1, 2, 4, 8}
  TraceSize = 15
  Trouble = {"killed", "torn"}
INVARIANTS
  ProcTypeOK
  CorpusExact
  BranchesSolved
