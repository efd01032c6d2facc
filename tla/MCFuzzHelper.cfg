SPECIFICATION Spec
CONSTANTS
  i1 = i1
  i2 = i2
  NoInput = NoInput
  t1 = t1
  t2 = t2
  t3 = t3
  t4 = t4
  Inputs <- MCInputs
  Tests <- MCTests
  Score <- MCScore
  Named = {i1, i2}
  Edges = {1, 2}
  Cov <- MCCov
  Outcome <- MCOutcome
  Statuses = {"exit", "124", "137", "signal"}
  MaxTests = 2
  MaxVanish = 1
INVARIANTS
  TypeOK
  BitmapExplained
  EntriesBringCoverage
  CrashesArchived
  RunOnce
  StatsAgree

  
CHECK_DEADLOCK FALSE
