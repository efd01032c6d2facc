SPECIFICATION Spec
CONSTANTS
  Expr = {e1, e2}
  Null = Null
  Slots = 2
  MaxArity = 2
  MaxDepth = 3
  Callbacks = TRUE
  e1 = e1
  e2 = e2
INVARIANT
  ResultExact
