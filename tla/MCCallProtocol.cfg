SPECIFICATION Spec
CONSTANTS
  Expr = {e1, e2}
  Null = Null
  Slots = 2
  MaxArity = 2
  MaxDepth = 3
  Callbacks = FALSE
  e1 = e1
  e2 = e2
INVARIANTS
  TypeOK
  ParamsExact
  ResultExact
  AwaitedSlotEmpty
