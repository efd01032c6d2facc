SPECIFICATION Spec
CONSTANTS
  PageSize = 2
  MaxAddr = 5
  Sym = {e}
  Wide = {}
  StoreLen = {2}
  FillLen = {0, 1}
  CopyLen = {1, 3, 4}
  Null = Null
  Uninit = Uninit
  e = e
  w = w
INVARIANTS
  TypeOK
  CursorCoherent
  
PROPERTIES
  Refinement
  CallsExact
  NoShadowForConcrete
  
