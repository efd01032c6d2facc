SPECIFICATION Spec
CONSTANTS
  Length = 3
  MaxFd = 4
  Sizes = {1, 2}
  ItemSizes = {1}
  Nuls = {}
  Stale = {0}
  MayClose = {"other"}
INVARIANTS
  TypeOK
  
  OffsetExact
  
