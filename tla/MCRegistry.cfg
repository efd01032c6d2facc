SPECIFICATION Spec
CONSTANTS
  Addr = {a1, a2, a3}
  Leaves = {x, y}
  Locals = {l1, l2}
  Region = {r1}
  Shadow = {s1}
  Threshold = 2
  MaxDepth = 2
  Null = Null
  a1 = a1
  a2 = a2
  a3 = a3
  x = x
  y = y
  l1 = l1
  l2 = l2
  r1 = r1
  s1 = s1
SYMMETRY Symmetry
INVARIANTS
  PointersValid

  
