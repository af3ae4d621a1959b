SPECIFICATION Spec
CONSTANTS
  Nothing = Nothing
  a = a
  b = b
  Node = {a, b}
  Flow <- MCFlow
  Tasks = 4
  Rings = 3
  MaxPads <- MCMaxPads
  Ints <- MCInts
  Sizes <- MCSizes
  Fns = 1
  Changes = 5
  Forgets = 1
  Half32 = 4
INVARIANTS TypeOK Alive Kept
CHECK_DEADLOCK FALSE
