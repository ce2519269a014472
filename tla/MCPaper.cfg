SPECIFICATION Spec
CONSTANTS
  a = a
  b = b
  c = c
  Intents = {a, b, c}
  Size = 3
  Parts = {1}
  Seed = 9
  Prices = {1, 2}
  TpPrices = {1, 2}
  MinOrder = 2
  MaxSeq = 6
SYMMETRY MCSymmetry
INVARIANT TypeOK
INVARIANT Restored
INVARIANT Closable
INVARIANT SoldOnce
