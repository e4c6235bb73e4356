SPECIFICATION Spec
CONSTANTS
  Vectors = {v1, v2}
  Buffers = {b1, b2, b3}
  Values = {x, y}
  Min = 2
  MaxSize = 5
SYMMETRY Symmetry
INVARIANTS
  BuffersOwned
  SizesAgree
PROPERTIES
  RefinesVectorSpec

