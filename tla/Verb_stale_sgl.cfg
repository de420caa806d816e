SPECIFICATION Spec
CONSTANTS
  word = word
  odd = odd
  block = block
  i1 = i1
  i2 = i2
  x1 = x1
  r1 = r1
  None = None
  Garbage = Garbage
  Slices <- WordAndBlock
  SizeOf <- SizesOfTwo
  Aligned <- AlignedOfAll
  Ids = {i1}
  Imms = {x1}
  Operands = {0}
  Remotes = {r1}
  MaxSge = 2
  MaxLength = 32
  WithMoves = FALSE
INVARIANT GetWrReflectsVerb
CHECK_DEADLOCK FALSE
