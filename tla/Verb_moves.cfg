SPECIFICATION Spec
CONSTANTS
  word = word
  odd = odd
  block = block
  i1 = i1
  i2 = i2
  x1 = x1
  r1 = r1
  None = None
  Garbage = Garbage
  Slices <- AllSlices
  SizeOf <- SizesOfAll
  Aligned <- AlignedOfAll
  Ids = {i1}
  Imms = {}
  Operands = {0}
  Remotes = {r1}
  MaxSge = 2
  MaxLength = 16
  WithMoves = TRUE
INVARIANT Coherent
INVARIANT FieldsCoherent
INVARIANT AtomicCapable
CHECK_DEADLOCK FALSE
