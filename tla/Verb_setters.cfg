SPECIFICATION Spec
CONSTANTS
  word = word
  odd = odd
  block = block
  i1 = i1
  i2 = i2
  x1 = x1
  r1 = r1
  None = None
  Garbage = Garbage
  Slices <- AllSlices
  SizeOf <- SizesOfAll
  Aligned <- AlignedOfAll
  Ids = {i1, i2}
  Imms = {x1}
  Operands = {0, 1}
  Remotes = {r1}
  MaxSge = 2
  MaxLength = 32
  WithMoves = FALSE
INVARIANT TypeOK
INVARIANT FieldsCoherent
INVARIANT SameLengthReuse
INVARIANT DanglingExplained
CHECK_DEADLOCK FALSE
