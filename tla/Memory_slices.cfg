SPECIFICATION Spec
CONSTANTS
  o1 = o1
  o2 = o2
  x1 = x1
  x2 = x2
  NoSlice = NoSlice
  Objects <- TwoObjects
  Slots <- OneSlot
  Buffers <- TwoBuffers
  Word = 16
  MaxLen = 7
  Offsets = {0, 1, 2, 4, 6, 11, 14}
  Sizes = {0, 1, 3, 5, 6, 12, 15}
  MaxKeys = 2
SYMMETRY Symmetry
INVARIANT TypeOK
INVARIANT OwnedOnce
INVARIANT InsideRegistration
CHECK_DEADLOCK FALSE
