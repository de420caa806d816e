SPECIFICATION Spec
CONSTANTS
  o1 = o1
  o2 = o2
  x1 = x1
  x2 = x2
  NoSlice = NoSlice
  Objects <- OneObject
  Slots <- TwoSlots
  Buffers <- OneBuffer
  Word = 16
  MaxLen = 7
  Offsets = {0, 2}
  Sizes = {1, 3}
  MaxKeys = 1
INVARIANT SubSliceOfParent
CHECK_DEADLOCK FALSE
