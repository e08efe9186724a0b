\* Views of a block of 5 bytes; a size_t has 3 bits, an int 2, so that 5
\* becomes 1.  No operation reads two views: one variable reaches every chain.
SPECIFICATION Spec
CONSTANTS
  Slot = {s1}
  Kernel = kernel
  BlockLen = 5
  SizeMod = 8
  IntMod = 4
  NameLen = 2
SYMMETRY SlotSymmetry
INVARIANTS TypeOK StaysInside NullIsEmpty
