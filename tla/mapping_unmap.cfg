\* It may call unmap() on any handle.
SPECIFICATION Spec
CONSTANTS
  Obj = {o1, o2, o3}
  Unmapper = {o1, o2, o3}
  NPage = 4
  MaxMap = 4
SYMMETRY HandleSymmetry
INVARIANTS MappingsIntact
CHECK_DEADLOCK FALSE
