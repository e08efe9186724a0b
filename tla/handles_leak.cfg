\* A close() that fails has released the descriptor or kept it, a destructor's
\* has released it (Linux); file::close is used.
SPECIFICATION DSpec
CONSTANTS
  Obj = {o1, o2, f1, d1}
  FileObj = {f1}
  DirObj = {d1}
  NFd = 2
  MaxOpen = 4
  CloseFailure = {"released", "kept"}
  DtorFailure = {"released"}
SYMMETRY ClassSymmetry
INVARIANTS NoLeak
CHECK_DEADLOCK FALSE
