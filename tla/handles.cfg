\* No close() that reports failure has released its descriptor, in particular
\* where no close() fails; destructors' closes fail either way (on Linux:
\* released); file::close is not used.
SPECIFICATION ESpec
CONSTANTS
  Obj = {e1, w1, w2, d1}
  EpollObj = {e1}
  DirObj = {d1}
  FileObj = {}
  NFd = 2
  MaxOpen = 3
  CloseFailure = {"kept"}
  DtorFailure = {"released", "kept"}
SYMMETRY KindSymmetry
INVARIANTS ETypeOK SoleCloser OutsideIntact StreamIntact DataNamesSource
PROPERTIES RightTarget ImplementsOwnership
CHECK_DEADLOCK FALSE
