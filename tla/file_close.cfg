\* pposix::file, whose close() keeps the number.
SPECIFICATION Spec
CONSTANTS
  Obj = {f1, f2}
  FileObj = {f1, f2}
  NFd = 2
  MaxOpen = 3
  CloseFailure = {}
  DtorFailure = {}
INVARIANTS OutsideIntact
CHECK_DEADLOCK FALSE
