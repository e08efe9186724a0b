\* Two programs, two places, two priorities: messages overtake each other and
\* a third has to wait.
SPECIFICATION Spec
CONSTANTS
  Handle = {h1, h2}
  Capacity = 2
  PrioMax = 2
  Modes = {"read_write"}
  Events = {"signal"}
  MaxSend = 3
SYMMETRY HandleSymmetry
INVARIANTS TypeOK NothingLost PriorityTold
PROPERTIES TakenInOrder
CHECK_DEADLOCK FALSE
