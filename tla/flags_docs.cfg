\* mmap::map and mmap::protect, and mq::open(name, mode, flags)
SPECIFICATION Spec
CONSTANTS
  Op = {"map_protection", "protect", "mq_open"}
  Text <- MCText
INVARIANTS MessagesKept
CHECK_DEADLOCK FALSE
