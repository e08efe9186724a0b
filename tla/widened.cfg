\* epoll::wait, epoll::pwait and ioctl.
SPECIFICATION Spec
CONSTANTS
  Used <- Widened
  Dirty <- AnyButConfstr
  MaxErrc = 2
  MaxDepth = 2
INVARIANTS TellsOutcome
CHECK_DEADLOCK FALSE
