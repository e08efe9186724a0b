\* Two programs that do as they like and a consumer that relies on notification.
SPECIFICATION CSpec
CONSTANTS
  Handle = {h1, h2, c}
  C = c
  Capacity = 1
  PrioMax = 1
  Modes = {"read_write"}
  Events = {"signal"}
  MaxSend = 2
PROPERTIES TimedReturns EveryMessageArrives
CHECK_DEADLOCK FALSE
