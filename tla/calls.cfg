\* Every kind of wrapper, interrupted anywhere by handlers that call wrappers.
SPECIFICATION Spec
CONSTANTS
  Used <- OneOfEach
  Dirty <- AnyButConfstr
  MaxErrc = 2
  MaxDepth = 3
INVARIANTS TypeOK TellsOutcome
PROPERTIES ContextInvisible
CHECK_DEADLOCK FALSE
