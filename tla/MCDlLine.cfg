SPECIFICATION Spec
CONSTANTS
  Looks = {"date", "time"}
  Prompt <- MCPrompt
  Reply <- MCReply
  Noise = {"n"}
  Typed = {"k"}
  SlowEcho = FALSE
  MaxAsks = 2
  MaxTyped = 1
  MaxInits = 1
INVARIANTS PrintedInOrder
PROPERTIES LineMoves
CHECK_DEADLOCK FALSE
