SPECIFICATION InboundSpec
CONSTANTS
  x1 = x1  x2 = x2
  Message <- MCMessage
  Kinds <- MCKinds
  MaxTries = 2
  MaxTurns = 3
  MaxSlips = 1
INVARIANT NeverDeadlocked
CHECK_DEADLOCK FALSE
