SPECIFICATION ChatRunSpec
CONSTANTS
  x1 = x1  x2 = x2
  Message <- MCMessage
  Kinds <- MCKinds
  MaxTries = 2
  MaxTurns = 3
  MaxSlips = 1
  main = main  side = side  chat = chat  issue = issue  a = a
  NoSlot = NoSlot
  Lane <- ChatLanes
  SlotOf <- ChatSlots
  AgentOf <- ChatAgent
  Slot <- MCSlot
  MainLane <- MCMainLane
  Agent <- MCAgent
  Cap = 1
  MaxAttempts = 2
  Reported = {"infra", "fatal"}
  MaxTask = 3
  Dispatch = {d1, d2}
  Window = 4
  HintMargin = 1
  RetryInterval = 1
  PrepareLease = 2
  PollInterval = 1
  MaxMishaps = 1
INVARIANTS AgentCapacity ChatRunTypesOK FoundByBackstop FoundByHint IngestedOnce HeldForMedia
PROPERTIES RetryBeforeNewerTurn StoredIsServed
