SPECIFICATION Spec
CONSTANTS
  main = main  side = side  chat = chat  issue = issue  a = a
  NoSlot = NoSlot
  Lane <- IssueLanes
  SlotOf <- IssueSlots
  AgentOf <- IssueAgent
  Slot <- MCSlot
  MainLane <- MCMainLane
  Agent <- MCAgent
  Cap = 2
  MaxAttempts = 2
  Reported = {"network"}
  MaxTask = 3
PROPERTY OnlyNewerSupersedes
