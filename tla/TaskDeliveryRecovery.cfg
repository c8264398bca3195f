SPECIFICATION Spec
CONSTANTS
  t1 = t1
  Task <- OneTask
  Slots = 1
  MaxFence = 1
  MaxFault = 1
PROPERTY RecoveryLeavesLiveRunsAlone
CHECK_DEADLOCK FALSE
