SPECIFICATION Spec
CONSTANTS
  t1 = t1
  Task <- OneTask
  Slots = 1
  MaxFence = 1
  MaxFault = 0
PROPERTY BlockedForOpenTask
CHECK_DEADLOCK FALSE
