SPECIFICATION DeliveryOrLockSpec
CONSTANTS
  t1 = t1
  Task <- OneTask
  Slots = 2
  MaxFence = 3
  MaxFault = 3
  Caller = {a1, a2, w1}
  Worktree = {w1}
  Nobody = Nobody
INVARIANT NoRunningRowForgotten
PROPERTIES StaleClaimNeverCompletes SavedResultOnlySwept SavedReportSettles  IsPathLock ClosedCallerLeaves
CHECK_DEADLOCK FALSE
