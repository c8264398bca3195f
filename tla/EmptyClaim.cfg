SPECIFICATION CacheOrGraphSpec
CONSTANTS
  t1 = t1  t2 = t2  c1 = c1  c2 = c2
  Task <- MCTask
  Legacy <- MCLegacy
  Claimer <- MCClaimer
  RedisErrors = TRUE
  MaxVersion = 3
  MaxFault = 1
  p = p  d = d
  PlanTask = {k1, k2, k3, k4}
  Node = {p, d}
  HardEdge <- OneEdge
  Worker = {r1, r2}
  NoNode = NoNode
  MaxEdits = 2
  MaxDeaths = 1
INVARIANTS AnnouncedTaskVisible PlanIsRight
PROPERTIES QueuedTaskReachesClaim GateHolds ReadyIssueIsServed OpenQueueMoves
