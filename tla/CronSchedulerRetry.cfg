SPECIFICATION FairSpec
CONSTANTS
  r1 = r1  r2 = r2
  Runner <- OneRunner
  Jobs <- EveryPlan
  Window = 6
  PlansPerTick = 2
  StaleTimeout = 2
  Backoff = 3
  MaxAttempts = 2
  MaxTime = 6
  MaxPlan = 3
  MaxFault = 0
PROPERTY EveryPlanRetried
