SPECIFICATION FairSpec
CONSTANTS
  r1 = r1  r2 = r2
  Runner <- TwoRunners
  Jobs <- KnownJobs
  Window = 4
  PlansPerTick = 2
  StaleTimeout = 1
  Backoff = 1
  MaxAttempts = 2
  MaxTime = 4
  MaxPlan = 2
  MaxFault = 1
INVARIANT OneRunnerPerAttempt
PROPERTIES SettledForGood LeaseLostOnlyWhenLapsed AbandonedLeaseCloses DuePlanRetried
