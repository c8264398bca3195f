SPECIFICATION FairSpec
CONSTANTS
  t1 = t1  t2 = t2  c1 = c1  c2 = c2
  Task <- MCTask
  Legacy <- MCLegacy
  Claimer <- MCClaimer
  RedisErrors = FALSE
  MaxVersion = 2
  MaxFault = 0
INVARIANT QueuedTaskClaimableOnNextCall
