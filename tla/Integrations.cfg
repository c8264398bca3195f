SPECIFICATION IntegrationSpec
CONSTANTS
  Replica = {n1, n2}
  Token = {t1, t2}
  NoToken = NoToken
  Nowhere = Nowhere
  Fingerprint = {a, b}
  LeaseTTL = 3
  SafetyMargin = 2
  StatusWait = 1
  CloseWait = 0
  MaxEvents = 1
  SyncWorker = {y1, y2}
  NoWorker = NoWorker
  MaxAttempts = 2
  MaxUpsets = 2
  Reconciler = {w1, w2}
  NoLease = NoLease
  Passes = 2
  MaxSlips = 3
INVARIANTS IntegrationTypesOK OneConnection ClosedInTime LiveIsObserved OneRemoteIssue NothingDangles
PROPERTIES LeaseIsTakenOver SidesAgree OrphansAreReclaimed
