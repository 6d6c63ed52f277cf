\* One session that keeps draining: two organisations, two commits.
SPECIFICATION SyncingSpec
CONSTANTS
  s1 = s1  s2 = s2  k1 = k1  k2 = k2  o1 = o1  o2 = o2
  Sessions = {s1}
  Keys = {k1, k2}
  Dests = {o1, o2}
  NoDest = NoDest
  NoKey = NoKey
  MaxAttempts = 2
  RetryAttempts = 2
  RetrySchedule <- MCSchedule
  Limit = 1
  MaxSyncs = 2
  MaxFailures = 1
PROPERTIES RemovedOnlyIfDelivered OperationsEnd PendingResolved
