\* Two sessions racing for the rows of one commit.
SPECIFICATION Spec
CONSTANTS
  s1 = s1  s2 = s2  k1 = k1  k2 = k2  o1 = o1  o2 = o2
  Sessions = {s1, s2}
  Keys = {k1}
  Dests = {o1, o2}
  NoDest = NoDest
  NoKey = NoKey
  MaxAttempts = 2
  RetryAttempts = 1
  RetrySchedule <- MCShortSchedule
  Limit = 1
  MaxSyncs = 2
  MaxFailures = 1
INVARIANTS TypeOK RowsBound JobsBound NeverRetargeted OnePendingPerKey PendingHasAttemptsLeft
PROPERTIES RetiredRowsStay ImplementsOutbox
SYMMETRY SessionSymmetry
