\* Three scans in up to three runs, one failure or kill, a history of two.
SPECIFICATION Spec
CONSTANTS
  r1 = r1  r2 = r2  api = api  web = web  c1 = c1  p1 = p1  p2 = p2
  Repos = {r1, r2}
  Names = {api, web}
  RepoSets <- MCSets
  Findings <- MCFindings
  Trees <- MCTrees
  Overrides <- MCOverrides
  Removals <- MCRemovals
  Modes = {"full", "incremental"}
  Commits = {c1}
  Runners = {p1}
  HistoryLimit = 2
  MaxScan = 3
  Legacy = {2}
  MaxFailures = 1
INVARIANTS DriftExact HistoryBounded TailComplete
\* The scans are bounded: after the last one nothing happens.
CHECK_DEADLOCK FALSE
