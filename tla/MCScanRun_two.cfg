\* Two processes that scan while nobody commits.
SPECIFICATION FairSpec
CONSTANTS
  r1 = r1  r2 = r2  f1 = f1  f2 = f2  f3 = f3  p1 = p1  p2 = p2
  Procs = {p1, p2}
  Repos = {r1}
  Files = {f1, f2, f3}
  FullOptions = {TRUE, FALSE}
  Quiet = TRUE
  MaxCommits = 1
  MaxCrashes = 1
INVARIANT RunOK
PROPERTIES RefusedOnlyByScan LockRecovers
