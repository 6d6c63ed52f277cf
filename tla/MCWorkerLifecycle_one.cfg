\* One script at a time, two upgrades, faults.
SPECIFICATION FairSpec
CONSTANTS
  s1 = s1  s2 = s2  w1 = w1  w2 = w2  w3 = w3
  Scripts = {s1}
  Workers = {w1, w2, w3}
  MaxVersion = 3
  MaxFaults = 3
INVARIANT OneWorkerKnown
PROPERTIES StopLeavesNone Recovers
