\* Two calls of one model and one of another, all with the same text.
SPECIFICATION Spec
CONSTANTS
  r1 = r1
  r2 = r2
  r3 = r3
  Requests = {r1, r2, r3}
  Workloads <- MixedModels
  Policies <- OnePolicy
  Scores <- TwoScores
  AsyncLimit = 1
  MaxLookup = 3
  MaxTime = 0
  MaxFaults = 0
CHECK_DEADLOCK FALSE
INVARIANT OneBatch
