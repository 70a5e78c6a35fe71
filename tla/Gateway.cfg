\* A conversation, its edited retry and a background review.
SPECIFICATION Spec
CONSTANTS
  r1 = r1
  r2 = r2
  r3 = r3
  Requests = {r1, r2}
  Workloads <- SomeWorkloads
  Policies <- TwoPolicies
  Scores <- TwoScores
  AsyncLimit = 1
  MaxLookup = 3
  MaxTime = 2
  MaxFaults = 1
CHECK_DEADLOCK FALSE
INVARIANT TypeOK
INVARIANT CountedOnce
INVARIANT CloseDrains
INVARIANT RefusalEarned
INVARIANT FrozenIsRefused
INVARIANT CachedFactsTrue
PROPERTY FreezeKeepsEnd
