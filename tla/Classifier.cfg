\* Two calls with different connections; three requests for one place of the interface.
SPECIFICATION ReviewSpec
CONSTANTS
  c1 = c1
  c2 = c2
  q1 = q1
  q2 = q2
  Calls = {c1, c2}
  Connections <- TwoConnections
  Type <- Catalogue
  Asks <- OneAsk
  Bodies <- AllBodies
  RetryAfters <- Headers
  MaxRetries = 1
  InitialBackoff = 1
  MaxBackoff = 1
  Jitter = 25
  MaxRetryAfter = 1
  AttemptTimeout = 1
  CallTimeout = 2
  CloseGrace = 1
  Faults = {"net", "kill", "start"}
  r1 = r1
  r2 = r2
  r3 = r3
  k1 = k1
  Requests = {r1, r2, r3}
  ApiKeys = {k1}
  Cap = 1
  Failing = TRUE
CHECK_DEADLOCK FALSE
SYMMETRY ReviewSymmetry
INVARIANT TypeOK
INVARIANT OwnConnection
INVARIANT GateExact
INVARIANT RevokedIsRefused
INVARIANT AuditAgrees
PROPERTY AnswersAreExact
PROPERTY ErrorIsTrue
PROPERTY RetryAfterHonoured
PROPERTY DeadlineHeld
