\* One gateway under fairness; a save of the cache's settings with two faults; one call
\* to a classifier that may hang or die; two files of two lines to import.
SPECIFICATION LiveSpec
CONSTANTS
  n1 = n1
  n2 = n2
  old = old
  i1 = i1
  i2 = i2
  i3 = i3
  Nodes = {n1}
  Legacy = {old}
  Items = {i1, i2}
  LegacyLines <- OneLegacy
  QueueSize = 1
  BatchLimit = 1
  ReadLimit = 1
  SpoolLimit = 0
  Faults = {"redis", "disk", "postgres", "kill", "close"}
  s1 = s1
  Saves = {s1}
  Failures = 2
  e1 = e1
  e2 = e2
  m1 = m1
  m2 = m2
  Torn = Torn
  Budget = 2
  c1 = c1
  q1 = q1
  Calls = {c1}
  Connections <- OneConnection
  Type <- Catalogue
  Asks <- OneAsk
  Bodies <- OneBody
  RetryAfters = {1}
  MaxRetries = 1
  InitialBackoff = 1
  MaxBackoff = 1
  Jitter = 25
  MaxRetryAfter = 1
  AttemptTimeout = 1
  CallTimeout = 2
  CloseGrace = 1
  ProcessFaults = {"net", "kill", "hang"}
CHECK_DEADLOCK FALSE
PROPERTY ServedIsApplied
PROPERTY CloseEnds
PROPERTY ImportedOnce
PROPERTY SettingsAdvance
PROPERTY CacheConverges
PROPERTY WorkEnds
PROPERTY CloseReturns
