\* One gateway, every fault but torn writes, a spool left by an earlier release.
SPECIFICATION Spec
CONSTANTS
  n1 = n1
  n2 = n2
  old = old
  i1 = i1
  i2 = i2
  i3 = i3
  Nodes = {n1}
  Legacy = {old}
  Items = {i1, i2, i3}
  LegacyLines <- OneLegacy
  QueueSize = 2
  BatchLimit = 2
  ReadLimit = 2
  SpoolLimit = 1
  Faults = {"redis", "disk", "postgres", "kill", "close"}
SYMMETRY ItemSymmetry
INVARIANT TypeOK
INVARIANT MarkerExact
INVARIANT DrainIsComplete
PROPERTY LedgerRefined
PROPERTY AcknowledgedIsDurable
