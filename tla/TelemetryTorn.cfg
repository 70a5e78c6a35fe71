\* A disk that may leave a part of a line. Deadlock: a gateway with such a line
\* refuses to start.
SPECIFICATION Spec
CONSTANTS
  n1 = n1
  n2 = n2
  old = old
  i1 = i1
  i2 = i2
  i3 = i3
  Nodes = {n1}
  Legacy = {old}
  Items = {i1, i2}
  LegacyLines <- NoLegacy
  QueueSize = 1
  BatchLimit = 1
  ReadLimit = 1
  SpoolLimit = 0
  Faults = {"redis", "disk", "torn"}
INVARIANT SpoolDecodes
CHECK_DEADLOCK FALSE
