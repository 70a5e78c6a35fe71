\* Two gateways on one Redis and one PostgreSQL.
SPECIFICATION Spec
CONSTANTS
  n1 = n1
  n2 = n2
  old = old
  i1 = i1
  i2 = i2
  i3 = i3
  Nodes = {n1, n2}
  Legacy = {old}
  Items = {i1, i2}
  LegacyLines <- NoLegacy
  QueueSize = 1
  BatchLimit = 1
  ReadLimit = 2
  SpoolLimit = 0
  Faults = {"redis","postgres","kill"}
INVARIANT LedgerIsPrefix
INVARIANT TrimKeepsUnread
