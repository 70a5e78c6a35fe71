\* A cleanup while accepted events are still on their way.
SPECIFICATION Spec
CONSTANTS
  n1 = n1
  n2 = n2
  r1 = r1
  r2 = r2
  r3 = r3
  u1 = u1
  u2 = u2
  Nodes = {n1, n2}
  Requests = {r1, r2, r3}
  Upstreams = {u1}
  Faults = {}
INVARIANT AcceptedKeepsCredential
