\* Two policy saves before any connection is saved.
SPECIFICATION Spec
CONSTANTS
  n1 = n1
  n2 = n2
  r1 = r1
  r2 = r2
  Nodes = {n1}
  Requests = {r1, r2}
  Updates <- PolicyUpdates
  InitialJev = {0}
  Kinds <- AllKinds
  Faults = {}
INVARIANT EnabledHasJev
