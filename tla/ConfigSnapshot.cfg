\* One gateway, two saves of any kind, failing queries, lost replies and restarts.
SPECIFICATION Spec
CONSTANTS
  n1 = n1
  n2 = n2
  r1 = r1
  r2 = r2
  Nodes = {n1}
  Requests = {r1, r2}
  Updates <- AllUpdates
  InitialJev = {0, 1}
  Kinds <- AllKinds
  Faults = {"postgres", "kill"}
SYMMETRY RequestSymmetry
INVARIANT TypeOK
INVARIANT SavedIsServed
PROPERTY PatchKeepsOthers
