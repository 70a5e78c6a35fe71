\* Two gateways, one of them told of a save, under fairness.
SPECIFICATION FairSpec
CONSTANTS
  n1 = n1
  n2 = n2
  r1 = r1
  r2 = r2
  Nodes = {n1, n2}
  Requests = {r1}
  Updates <- OneUpdate
  InitialJev = {1}
  Kinds <- TwoKinds
  Faults = {"postgres"}
PROPERTY SnapshotConverges
