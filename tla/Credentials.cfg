\* One gateway's cleanup against requests of two destinations; a session limit of
\* one with two sessions to adopt by two gateways; three attempts in sixty seconds
\* of three ticks, and counters kept for an hour.
SPECIFICATION SecuritySpec
CONSTANTS
  n1 = n1
  n2 = n2
  r1 = r1
  r2 = r2
  r3 = r3
  u1 = u1
  u2 = u2
  Nodes = {n1}
  Requests = {r1, r2, r3}
  Upstreams = {u1, u2}
  Faults = {"redis", "postgres"}
  g1 = g1
  g2 = g2
  s1 = s1
  s2 = s2
  s3 = s3
  Gateways = {g1, g2}
  Tokens = {s1, s2, s3}
  Old = {s1, s2}
  Limit = 1
  Lifetime = 3
  Lag = 1
  Ahead = 2
  Tries = 3
  Window = 3
  LongestDelay = 15
  Memory = 180
SYMMETRY SecuritySymmetry
INVARIANT TypeOK
INVARIANT TrustIsEarned
INVARIANT TrustedIsStored
INVARIANT SessionsCapped
PROPERTY EvictionEarned
INVARIANT GrantsBounded
