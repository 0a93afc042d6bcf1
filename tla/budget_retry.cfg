SPECIFICATION DSpec
CONSTANTS
  c1 = c1
  c2 = c2
  h1 = h1
  h2 = h2
  p1 = p1
  p2 = p2
  p3 = p3
  None = None
  Cluster = {c1, c2}
  Handler = {h1, h2}
  Home <- FirstCluster
  Endpoints <- AllOthers
  LeaseDuration = 2
  MaxSkew = 0
  MaxWork = 1
  MaxTime = 3
  Faults = {h1}
  Pod = {p1, p2}
  PodCluster <- ClusterOf
  Target <- FirstPod
  UseMaxUnavailable = FALSE
  Limit = 1
  ProbeConfigured = TRUE
  CandidateMayRecover = TRUE
  Involuntary = TRUE
INVARIANTS
  DTypeOK
  CountsAreCurrent
