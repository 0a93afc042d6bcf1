SPECIFICATION DSpec
CONSTANTS
  c1 = c1
  c2 = c2
  h1 = h1
  h2 = h2
  p1 = p1
  p2 = p2
  p3 = p3
  None = None
  Cluster = {c1, c2}
  Handler = {h1, h2}
  Home <- HomeOf
  Endpoints <- AllOthers
  LeaseDuration = 2
  MaxSkew = 0
  MaxWork = 1
  MaxTime = 3
  Faults = {}
  Pod = {p1, p2, p3}
  PodCluster <- ClusterOf
  Target <- TargetOf
  UseMaxUnavailable = FALSE
  Limit = 2
  ProbeConfigured = FALSE
  CandidateMayRecover = TRUE
  Involuntary = FALSE
PROPERTIES
  DisruptionKeepsBudget
