SPECIFICATION FSpec
CONSTANTS
  c1 = c1
  c2 = c2
  r1 = r1
  r2 = r2
  p1 = p1
  p2 = p2
  p3 = p3
  Cluster = {c1, c2}
  Request = {r1, r2}
  Pod = {p1, p2, p3}
  Home <- HomeOf
  Endpoints <- AllOthers
  PodCluster <- ClusterOf
  Namespace <- OneNamespace
  Labels <- LabelsOf
  Target <- TargetOf
  Configs <- ConfigSets
  MaxEdits = 1
  Nil = Nil
  NoBudget = NoBudget
  NoLimit = NoLimit
  Half = 4
INVARIANTS
  SameSelectorExcludes
  RefusalIsJustified
PROPERTIES
  ReviewedDisruptionKeepsBudget
  EveryNameIsALock
