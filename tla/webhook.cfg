SPECIFICATION WSpec
CONSTANTS
  r1 = r1
  r2 = r2
  a1 = a1
  a2 = a2
  HasPendingDisruption = HasPendingDisruption
  Request = {r1, r2}
  ServerDryRun = {}
  DryRun = FALSE
  Activity = {a1, a2}
  UnlockFaults = {r2}
  MaxVersion = 3
SYMMETRY Symmetric
INVARIANTS
  WTypeOK
  PendingAnnounced
  RefusalReleasesLock
PROPERTIES
  AnnotationsSurvive
