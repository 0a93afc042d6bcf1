SPECIFICATION WSpec
CONSTANTS
  r1 = r1
  r2 = r2
  a1 = a1
  a2 = a2
  HasPendingDisruption = HasPendingDisruption
  Request = {r1, r2}
  ServerDryRun = {r1, r2}
  DryRun = FALSE
  Activity = {a1}
  UnlockFaults = {}
  MaxVersion = 1
PROPERTIES
  ServerDryRunHasNoEffect
