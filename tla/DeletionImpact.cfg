SPECIFICATION ImpactSpec
CONSTANTS
  Objects = {1, 2, 3}
  Root = 1
  Statuses = {"-"}
  Graphs <- Downward
  MaxTreeDepth = 3
  MaxMishaps = 1
  Usages <- MCUsages
  UsageKind <- MCUsageKind
  MaxFailures = 1
  MaxChanges = 1
  LabelOf <- MCLabelOf
  NsOf <- MCNsOf
  OfLabel <- MCOfLabel
  ByLabel <- MCByLabel
  UsageNs <- MCUsageNs
INVARIANTS SearchFindsAll NothingProtectedIsMissed DanglingIsLeftBehind AloneMeansAlone
CHECK_DEADLOCK FALSE
