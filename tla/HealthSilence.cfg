SPECIFICATION Spec
CONSTANTS
  Usages <- MCUsages
  UsageKind <- MCUsageKind
  MaxFailures = 1
  MaxChanges = 0
  Objects <- MCObjects
  KindOf <- MCKindOf
  SectionOf <- MCSectionOf
  Protected <- MCProtected
  Arguments <- MCArguments
  StatesFor <- MCStatesFor
INVARIANT FailuresAreTold
CHECK_DEADLOCK FALSE
