SPECIFICATION Spec
CONSTANTS
  Usages <- MCUsages
  UsageKind <- MCUsageKind
  MaxFailures = 1
  MaxChanges = 1
  Objects <- MCObjects
  KindOf <- MCKindOf
  SectionOf <- MCSectionOf
  Protected <- MCProtected
  Arguments <- MCArguments
  StatesFor <- MCStatesFor
INVARIANTS NothingWrongIsMissed NothingRightIsReported WhyIsTrue
CHECK_DEADLOCK FALSE
