SPECIFICATION MCSpec
CONSTANTS
  Callers = {c1, c2}
  Caches = {"apis", "mapper"}
  APIs = {bucket, vpc}
  AnyGroup = AnyGroup
  Groups <- MCGroups
  TTL = 2
  MaxFetch = 1
SYMMETRY Symmetry
INVARIANTS SnapshotsAge
PROPERTIES AnswersAreRecent NothingIsGuessed MissesAreNew
