SPECIFICATION MCSpec
CONSTANTS
  k1 = k1
  k2 = k2
  good = good
  bad = bad
  Kinds = {k1, k2}
  Objs = {good, bad}
  ListConcurrency = 1
  Keys <- MCKeys
  MaxDriftFields = 3
  Words <- MCWords
  Arguments <- MCArguments
  Looks <- MCLooks
  MaxChanges = 1
INVARIANTS NothingWantedIsHidden CompositionIsItsOwn FieldsAreExact
PROPERTY EventuallyAnswers
CHECK_DEADLOCK FALSE
