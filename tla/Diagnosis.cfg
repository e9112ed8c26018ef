SPECIFICATION MCSpec
CONSTANTS
  Objects = {1, 2, 3}
  Root = 1
  Statuses = {"True", "-"}
  Graphs <- AllGraphs
  MaxTreeDepth = 3
  MaxMishaps = 2
  MaxRootCauses = 2
INVARIANTS ExpandedOnce TreeIsComplete SomebodyIsBlamed CausesAreApart CausesAreDeepest
PROPERTY WalkEnds
CHECK_DEADLOCK FALSE
