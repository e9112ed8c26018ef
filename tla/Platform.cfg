SPECIFICATION MCSpec
CHECK_DEADLOCK FALSE
CONSTANTS
  APIs <- MCAPIs
  KindOf <- MCKindOf
  CategoryOf <- MCCategoryOf
  Native <- MCNative
  Words <- MCWords
  Landscapes <- MCLandscapes
  Requests <- MCRequests
  Functions <- MCFunctions
  Compositions <- MCCompositions
  MaxEvents = 1
INVARIANTS
  StoredOrTold
  RejectedForGoodReason
  NothingDominatesThePick
  VerdictIsRight
PROPERTY
  RenderEnds
