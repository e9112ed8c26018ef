SPECIFICATION Spec
CONSTANTS
  Objects = {1, 2, 3, 4}
  Root = 1
  Statuses = {"True", "-"}
  Graphs <- Downward
  MaxTreeDepth = 4
  MaxMishaps = 0
  MaxRootCauses = 3
INVARIANT NoSymptomIsBlamed
CHECK_DEADLOCK FALSE
