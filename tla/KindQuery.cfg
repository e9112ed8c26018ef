SPECIFICATION Spec
CONSTANTS
  Kinds = {k1, k2, k3}
  Objs = {o}
  ListConcurrency = 2
SYMMETRY Symmetry
INVARIANTS InFlightBounded AnswerComplete Bookkeeping
PROPERTY ImplementsSweep
