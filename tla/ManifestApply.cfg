SPECIFICATION Spec
CONSTANTS
  Calls = {c1}
  Kinds <- MCKinds
  WritableKinds <- MCWritable
  NamespacedKinds <- MCNamespaced
  Namespaces = {"team", "default"}
  DefaultNs = "default"
  Values = {"v1", "v2"}
  Incomplete = Incomplete
  Manifests <- ManyManifests
  InitialStores <- SomeClaims
  MaxAttempts = 2
  MaxForeign = 1
INVARIANTS AtMostOneInDoubt IncompleteTouchesNothing InStep RetrySettles CreatedIsTrue
PROPERTY WritesAreConfined
CHECK_DEADLOCK FALSE
