SPECIFICATION Spec
CONSTANTS
  Calls = {c1}
  Kinds <- MCKinds
  WritableKinds <- MCWritable
  NamespacedKinds <- MCNamespaced
  Namespaces = {"team", "default"}
  DefaultNs = "default"
  Values = {"v1", "v2"}
  Incomplete = Incomplete
  Manifests <- ManyManifests
  InitialStores <- Empty
  MaxAttempts = 1
  MaxForeign = 0
INVARIANT RefusedBeforeFirstWrite
CHECK_DEADLOCK FALSE
