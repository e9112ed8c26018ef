SPECIFICATION FairSpec
CONSTANTS
  Calls = {c1, c2}
  Tools = {"list", "apply", "render"}
  Heedless = {"render"}
  Writing = {"apply"}
  Toolsets = {"read", "write", "both"}
  ToolsOf <- MCToolsOf
  Contexts = {"dev", "prod"}
  Servers = {"s1", "s2"}
  Options <- MCOptions
  Kubeconfigs <- MCKubeconfigs
  MaxEdits = 1
INVARIANTS OneClientPerCluster OnlyExposedIsReached WritesAreAskedFor
PROPERTY EveryCallAnswered
CHECK_DEADLOCK FALSE
