CONSTANTS
  p1 = p1
  p2 = p2
  p3 = p3
  mg = mg
  Policies = {p1, p2, p3, mg}
  Registry <- MC_Registry
  Dist <- MC_Dist
  BinPack = p1
  Initial = mg
  FstPolicy = NoPolicy
  NoPolicy = NoPolicy
  SingleCluster = SingleCluster
  SwitchEnabled = TRUE
  FixedWindow = FALSE
  FixedSize = 0
  WindowSizes = {0, 1, 2, 3}
  TaskDists <- MC_TaskDists
  RandomSwitch = {mg}
  MaxLaunches = 2
  MaxScheduled = 6
  MaxEntries = 4
  DistValues = {0, 1, 2, 3, 4, 5, 6}
  MaxClusters = 4
  SizeValues = {0, 1, 2, 3}
SPECIFICATION MC_Spec
INVARIANTS
  TypeOK
  WindowCountsFromDeploy
  NextIndexClosest
  ClustersOrderedBySize
