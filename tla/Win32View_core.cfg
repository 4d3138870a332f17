SPECIFICATION Spec
CONSTANTS
  p1 = p1
  p2 = p2
  v1 = v1
  v2 = v2
  v3 = v3
  NoView = NoView
  NoPlugin = NoPlugin
  Plugins <- TwoPlugins
  Views <- ThreeViews
  MaxLive = 2
  MaxWindows = 3
  MaxLoads = 2
  Retains = TRUE
SYMMETRY Symmetry
INVARIANTS
  NothingOutlivesModule
  PaintsLivePlugins
  RegistryComplete
CHECK_DEADLOCK FALSE
