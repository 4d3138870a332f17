SPECIFICATION Spec
CONSTANTS
  v1 = v1
  v2 = v2
  p1 = p1
  p2 = p2
  NoView = NoView
  Addresses <- TwoAddresses
  Plugins <- TwoPlugins
  ReuseAddresses = TRUE
  FactoryMayFail = TRUE
  DetachesFirst = FALSE
  UsesShutdown = TRUE
  CallbacksDetach = TRUE
  MaxDepth = 3
  MaxPosts = 2
INVARIANTS
  AppWhileAttached
  RetainBalanced
PROPERTIES
  DroppedWhileDetached
CHECK_DEADLOCK FALSE
