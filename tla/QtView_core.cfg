SPECIFICATION FairSpec
CONSTANTS
  v1 = v1
  v2 = v2
  p1 = p1
  p2 = p2
  NoView = NoView
  Addresses <- TwoAddresses
  Plugins <- TwoPlugins
  ReuseAddresses = FALSE
  FactoryMayFail = TRUE
  DetachesFirst = TRUE
  UsesShutdown = TRUE
  CallbacksDetach = TRUE
  MaxDepth = 3
  MaxPosts = 2
INVARIANTS
  AppGoesWithLastView
PROPERTIES
  RunsAtMostOnce
  NoCallAfterTerminate
  PostedCallServed
CHECK_DEADLOCK FALSE
