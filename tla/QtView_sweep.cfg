SPECIFICATION Spec
CONSTANTS
  v1 = v1
  v2 = v2
  p1 = p1
  p2 = p2
  NoView = NoView
  Addresses <- OneAddress
  Plugins <- OnePlugin
  ReuseAddresses = FALSE
  FactoryMayFail = FALSE
  DetachesFirst = FALSE
  UsesShutdown = FALSE
  CallbacksDetach = TRUE
  MaxDepth = 3
  MaxPosts = 1
INVARIANTS
  GuiNeverBlocks
CHECK_DEADLOCK FALSE
