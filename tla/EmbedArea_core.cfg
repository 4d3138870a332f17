SPECIFICATION AreaSpec
CONSTANTS
  good = good
  plain = plain
  bare = bare
  gui = gui
  twice = twice
  newer = newer
  ui = ui
  codec = codec
  NoDll = NoDll
  MaxSlots = 2
  Dlls <- TwoModules
  Capabilities <- NoCaps
  Offered = {}
  HasEvents = TRUE
  HostVersion <- Host5
  Described <- DescribesItself
  DescriptorOf <- Says
  SubscribesIn <- WhileInitialized
  SkipDetach = {}
  MaxObjects = 2
  MaxLost = 1
INVARIANTS
  RunsMappedCode
  ReferencesBalanced
  QuietBeforeTerminate
  SessionKnowsAttached
  DrivesLiveView
  DrivesWhatItEmbedded
PROPERTIES
  DetachedBeforeReleased
CHECK_DEADLOCK FALSE
