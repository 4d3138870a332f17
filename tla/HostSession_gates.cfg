SPECIFICATION FairSpec
CONSTANTS
  good = good
  plain = plain
  bare = bare
  gui = gui
  twice = twice
  newer = newer
  ui = ui
  codec = codec
  NoDll = NoDll
  MaxSlots = 2
  Dlls <- AllModules
  Capabilities <- TwoCaps
  Offered <- NoCaps
  HasEvents = TRUE
  HostVersion <- Host5
  Described <- DescribesItself
  DescriptorOf <- Says
  SubscribesIn <- WhileInitialized
  SkipDetach = {TRUE, FALSE}
  MaxObjects = 1
  MaxLost = 0
INVARIANTS
  GatedBeforeCreated
PROPERTIES
  ImplementsSlotTable
  OperationsFinish
CHECK_DEADLOCK FALSE
