SPECIFICATION FairSpec
CONSTANTS
  t1 = t1
  t2 = t2
  o1 = o1
  o2 = o2
  NoOwner = NoOwner
  NoEvent = NoEvent
  Topics <- OneTopic
  Owners <- OneOwner
  DefaultCapacity = 2
  Capacities = {}
  HandleSpace = 3
  OutOfMemory = FALSE
  ResizeInCallback = FALSE
  MaxDepth = 1
  MaxPublished = 3
  MaxSubscribes = 3
INVARIANTS
  TypeOK
  ReentrancyRule
  HandlesUnique
PROPERTIES
  OnceInOrder
  EventReachesSubscriber
