SPECIFICATION Spec
CONSTANTS
  t1 = t1
  t2 = t2
  o1 = o1
  o2 = o2
  NoOwner = NoOwner
  NoEvent = NoEvent
  Topics <- TwoTopics
  Owners <- OneOwner
  DefaultCapacity = 2
  Capacities = {0, 1, 3}
  HandleSpace = 16
  OutOfMemory = TRUE
  ResizeInCallback = TRUE
  MaxDepth = 2
  MaxPublished = 3
  MaxSubscribes = 2
SYMMETRY TopicSymmetry
INVARIANTS
  RingWellFormed
  Accounted
  ExactlyOnce
PROPERTIES
  NoCallAfterLeave
  ImplementsQueue
