SPECIFICATION Spec
CONSTANTS
  main = main
  worker = worker
  h1 = h1
  h2 = h2
  w1 = w1
  Threads <- TwoThreads
  Vars <- ThreeVars
  ThreadOf <- ThreadOfVar
  HostThread = main
  o1 = o1
  o2 = o2
  o3 = o3
  Objects <- ThreeObjects
  Factory = Factory
  Null = Null
  MaxPinned = 1
SYMMETRY Symmetry
INVARIANTS
  CountsExact
  CodeOutlivesObjects
  RouterOutlivesServices
