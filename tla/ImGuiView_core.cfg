SPECIFICATION Spec
CONSTANTS
  v1 = v1
  v2 = v2
  Host = Host
  NoContext = NoContext
  Gone = Gone
  NoWindow = NoWindow
  Views <- TwoViews
  Counts = {1, 3}
  Slack = 1
  left = left
  MouseButtons <- OneButton
  MaxDepth = 2
  MaxFailures = 1
SYMMETRY Symmetry
INVARIANTS
  ContextRestored
  ResourcesBalanced
  DrawsWithinBuffers
  CapturedWhileHeard
