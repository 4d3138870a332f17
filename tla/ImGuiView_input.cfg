SPECIFICATION Spec
CONSTANTS
  v1 = v1
  v2 = v2
  Host = Host
  NoContext = NoContext
  Gone = Gone
  NoWindow = NoWindow
  Views <- OneView
  Counts = {1, 3}
  Slack = 1
  left = left
  MouseButtons <- OneButton
  MaxDepth = 1
  MaxFailures = 1
INVARIANTS
  FeedsOwnContext
