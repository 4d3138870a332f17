SPECIFICATION Spec
CONSTANTS
  Lengths = {1, 2, 3}
  MaxFailures = 2
INVARIANTS
  ReferencesBalanced
  BuffersCover
  OnlySystemFails
