CONSTANTS
  Elements = {1, 2, 3}
  Max = 3
  None = None
SPECIFICATION Spec
INVARIANTS IndicesAgree WalkComplete
PROPERTY ImplementsFifo
