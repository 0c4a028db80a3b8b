CONSTANTS
  None = None  h1 = h1  h2 = h2
  MaxMessages = 2  MaxEdits = 0  MaxRejections = 2  MaxSteers = 1  Restored = 0
  Hooks = {h1, h2}
  Environment = {"steer"}
SPECIFICATION Spec
INVARIANTS OneTurnEach
CHECK_DEADLOCK FALSE
