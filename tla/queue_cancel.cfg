CONSTANTS
  None = None  h1 = h1  h2 = h2
  MaxMessages = 2  MaxEdits = 1  MaxRejections = 2  MaxSteers = 0  Restored = 0
  Hooks = {h1}
  Environment = {"edit", "cancel"}
SPECIFICATION Spec
INVARIANTS NeverStranded
CHECK_DEADLOCK FALSE
