CONSTANTS
  None = None  h1 = h1  h2 = h2
  MaxMessages = 2  MaxEdits = 1  MaxRejections = 2  MaxSteers = 0  Restored = 1
  Hooks = {h1, h2}
  Environment = {"edit", "cancel", "remove", "load", "defer", "other", "fail", "stop"}
SYMMETRY Symmetry
SPECIFICATION Spec
PROPERTIES Implements
CHECK_DEADLOCK FALSE
