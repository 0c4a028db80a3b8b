CONSTANTS
  None = None  h1 = h1  h2 = h2
  MaxMessages = 2  MaxEdits = 1  MaxRejections = 2  MaxSteers = 1  Restored = 1
  Hooks = {h1, h2}
  Environment = {"load", "defer", "other", "compact", "fail", "stop", "edit", "steer"}
SYMMETRY Symmetry
SPECIFICATION Spec
INVARIANTS TypeOK NeverStranded 
CHECK_DEADLOCK FALSE
