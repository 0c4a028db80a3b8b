CONSTANTS
  None = None  h1 = h1  h2 = h2
  MaxMessages = 3  MaxEdits = 0  MaxRejections = 2  MaxSteers = 0  Restored = 0
  Hooks = {h1, h2}
  Environment = {"other", "compact", "stop"}
SPECIFICATION FairSpec
PROPERTIES QueueDrains
CHECK_DEADLOCK FALSE
