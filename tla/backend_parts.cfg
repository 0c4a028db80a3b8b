CONSTANTS
  c1 = c1  Calls = {c1, c2}  Limit = 1  Timeout = 1  Margin = 1  LastTick = 2
  MaxStarts = 2  MaxChanges = 2
  k1 = k1  Callers = {k1, k2}  Paths = {p1}  MaxAttempts = 1  MaxSlots = 2  MaxTunnels = 3  MaxCloses = 1
SPECIFICATION BackendSpec
INVARIANTS BackendTypes  PermitsAccounted BrokerSettled TunnelsOwned Attended  BudgetHolds
PROPERTIES ChangesInTime CallEnded
CHECK_DEADLOCK FALSE
