CONSTANTS
  a = a  b = b  p = p  c = c  P = P  Q = Q  None = None
  r1 = r1  r2 = r2  r3 = r3  d1 = d1  d2 = d2
  Targets = {a, b}  Boundaries = {}
  Provider <- MCProvider  Repair <- MCRepair
  Requests = {r1, r2}  Attempts = {d1}
  Environment = {}
  Runs = {w1, w2}  MaxRevision = 1
  f1 = f1  c1 = c1  Folders = {f1, f2}  Commands = {c1, c2}  Picks = {u1}  Home = h
  Messages = {1, 2}  Deliveries = {2}
  MaxSent = 2  MaxOpens = 2  MaxCrashes = 1  MaxPending = 2
SPECIFICATION ChatSpec
INVARIANTS ChatTypes RouteInv  CreatingHasRun NoSwitchUnderTurn
PROPERTIES TreesAccounted UserFolderKept RunEnds AcceptedKept  NoReplay FileForgetsSent
CHECK_DEADLOCK FALSE
