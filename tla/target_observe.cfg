CONSTANTS
  a = a  b = b  p = p  c = c  P = P  Q = Q  None = None
  r1 = r1  r2 = r2  r3 = r3  d1 = d1  d2 = d2
  Targets = {a, p, c}  Boundaries = {p}
  Provider <- MCProvider  Repair <- MCRepair
  Requests = {r1}  Attempts = {d1}
  Environment = {"hydrate", "observe", "replace", "write", "reasoning", "remove"}
  Sessions = {s1}  c1 = c1  Calls = {c1, c2}  Models = {m1}  MaxInits = 2
  home = home  away = away
SPECIFICATION ConnectionSpec
INVARIANTS TypeOK LeaseTargetPublished SelectionTruthful TransportsOwned
PROPERTIES OutcomeIsFinal
CHECK_DEADLOCK FALSE
