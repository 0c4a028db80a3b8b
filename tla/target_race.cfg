CONSTANTS
  a = a  b = b  p = p  c = c  P = P  Q = Q  None = None
  r1 = r1  r2 = r2  r3 = r3  d1 = d1  d2 = d2
  Targets = {a, b}  Boundaries = {}
  Provider <- MCProvider  Repair <- SameTarget
  Requests = {r1, r2, r3}  Attempts = {d1, d2}
  Environment = {}
SYMMETRY Symmetry
SPECIFICATION RaceSpec
INVARIANTS DispatchInv PromptRunsOnLease IdleActorSettled SelectionHasPicker
PROPERTIES IntentSurvives CommitReachesStore
CHECK_DEADLOCK FALSE
