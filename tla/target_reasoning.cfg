CONSTANTS
  a = a  b = b  p = p  c = c  P = P  Q = Q  None = None
  r1 = r1  r2 = r2  r3 = r3  d1 = d1  d2 = d2
  Targets = {a, b}  Boundaries = {}
  Provider <- MCProvider  Repair <- SameTarget
  Requests = {r1, r2}  Attempts = {d1, d2}
  Environment = {"reasoning"}
SYMMETRY Symmetry
SPECIFICATION Spec
INVARIANTS ReasoningDescribesTarget
CHECK_DEADLOCK FALSE
