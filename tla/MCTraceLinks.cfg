CONSTANTS
  None = None
  c1 = c1
  c2 = c2
  f = f
  Ctxs = {c1, c2}
  TracerOf <- MCTracerOf
  Foreign <- MCForeign
  Endpoint = "ep"
  Address = "ad"
  MaxSpans = 2
  MaxGiven = 2
SYMMETRY Symmetry
SPECIFICATION Spec
CHECK_DEADLOCK FALSE
INVARIANTS TypeOK HeadersDecode LinksResolve TraceIdsAgree
