CONSTANTS
  Procs = {p1, p2}
  a = a
  b = b
  u1 = u1
  u2 = u2
  edge = edge
  ended = ended
  Hosts = {a, b}
  Edge = edge
  Ended = ended
  Upstreams = {u1, u2}
  None = None
  Leftovers <- EarlierRuns
  MaxRestarts = 1
SPECIFICATION Spec
CONSTRAINT Parts
SYMMETRY Symmetry
INVARIANTS
  TypeOK
  NotShadowed
PROPERTIES
  OnlyStaleWritesInterfere
  RouteTableSpec
CHECK_DEADLOCK FALSE
