CONSTANTS
  Procs = {p1, p2}
  a = a
  b = b
  u1 = u1
  u2 = u2
  edge = edge
  ended = ended
  Hosts = {a, b}
  Edge = edge
  Ended = ended
  Upstreams = {u1}
  None = None
  Leftovers <- OnlyEnded
  MaxRestarts = 0
SPECIFICATION Spec
INVARIANT OkStaysTrue
CHECK_DEADLOCK FALSE
