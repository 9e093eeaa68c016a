CONSTANTS
  Sessions = {s1, s2}
  Handlers = {h1, h2, h3}
  Ports = {1, 2}
  None = None
  MaxRestarts = 0
SPECIFICATION Spec
SYMMETRY Symmetry
INVARIANT SkipMeansGone
CHECK_DEADLOCK FALSE
