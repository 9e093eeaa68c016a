CONSTANTS
  Sessions = {s1, s2}
  Handlers = {h1, h2}
  Ports = {1, 2}
  None = None
  MaxRestarts = 0
SPECIFICATION Spec
SYMMETRY Symmetry
INVARIANT PortsComeBack
CHECK_DEADLOCK FALSE
