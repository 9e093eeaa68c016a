CONSTANTS
  Sessions = {s1, s2}
  Handlers = {h1, h2, h3}
  Ports = {1, 2}
  None = None
  MaxRestarts = 1
SPECIFICATION Spec
ACTION_CONSTRAINT RestartLater
SYMMETRY Symmetry
INVARIANTS
  TypeOK
  PortsExclusive
  NoCrossRouting
  
  MappingOnDisk
  CreateComplete
  
CHECK_DEADLOCK FALSE
