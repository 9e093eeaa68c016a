CONSTANTS
  MinDelta = 2
  Attempts = 3
  MaxTraffic = 6
  MaxSessions = 2
  MaxRestarts = 1
SPECIFICATION Spec
INVARIANTS
  TypeOK
  NeverOverbilled
  ExactlyOnce
  SequenceKept
PROPERTIES
  TickEnds
CHECK_DEADLOCK FALSE
