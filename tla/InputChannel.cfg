CONSTANTS
  Viewers = {v1, v2}
  Calls = {c1, c2}
  Envelopes = {e1, e2}
  Nobody = Nobody
  MaxStates = 2
  MaxTime = 3
  RateWindow = 2
  MaxEvents = 1
SYMMETRY Symmetry
SPECIFICATION Spec
INVARIANTS
  TypeOK
  SameProducer
  BridgeShared
  OneControlRequest
  RateBound
  NoStuckCall
CHECK_DEADLOCK FALSE
