CONSTANTS
  v1 = v1
  v2 = v2
  v3 = v3
  Viewers = {v1, v2, v3}
  Guests = {v3}
  Calls = {c1, c2}
  Monitor = Monitor
  Reporter = Reporter
  Nobody = Nobody
  Cap = 1
  MaxRouters = 2
  MaxProducers = 2
SPECIFICATION FairSpec
INVARIANTS
  TypeOK
  CapHolds
  NoGhostViewer
  DisconnectIsLast
  ConsumersWhereViewersAre
PROPERTY SlotsComeBack
CONSTRAINT Parts
CHECK_DEADLOCK FALSE
