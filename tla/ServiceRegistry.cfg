CONSTANTS
  a = a
  b = b
  Procs = {p1, p2}
  Names <- MCNames
  MaxWrites <- MCMaxWrites
  Nobody = Nobody
  NoContents = NoContents
SPECIFICATION FairSpec
INVARIANTS
  AckedOnDisk
  NoSilentLoss
  AbsentOnlyInWindow
PROPERTIES
  LoadedMovesForward
  EveryCallReturns
  DurableTableSpec
CHECK_DEADLOCK FALSE
