CONSTANTS
  j1 = j1
  s1 = s1
  s2 = s2
  h1 = h1
  k1 = k1
  k2 = k2
  Tokens <- MCTokens
  Sessions = {s1, s2}
  Hosts = {h1}
  Kids = {k1, k2}
  Checks = {a1}
  Verifies = {b1, b2}
  NoToken = NoToken
  NoTag = NoTag
  MaxTime = 8
  PollInterval = 1
  MaxStaleness = 4
  PollTimeout = 1
  PollCeiling = 5
  Ttl = 2
  FetchTimeout = 1
SPECIFICATION Spec
INVARIANTS
  TypeOK
  StrictWindow
  StaleOnlyAfterFailure
  TunnelWindow
CONSTRAINT Apart
SYMMETRY Symmetry
CHECK_DEADLOCK FALSE
