\* Two /enter requests may share a session id, and c1 also posts /candidate; removal stays live.
CONSTANTS
  Conns <- MCConnsPair
  Sids <- MCSidsPair
  Urls <- MCUrls
  RawUrls <- MCRawUrls
  CandidateSenders = {c1}
  c1 = c1
  c2 = c2
  c3 = c3
  s1 = s1
  s2 = s2
  s3 = s3
  MaxConnections = 2
  MaxConnectionsByUrl = 1
  CounterModulus <- MCCounterModulus
  ReuseSessionIds = TRUE
  None = None
SPECIFICATION Spec
PROPERTY DownPcSessionRemoved
