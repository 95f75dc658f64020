\* Two /enter requests may carry the same session id (a client re-entering).
\* The registry counters drift from the maps they count.
CONSTANTS
  Conns <- MCConns
  Sids <- MCSids
  Urls <- MCUrls
  RawUrls <- MCRawUrls
  CandidateSenders = {}
  c1 = c1
  c2 = c2
  c3 = c3
  s1 = s1
  s2 = s2
  s3 = s3
  MaxConnections = 2
  MaxConnectionsByUrl = 1
  CounterModulus <- MCCounterModulus
  ReuseSessionIds = TRUE
  None = None
SPECIFICATION Spec
SYMMETRY Symmetry
INVARIANT CountersConsistent
