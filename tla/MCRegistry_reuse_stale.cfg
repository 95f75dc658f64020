\* Two /enter requests may carry the same session id (a client re-entering).
\* A callback of a replaced or failed peer connection removes the session of another one; a /candidate reaches the other pc.
CONSTANTS
  Conns <- MCConns
  Sids <- MCSids
  Urls <- MCUrls
  RawUrls <- MCRawUrls
  CandidateSenders <- MCConns
  c1 = c1
  c2 = c2
  c3 = c3
  s1 = s1
  s2 = s2
  s3 = s3
  MaxConnections = 2
  MaxConnectionsByUrl = 1
  CounterModulus <- MCCounterModulus
  ReuseSessionIds = TRUE
  None = None
SPECIFICATION Spec
SYMMETRY Symmetry
PROPERTY SessionLookupsStayWithOwnPc
