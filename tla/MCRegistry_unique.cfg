\* Distinct session ids: every /enter carries a fresh session id.
CONSTANTS
  Conns <- MCConns
  Sids <- MCSids
  Urls <- MCUrls
  RawUrls <- MCRawUrls
  CandidateSenders = {}
  c1 = c1
  c2 = c2
  c3 = c3
  s1 = s1
  s2 = s2
  s3 = s3
  MaxConnections = 2
  MaxConnectionsByUrl = 1
  CounterModulus <- MCCounterModulus
  ReuseSessionIds = FALSE
  None = None
SPECIFICATION Spec
SYMMETRY Symmetry
INVARIANTS
  CountersConsistent
  MappedWorldsHaveMembers
  SessionsAndWorldsAgree
  MembershipWithinCaps
PROPERTY
  ImplementsMembership
