\* The message handler of a session runs on while the session is removed
\* and its world unmapped, and reaches unreachable! in swarm.rs.
CONSTANTS
  Conns <- MCConnsPair
  c1 = c1
  c2 = c2
  c3 = c3
  Interval = 2
  RoutingInfoMax = 1
  StartTime = 2
  MaxTime = 5
  MaxPublish = 2
  None = None
SPECIFICATION Spec
SYMMETRY SymmetryPair
INVARIANT UrlDataFoundForLiveHandler
