\* Two sessions of one world, the refresh interval scaled to 2 ticks, a clock
\* running past it twice, and a tree truncated to one info.
CONSTANTS
  Conns <- MCConnsPair
  c1 = c1
  c2 = c2
  c3 = c3
  Interval = 2
  RoutingInfoMax = 1
  StartTime = 2
  MaxTime = 5
  MaxPublish = 2
  None = None
SPECIFICATION Spec
SYMMETRY SymmetryPair
INVARIANTS
  TypeOK
  RefreshExclusive
  StaleEntriesPredateRefresh
