\* Breadth-first walk, known-gateway merge, min depth and to_send_data
\* over every tree of depth <= 2 built from the MC labels, and over the
\* fixtures of the unit tests of routing_info_ex.rs.
CONSTANTS
  s1 = s1
  s2 = s2
  s3 = s3
  None = None
  Sids <- MCSids
  Roots <- MCRoots
  MaxDepth = 3
  InitialTtl = 6
SPECIFICATION Spec
INVARIANT IterationIsLevelOrder
INVARIANT KnownGatewaysMatchReference
INVARIANT SendDataIsCut
INVARIANT UnitTestsHold
\* get_known_gateway_session_ids returns: the computation ends in "done"
CHECK_DEADLOCK FALSE
