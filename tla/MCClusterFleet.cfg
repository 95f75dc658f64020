\* Instances starting (their process running its own cycle first) and
\* stopping, cycles whose cloud calls may fail, one cycle at a time,
\* nodes polling the uploaded list, and a client entering through DNS
\* and following redirects.
CONSTANTS
  i0 = i0
  i1 = i1
  i2 = i2
  k1 = k1
  s1 = s1
  s2 = s2
  u1 = u1
  u2 = u2
  c1 = c1
  None = None
  Ips <- MCIps
  Cycles <- MCCycles
  StartupCycle <- MCStartupCycle
  SerialCycles = TRUE
  InitDns <- MCInitDns
  ClusterHost = "entrance.verseengine.cloud"
  NodeId <- MCNodeId
  Urls <- MCUrls
  Clients <- MCClients
  HashOf <- MCHashOf
  MaxTriggers = 2
  MaxFleetChanges = 2
  MaxFailures = 1
  MaxHops = 2
SPECIFICATION Spec
INVARIANTS
  SuccessfulCycleReconciles
  NoRedirectChain
  ServingNodesReachable
  ManagerUnitTestsHold
PROPERTIES
  
  WorldsConverge
\* Cycles run only when /update-cluster is called and the client need not
\* enter again: once the bounded steps are spent nothing may be left.
CHECK_DEADLOCK FALSE
