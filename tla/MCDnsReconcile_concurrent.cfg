\* Two overlapping calls of /update-cluster while an instance starts:
\* does the cycle that saw the current fleet leave DNS reconciled?
CONSTANTS
  i0 = i0
  i1 = i1
  i2 = i2
  k1 = k1
  k2 = k2
  Ips <- MCIps
  Cycles <- MCCyclesPair
  InitDns <- MCInitDns
  ClusterHost = "entrance.verseengine.cloud"
  NodeId <- MCNodeId
  MaxTriggers = 3
  MaxFleetChanges = 2
  MaxFailures = 1
SPECIFICATION Spec
INVARIANT SuccessfulCycleReconciles
\* Cycles run only when /update-cluster is called: once the bounded
\* triggers are spent and every cycle returned, nothing is left to do.
CHECK_DEADLOCK FALSE
