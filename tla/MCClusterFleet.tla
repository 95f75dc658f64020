--------------------------- MODULE MCClusterFleet ---------------------------
(* Two instances, each with the cycle its process runs at start-up, one    *)
(* /update-cluster cycle, two urls that the two orders of a two-node list  *)
(* assign to different nodes.                                              *)
EXTENDS ClusterFleet, TLC

CONSTANTS i0, i1, i2, k1, s1, s2, u1, u2, c1

MCIps == {i1, i2}
MCCycles == {k1, s1, s2}
MCStartupCycle == (i1 :> s1) @@ (i2 :> s2)
MCUrls == {u1, u2}
MCClients == {c1}

\* u1 hashes to the first slot of a two-node list, u2 to the second
MCHashOf == (u1 :> 0) @@ (u2 :> 1)

\* i1 behind the cluster host with its single-host record, a hand-made
\* record entrance-1.B for i2 that split_records leaves alone, and the
\* node host left by i0, an instance terminated before the run, which it
\* groups with the single-host records (the two cases of test_split_records)
MCInitDns ==
  { [id |-> 1, name |-> "entrance.verseengine.cloud", ip |-> i1],
    [id |-> 2, name |-> "entrance-76f67dfc1573f0e7.verseengine.cloud", ip |-> i1],
    [id |-> 3, name |-> "entrance-1.verseengine.cloud", ip |-> i2],
    [id |-> 4, name |-> "entrance-1111111111111111.verseengine.cloud", ip |-> i0] }

\* get_node_id of 1.2.3.4 and 1.2.3.5 (test_get_node_id)
MCNodeId == (i1 :> "76f67dfc1573f0e7") @@ (i2 :> "ca56ce073bbcd5d5")

DT == INSTANCE DnsReconcileTests WITH published <- ToSet(published)

\* The DNS cycle's host-name helpers, record grouping and diff, as the
\* fleet instantiates them, pass the unit tests of func.rs and manager.rs.
ManagerUnitTestsHold == DT!ManagerUnitTestsHold
=============================================================================
