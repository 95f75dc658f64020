-------------------------- MODULE DnsReconcileTests --------------------------
(***************************************************************************)
(* The unit tests of cluster/src/func.rs and cluster/src/manager.rs, stated *)
(* over the operators of DnsReconcile.  They hold for the cluster host the  *)
(* tests use, entrance.verseengine.cloud, and the node id the tests give    *)
(* for 1.2.3.4.  The model keeps record groups and diffs as sets, so the    *)
(* tests' assertions on positions become assertions on membership.         *)
(* get_node_id itself (Shake256) is the constant NodeId and is not tested  *)
(* here, nor get_node_host for a cluster host without a prefix, which an   *)
(* ASSUME of DnsReconcile leaves out.                                      *)
(***************************************************************************)
EXTENDS DnsReconcile

TestClusterHost == "entrance.verseengine.cloud"

\* a cf::CfARecord literal
Rec(id, name, ip) == [id |-> id, name |-> name, ip |-> ip]

\* the records of test_split_records
SplitRecordsFixture ==
  { Rec(1, "entrance.verseengine.cloud", "1.2.3.4"),
    Rec(2, "entrance-1111111111111111.verseengine.cloud", "1.2.3.4"),
    Rec(3, "entrance-1111111111111112.verseengine.cloud", "1.2.3.4"),
    Rec(4, "entrance-1.verseengine.cloud", "1.2.3.4") }

IdsOf(recs) == {r.id : r \in recs}

\* test_split_host
TestSplitHost ==
  /\ SplitHost("verseengine.cloud") = <<"", "verseengine.cloud">>
  /\ SplitHost("entrance.verseengine.cloud") = <<"entrance", "verseengine.cloud">>
  /\ SplitHost("entrance.a.verseengine.cloud") = <<"entrance", "a.verseengine.cloud">>

\* test_get_node_host, for the cluster host with a prefix
TestGetNodeHost ==
  \A i \in Ips :
    NodeId[i] = "76f67dfc1573f0e7" =>
      GetNodeHost(i) = "entrance-76f67dfc1573f0e7.verseengine.cloud"

\* test_split_records: one cluster record, and the two names of the
\* length of a node host; entrance-1 is in neither group
TestSplitRecords ==
  /\ IdsOf({r \in SplitRecordsFixture : IsCluster(r.name)}) = {1}
  /\ IdsOf({r \in SplitRecordsFixture : IsSingle(r.name)}) = {2, 3}

\* test_diff_records: no records, no current ips, and an overlap
TestDiffRecords ==
  LET recs == { Rec(1, TestClusterHost, "1.1.1.0"), Rec(2, TestClusterHost, "1.1.1.1") }
      now == {"1.1.1.1", "1.1.1.2"}
  IN  /\ DiffDels({}, {"1.1.1.0"}) = {} /\ DiffAdds({}, {"1.1.1.0"}) = {"1.1.1.0"}
      /\ DiffAdds(recs, {}) = {} /\ Cardinality(DiffDels(recs, {})) = 2
      /\ DiffAdds(recs, now) = {"1.1.1.2"} /\ IdsOf(DiffDels(recs, now)) = {1}

-----------------------------------------------------------------------------
\* Whenever a cycle is about to split and diff the zone's records
\* (update_dns after get_arecords), the host-name helpers, split_records
\* and diff_records it applies reproduce every assertion of the code's
\* unit tests that does not depend on the Shake256 hash, for the cluster
\* host the tests use.
ManagerUnitTestsHold ==
  (ClusterHost = TestClusterHost /\ \E k \in Cycles : pc[k] = "read") =>
    TestSplitHost /\ TestGetNodeHost /\ TestSplitRecords /\ TestDiffRecords

====
