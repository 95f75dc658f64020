---------------------------- MODULE MCDnsReconcile ----------------------------
EXTENDS DnsReconcile, TLC

CONSTANTS i0, i1, i2, k1, k2

MCIps == {i1, i2}
MCCycles == {k1}
MCCyclesPair == {k1, k2}

\* The zone before the first cycle: i1 behind the cluster host with its
\* single-host record, a hand-made record entrance-1.B for i2 that
\* split_records must leave alone, and a stale node host of a terminated
\* instance i0 that it groups with the single-host records (the two
\* cases of test_split_records)
MCInitDns ==
  { [id |-> 1, name |-> "entrance.verseengine.cloud", ip |-> i1],
    [id |-> 2, name |-> "entrance-76f67dfc1573f0e7.verseengine.cloud", ip |-> i1],
    [id |-> 3, name |-> "entrance-1.verseengine.cloud", ip |-> i2],
    [id |-> 4, name |-> "entrance-1111111111111111.verseengine.cloud", ip |-> i0] }

\* get_node_id of 1.2.3.4 and 1.2.3.5 (test_get_node_id)
MCNodeId == (i1 :> "76f67dfc1573f0e7") @@ (i2 :> "ca56ce073bbcd5d5")
=============================================================================
