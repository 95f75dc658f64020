--------------------------- MODULE MCClusterRouting ---------------------------
EXTENDS ClusterRouting, TLC

CONSTANTS n1, n2, u1, u2, c1, c2

MCNodes == {n1, n2}
MCUrls == {u1, u2}
MCClients == {c1, c2}

\* u1 hashes to the first slot of a two-node list, u2 to the second
MCHashOf == (u1 :> 0) @@ (u2 :> 1)

\* Both orders of the two instances, and one of them alone (the other
\* terminated or not yet running)
MCLists == {<<n1, n2>>, <<n2, n1>>, <<n1>>}

MCSymmetry == Permutations(MCClients)
=============================================================================
