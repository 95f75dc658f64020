---------------------------- MODULE MCRoutingTree ----------------------------
(* Trees of depth at most 2 built from four node labels: two nodes of     *)
(* session s2 of different types (so the last occurrence decides), known *)
(* gateway reports of s3 with different ttls in different nodes (so the   *)
(* merge order matters), and a Tracker, with and without subtrees.  The   *)
(* reported ttls are 1..INITIAL_TTL - 1, the values                        *)
(* get_known_gateway_session_ids_next_ttl hands on.  The fixtures of the  *)
(* unit tests are added to these roots; one of them is of depth 3.        *)
EXTENDS RoutingTreeTests

CONSTANTS s1, s2, s3

MCSids == {s1, s2, s3}

Labels ==
  { [sid |-> s1,   type |-> "Gateway", known |-> <<[sid |-> s3, ttl |-> 3], [sid |-> s2, ttl |-> 2]>>],
    [sid |-> s2,   type |-> "Normal",  known |-> <<[sid |-> s3, ttl |-> 1]>>],
    [sid |-> s2,   type |-> "Gateway", known |-> <<[sid |-> s3, ttl |-> 5], [sid |-> s1, ttl |-> 1]>>],
    [sid |-> None, type |-> "Tracker", known |-> <<>>] }

MkNode(l, rel, count, infos) ==
  [sid |-> l.sid, type |-> l.type, gateway_state |-> None, known |-> l.known,
   rel |-> rel, count |-> count, infos |-> infos]

Leaves == {MkNode(l, r, 2, <<>>) : l \in Labels, r \in {"none", "count"}}
Mids == Leaves \cup {MkNode(l, "infos", 0, <<c>>) : l \in Labels,
                     c \in {MkNode(m, "none", 0, <<>>) : m \in Labels}}

\* each generated tree alone, and the fixtures of the unit tests
MCRoots == {<<MkNode(l, "infos", 0, cs)>> : l \in Labels, cs \in BoundedSeq(Mids, 2)}
           \cup TestRoots

====
