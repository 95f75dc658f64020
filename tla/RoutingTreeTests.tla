--------------------------- MODULE RoutingTreeTests ---------------------------
(***************************************************************************)
(* The unit tests of proto/src/routing_info_ex.rs, stated over the model:  *)
(* each fixture of the tests is a tree (or a Vec of trees) the walk of     *)
(* RoutingTree may start from, and each test is a state predicate that     *)
(* holds once the walk of its fixture has reached the point where the test *)
(* reads its result.  A session id get_sid(n) or vec![n] is the number n;  *)
(* a gateway_state gs(t, 0) is its last_connect_time t.  The position of   *)
(* test_add_known is left out, as the model does not carry positions.     *)
(***************************************************************************)
EXTENDS RoutingTree

\* a RoutingInfo literal: session id, node type, gateway_state, known
\* gateways and subtrees; ..Default::default() leaves no relation
Ri(sid, type, gs, known, infos) ==
  [sid |-> sid, type |-> type, gateway_state |-> gs, known |-> known,
   rel |-> IF infos = <<>> THEN "none" ELSE "infos", count |-> 0, infos |-> infos]

\* SessionIdWithTtl { session_id, ttl }: the closure f of the tests
Kg(sid, ttl) == [sid |-> sid, ttl |-> ttl]

\* create_test_tree: a Normal root without a session id, two Normal
\* children, each with two Normal children
CreateTestTree ==
  Ri(None, "Normal", 1, <<>>,
     << Ri(2, "Normal", 2, <<>>, << Ri(3, "Normal", 3, <<>>, <<>>),
                                   Ri(4, "Normal", 4, <<>>, <<>>) >>),
        Ri(5, "Normal", 13, <<>>, << Ri(14, "Normal", 14, <<>>, <<>>),
                                    Ri(15, "Normal", 15, <<>>, <<>>) >>) >>)

\* the two Vecs `ar` of test_get_known_gateway_session_ids
KnownGatewaysAr1 ==
  << Ri(1, "Gateway", None, <<Kg(2, 3), Kg(3, 2)>>, <<>>),
     Ri(2, "Gateway", None, <<Kg(1, 1), Kg(3, 1)>>, <<>>),
     Ri(4, "Gateway", None, <<Kg(3, 2)>>, <<>>),
     Ri(5, "Normal", None, <<Kg(3, 2), Kg(6, 2)>>, <<>>),
     Ri(6, "Normal", None, <<>>, <<>>) >>

KnownGatewaysAr2 ==
  << Ri(1, "Gateway", None, <<Kg(2, 3), Kg(3, 2)>>, <<>>),
     Ri(1, "Tracker", None, <<Kg(2, 3), Kg(3, 2)>>,
        << Ri(100, "Gateway", None, <<>>, <<>>),
           Ri(101, "Gateway", None, <<>>, <<>>) >>) >>

\* the second tree of test_is_known: a lone Gateway
IsKnownGateway == Ri(1, "Gateway", None, <<>>, <<>>)

\* the tree of test_add_known
AddKnownBase == Ri(1, "Normal", 4, <<Kg(2, 1)>>, <<>>)

\* the tree of test_get_min_depth: session 1 at depths 3 and 2
MinDepthTree ==
  Ri(0, "None", None, <<>>,
     << Ri(2, "None", None, <<>>,
           << Ri(2, "None", None, <<>>, <<>>),
              Ri(3, "None", None, <<>>, << Ri(1, "None", None, <<>>, <<>>) >>) >>),
        Ri(3, "None", None, <<>>, << Ri(1, "None", None, <<>>, <<>>) >>) >>)

\* every fixture the tests walk
TestRoots ==
  { <<CreateTestTree>>, <<CreateTestTree, CreateTestTree>>,
    KnownGatewaysAr1, KnownGatewaysAr2, <<IsKnownGateway>>,
    <<AddKnownBase>>, <<AddKnown(AddKnownBase, 2)>>,
    <<AddKnown(AddKnown(AddKnownBase, 2), 10)>>, <<MinDepthTree>> }

\* the walk of the fixture `f` is over: next() returned None
Walked(f) == roots = f /\ pc # "iter"

GatewayTimes == [k \in 1..Len(out) |-> Node(k).gateway_state]
OddTime(acc, v) == IF v.gateway_state % 2 = 1 THEN acc + 1 ELSE acc
EvenTime(acc, v) == IF v.gateway_state % 2 = 0 THEN acc + 1 ELSE acc

\* test_recursive_iter: the connect times in walk order, then None
TestRecursiveIter ==
  Walked(<<CreateTestTree>>) => GatewayTimes = <<1, 2, 13, 3, 4, 14, 15>>

\* test_fold, test_recursive_iter_1, _2 and _3: counts and sums over the walk
TestFold ==
  /\ Walked(<<CreateTestTree>>) =>
       /\ FoldLeft(OddTime, 0, RecursiveIter) = 4
       /\ FoldLeft(EvenTime, 0, RecursiveIter) = 3
       /\ FoldLeft(LAMBDA acc, v : acc + 1, 0, RecursiveIter) = 7
       /\ FoldLeft(LAMBDA acc, v : acc + v.gateway_state, 0, RecursiveIter) = 52
  /\ Walked(<<CreateTestTree, CreateTestTree>>) => FoldLeft(OddTime, 0, RecursiveIter) = 8

\* test_recursive_iter_with_depth: both roots at depth 0, then both
\* copies of each level in turn
TestRecursiveIterWithDepth ==
  Walked(<<CreateTestTree, CreateTestTree>>) =>
    /\ [k \in 1..Len(out) |-> out[k][2]] = <<0, 0, 1, 1, 1, 1, 2, 2, 2, 2, 2, 2, 2, 2>>
    /\ [k \in 3..Len(out) |-> Node(k).sid] =
         [k \in 3..14 |-> <<2, 5, 2, 5, 3, 4, 14, 15, 3, 4, 14, 15>>[k - 2]]

\* test_get_known_gateway_session_ids, with _next_ttl on the first Vec
TestGetKnownGatewaySessionIds ==
  /\ roots = KnownGatewaysAr1 /\ pc = "done" =>
       /\ result = {Kg(1, InitialTtl), Kg(2, InitialTtl), Kg(3, 1), Kg(4, InitialTtl)}
       /\ NextTtl(result) = {Kg(1, InitialTtl - 1), Kg(2, InitialTtl - 1), Kg(4, InitialTtl - 1)}
  /\ roots = KnownGatewaysAr2 /\ pc = "done" =>
       result = {Kg(100, InitialTtl), Kg(101, InitialTtl)}

\* test_is_known
TestIsKnown ==
  /\ Walked(<<CreateTestTree>>) =>
       IsKnown(2) /\ IsKnown(5) /\ IsKnown(3) /\ ~IsKnown(10) /\ ~IsKnown(0)
  /\ Walked(<<IsKnownGateway>>) => IsKnown(1)

\* test_add_known: the added sessions become known, the rest of the
\* node is kept
TestAddKnown ==
  LET t == AddKnown(AddKnown(AddKnownBase, 2), 10) IN
  /\ Walked(<<AddKnownBase>>) => IsKnown(1) /\ ~IsKnown(2) /\ ~IsKnown(3)
  /\ Walked(<<AddKnown(AddKnownBase, 2)>>) => IsKnown(2)
  /\ Walked(<<t>>) => IsKnown(10)
  /\ t.sid = 1 /\ t.type = "Normal" /\ t.gateway_state = 4 /\ t.known = <<Kg(2, 1)>>

\* test_to_send_data: relation counts before and after the cut
TestToSendData ==
  LET t0 == Ri(None, "None", None, <<>>, <<>>)
      t2 == AddKnown(AddKnown(t0, 2), 10)
      t3 == ToSendData(t2, 0)
      c1 == Relations(ToSendData(CreateTestTree, 1))[1]
      c2 == Relations(ToSendData(CreateTestTree, 2))[1]
  IN  /\ RelationCount(t0) = 0 /\ t0.rel = "none"
      /\ RelationCount(AddKnown(t0, 2)) = 1
      /\ RelationCount(t2) = 2 /\ HasRelations(t2) /\ t2.rel # "count"
      /\ RelationCount(t3) = 2 /\ ~HasRelations(t3) /\ t3.rel = "count"
      /\ RelationCount(c1) = 2 /\ ~HasRelations(c1)
      /\ RelationCount(c2) = 2 /\ HasRelations(c2)

\* test_relation: set_relations then get_relations
TestRelation ==
  LET t == SetRelations(Ri(None, "None", None, <<>>, <<>>),
                        << Ri(1, "Gateway", None, <<>>, <<>>),
                           Ri(2, "Gateway", None, <<>>, <<>>) >>)
  IN  Relations(t)[1].sid = 1 /\ Relations(t)[2].sid = 2

\* test_get_min_depth
TestGetMinDepth == Walked(<<MinDepthTree>>) => GetMinDepth(1) = 2

-----------------------------------------------------------------------------
\* The model reproduces every assertion of the code's own unit tests of
\* the routing-tree helpers (routing_info_ex.rs): the walk order and depths
\* of RoutingInfoRecursiveIteratorWithDepth over a tree and a Vec of trees,
\* fold, the known-gateway merge with and without a Tracker, next_ttl,
\* is_known, add_known, to_send_data, set_relations and get_min_depth.
UnitTestsHold ==
  /\ TestRecursiveIter
  /\ TestFold
  /\ TestRecursiveIterWithDepth
  /\ TestGetKnownGatewaySessionIds
  /\ TestIsKnown
  /\ TestAddKnown
  /\ TestToSendData
  /\ TestRelation
  /\ TestGetMinDepth

====
