----------------------------- MODULE RoutingTree -----------------------------
(***************************************************************************)
(* The routing-tree helpers of proto/src/routing_info_ex.rs, which clients *)
(* run over the aggregated RoutingInfo a hub returns:                      *)
(*                                                                         *)
(*   RoutingInfoRecursiveIteratorWithDepth  breadth-first walk over a      *)
(*                                          VecDeque of (node, depth)      *)
(*   get_known_gateway_session_ids          a collect of that walk, then   *)
(*                                          two loops over it merging the  *)
(*                                          nodes' known gateways          *)
(*   get_min_depth, is_known                 searches of the walk           *)
(*   to_send_data                           the tree cut at a depth        *)
(*                                                                         *)
(* The walk and the two loops are modelled step by step, one element per   *)
(* step, from a tree chosen in Init; each result is checked against a      *)
(* reference definition written independently of the loop (levels of the   *)
(* tree, shortest paths, the last occurrence of a session id).            *)
(*                                                                         *)
(* A node is a record: session id (or None), node type, the                *)
(* last_connect_time of its gateway_state (or None), its                   *)
(* known_gateway_session_ids as a sequence of [sid, ttl], and its          *)
(* relation: "none", "count" (Count(count)) or "infos" (subtrees infos).  *)
(* The walk starts from a sequence of roots: one for a RoutingInfo, any    *)
(* number for a slice or a Vec of them.                                    *)
(***************************************************************************)
EXTENDS Integers, Sequences, SequencesExt, FiniteSets

CONSTANTS
  Sids,         \* session ids
  Roots,        \* the sequences of trees the computation may start from
  MaxDepth,     \* bound on the depth of the trees of Roots
  InitialTtl,   \* INITIAL_TTL
  None

VARIABLES
  roots,        \* the trees get_known_gateway_session_ids is called on
  queue,        \* the iterator's VecDeque of <<node, depth>>
  out,          \* `all`: what the iterator has yielded, in order
  pc,           \* "iter", "tracker", "merge", "types" or "done"
  exists,       \* the HashMap sid -> ttl, a function on a subset of Sids
  i, j,         \* the loops' positions in `all` and in a node's known list
  result        \* the returned Vec, as a set of [sid, ttl]

vars == <<roots, queue, out, pc, exists, i, j, result>>

-----------------------------------------------------------------------------
(* RoutingInfoEx                                                           *)

\* get_relations: Some(infos) only for a RoutingInfos relation
HasRelations(t) == t.rel = "infos"
Relations(t) == IF HasRelations(t) THEN t.infos ELSE <<>>

\* set_relations: the relation becomes RoutingInfos(relations)
SetRelations(t, relations) == [t EXCEPT !.rel = "infos", !.count = 0, !.infos = relations]

\* get_relation_count: Count(v) is v, RoutingInfos its length, None 0
RelationCount(t) ==
  CASE t.rel = "count" -> t.count
    [] t.rel = "infos" -> Len(t.infos)
    [] OTHER           -> 0

\* mutant: the subtrees are kept whatever their node type
RECURSIVE ToSendDataUnfiltered(_, _)
ToSendDataUnfiltered(t, depth) ==
  LET cleared == [t EXCEPT !.known = <<>>] IN
  IF depth = 0
  THEN [cleared EXCEPT !.rel = "count", !.count = RelationCount(t), !.infos = <<>>]
  ELSE IF HasRelations(t)
  THEN [cleared EXCEPT !.infos = [x \in 1..Len(t.infos) |-> ToSendDataUnfiltered(t.infos[x], depth - 1)]]
  ELSE cleared

\* _to_send_data: clear the known gateways; at depth 0 replace the
\* relation by its count, else keep the Normal and Gateway subtrees,
\* each cut one level shallower
RECURSIVE ToSendData(_, _)
ToSendData(t, depth) ==
  LET cleared == [t EXCEPT !.known = <<>>] IN
  IF depth = 0
  THEN [cleared EXCEPT !.rel = "count", !.count = RelationCount(t), !.infos = <<>>]
  ELSE IF HasRelations(t)
  THEN [cleared EXCEPT !.infos =
          LET kept == SelectSeq(t.infos, LAMBDA v : v.type \in {"Normal", "Gateway"})
          IN  [x \in 1..Len(kept) |-> ToSendData(kept[x], depth - 1)]]
  ELSE cleared

\* add_known: a copy whose relation is RoutingInfos of get_relations (empty
\* for a Count or no relation) with a Normal node of session s pushed
AddKnown(t, s) ==
  [t EXCEPT !.rel = "infos", !.count = 0,
            !.infos = Relations(t) \o
                      <<[sid |-> s, type |-> "Normal", gateway_state |-> None, known |-> <<>>,
                         rel |-> "none", count |-> 0, infos |-> <<>>]>>]

-----------------------------------------------------------------------------
(* RoutingInfoRecursiveIteratorWithDepth                                   *)

\* mutant: the deque is popped at the back
PopBack(q) == <<Last(q), Front(q)>>

\* stack.borrow_mut().pop_front()
PopFront(q) == <<Head(q), Tail(q)>>

\* next(): pop the front (node, depth), push its relations at depth + 1,
\* yield the popped pair
IterNext ==
  /\ pc = "iter" /\ queue # <<>>
  /\ LET p == PopFront(queue)
         cur == p[1]
     IN  /\ queue' = p[2] \o [x \in 1..Len(Relations(cur[1])) |->
                                <<Relations(cur[1])[x], cur[2] + 1>>]
         /\ out' = Append(out, cur)
  /\ UNCHANGED <<roots, pc, exists, i, j, result>>

\* next() returns None: collect() has `all`
IterEnd ==
  /\ pc = "iter" /\ queue = <<>>
  /\ pc' = "tracker"
  /\ UNCHANGED <<roots, queue, out, exists, i, j, result>>

-----------------------------------------------------------------------------
(* get_known_gateway_session_ids                                           *)

Node(k) == out[k][1]
Trackers == {k \in 1..Len(out) : Node(k).type = "Tracker"}

\* all.iter().find(Tracker): its relations' session ids with INITIAL_TTL,
\* or nothing when it has no subtrees; else on to the loops
FindTracker ==
  /\ pc = "tracker"
  /\ \/ /\ Trackers # {}
        /\ LET tr == Node(CHOOSE k \in Trackers : \A l \in Trackers : k <= l)
           IN  result' = {[sid |-> c.sid, ttl |-> InitialTtl] :
                            c \in {Relations(tr)[x] : x \in 1..Len(Relations(tr))}}
                         \ {[sid |-> None, ttl |-> InitialTtl]}
        /\ pc' = "done"
        /\ UNCHANGED <<i, j>>
     \/ /\ Trackers = {}
        /\ pc' = "merge" /\ i' = 1 /\ j' = 1
        /\ UNCHANGED result
  /\ UNCHANGED <<roots, queue, out, exists>>

\* exists.entry(sid) for a vacant or an occupied entry
Put(f, s, v) == [x \in DOMAIN f \cup {s} |-> IF x = s THEN v ELSE f[x]]

\* mutant: the occupied entry is overwritten whatever its ttl
MergeOverwrite(f, o) == Put(f, o.sid, o.ttl - 1)

\* Occupied: if v.ttl < o.ttl { v.ttl = o.ttl - 1 }; Vacant: o.ttl - 1
MergeKnown(f, o) ==
  IF o.sid \notin DOMAIN f \/ f[o.sid] < o.ttl THEN Put(f, o.sid, o.ttl - 1)
  ELSE f

\* for r in all { for o in r.known_gateway_session_ids { ... } }
MergeStep ==
  /\ pc = "merge"
  /\ \/ /\ i <= Len(out) /\ j <= Len(Node(i).known)
        /\ exists' = MergeKnown(exists, Node(i).known[j])
        /\ j' = j + 1
        /\ UNCHANGED <<pc, i>>
     \/ /\ i <= Len(out) /\ j > Len(Node(i).known)
        /\ i' = i + 1 /\ j' = 1
        /\ UNCHANGED <<pc, exists>>
     \/ /\ i > Len(out)
        /\ pc' = "types" /\ i' = 1
        /\ UNCHANGED <<exists, j>>
  /\ UNCHANGED <<roots, queue, out, result>>

\* for r in all: skip a node without a session id; a Gateway sets its
\* entry to INITIAL_TTL, any other type removes it
TypeStep ==
  /\ pc = "types"
  /\ \/ /\ i <= Len(out)
        /\ exists' = CASE Node(i).sid = None          -> exists
                       [] Node(i).type = "Gateway"    -> Put(exists, Node(i).sid, InitialTtl)
                       [] OTHER -> [x \in DOMAIN exists \ {Node(i).sid} |-> exists[x]]
        /\ i' = i + 1
        /\ UNCHANGED <<pc, result>>
     \/ /\ i > Len(out)
        /\ result' = {[sid |-> s, ttl |-> exists[s]] : s \in DOMAIN exists}
        /\ pc' = "done"
        /\ UNCHANGED <<exists, i>>
  /\ UNCHANGED <<roots, queue, out, j>>

\* mutant: the filter keeps ttl 1, handing on a ttl of 0
NextTtlOffByOne(res) ==
  {[sid |-> e.sid, ttl |-> e.ttl - 1] : e \in {e \in res : e.ttl > 0}}

\* get_known_gateway_session_ids_next_ttl: keep the entries with ttl > 1,
\* each with its ttl decremented
NextTtl(res) ==
  {[sid |-> e.sid, ttl |-> e.ttl - 1] : e \in {e \in res : e.ttl > 1}}

-----------------------------------------------------------------------------
(* get_min_depth and is_known, over the finished walk                      *)

DepthsOf(s) == {out[k][2] : k \in {k \in 1..Len(out) : Node(k).sid = s}}

\* filter_map the matching depths, sorted_by a.cmp(b), next()
GetMinDepth(s) ==
  IF DepthsOf(s) = {} THEN None
  ELSE CHOOSE d \in DepthsOf(s) : \A e \in DepthsOf(s) : d <= e

\* recursive_iter().any(session_id == s)
IsKnown(s) == \E k \in 1..Len(out) : Node(k).sid = s

\* recursive_iter(): the walk's nodes without their depths; fold(init, f)
\* is FoldLeft(f, init, RecursiveIter)
RecursiveIter == [k \in 1..Len(out) |-> Node(k)]

-----------------------------------------------------------------------------
Init ==
  /\ roots \in Roots
  /\ queue = [x \in 1..Len(roots) |-> <<roots[x], 0>>]
  /\ out = <<>>
  /\ pc = "iter"
  /\ exists = [s \in {} |-> 0]
  /\ i = 1 /\ j = 1
  /\ result = {}

Next == IterNext \/ IterEnd \/ FindTracker \/ MergeStep \/ TypeStep

Spec == Init /\ [][Next]_vars

-----------------------------------------------------------------------------
(* Reference definitions, written from the tree and not from the loops     *)

\* the nodes at depth k, left to right
RECURSIVE AtDepth(_, _)
AtDepth(t, k) ==
  IF k = 0 THEN <<t>>
  ELSE FlattenSeq([x \in 1..Len(Relations(t)) |-> AtDepth(Relations(t)[x], k - 1)])

\* the trees level by level, each level left to right across the trees,
\* each node with its depth
LevelOrder(f) ==
  FlattenSeq([k \in 1..(MaxDepth + 1) |->
                LET l == FlattenSeq([x \in 1..Len(f) |-> AtDepth(f[x], k - 1)])
                IN  [x \in 1..Len(l) |-> <<l[x], k - 1>>]])

\* What get_known_gateway_session_ids should return for the trees f: under a
\* Tracker (the first one, level by level) its children with INITIAL_TTL;
\* else every session some node reports as a known gateway with one less
\* than the largest ttl reported for it, unless a node of that session
\* is in the tree, where the type of its last node, level by level,
\* decides: a Gateway with INITIAL_TTL, any other type not at all.
KnownGatewaysRef(f) ==
  LET L == [x \in 1..Len(LevelOrder(f)) |-> LevelOrder(f)[x][1]]
      Idx == 1..Len(L)
      trk == {k \in Idx : L[k].type = "Tracker"}
      nodeSids == {L[k].sid : k \in Idx} \ {None}
      reported == UNION {ToSet(L[k].known) : k \in Idx}
      LastAt(s) == Max({k \in Idx : L[k].sid = s})
  IN  IF trk # {}
      THEN {[sid |-> c.sid, ttl |-> InitialTtl] : c \in ToSet(Relations(L[Min(trk)]))}
             \ {[sid |-> None, ttl |-> InitialTtl]}
      ELSE {[sid |-> s, ttl |-> InitialTtl] :
              s \in {s \in nodeSids : L[LastAt(s)].type = "Gateway"}}
           \cup {[sid |-> s, ttl |-> Max({e.ttl : e \in {e \in reported : e.sid = s}}) - 1] :
                   s \in {e.sid : e \in reported} \ nodeSids}

-----------------------------------------------------------------------------
(* Properties                                                              *)

\* RoutingInfoRecursiveIteratorWithDepth yields the trees breadth first:
\* what it has yielded is always a prefix of the trees level by level,
\* each node with its depth, and the whole of it once next() is None.
IterationIsLevelOrder ==
  /\ IsPrefix(out, LevelOrder(roots))
  /\ pc # "iter" => out = LevelOrder(roots)

\* get_known_gateway_session_ids returns the reference set: the ttl merge
\* of the first loop keeps one less than the largest ttl whatever order
\* the nodes report it in, and the second loop lets the nodes present in
\* the tree decide.
KnownGatewaysMatchReference ==
  pc = "done" => result = KnownGatewaysRef(roots)

\* to_send_data(depth) sends no known gateways, no node below `depth`,
\* only counts at `depth`, and only Normal and Gateway nodes below the
\* root.
SendDataIsCut ==
  \A t \in ToSet(roots), d \in 0..MaxDepth :
    LET L == LevelOrder(<<ToSendData(t, d)>>) IN
    \A k \in 1..Len(L) :
      /\ L[k][1].known = <<>>
      /\ L[k][2] <= d
      /\ L[k][2] = d => L[k][1].rel = "count"
      /\ L[k][2] > 0 => L[k][1].type \in {"Normal", "Gateway"}

====
