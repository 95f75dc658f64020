---------------------------- MODULE WorldRouting ----------------------------
(***************************************************************************)
(* The routing half of one world (hubserv/src/state/url_data.rs): the      *)
(* cached routing tree of a UrlData, refreshed on demand by the            *)
(* exchange_routeing_info RPC (swarm.rs) and pruned by                     *)
(* UrlData::remove_connection, with the clients' published routing info   *)
(* (ClientData::set_routing_info).                                         *)
(*                                                                         *)
(* One url is modelled: worlds of different urls share no state.  Session  *)
(* ids are distinct, so a session is named by its peer connection c.  The  *)
(* admission path, checked step by step in Registry, is one step here;     *)
(* remove_connection keeps every atomic step, because the message handler *)
(* of a session races it.  A UrlData is named by the session that created  *)
(* it, as in Registry.                                                     *)
(***************************************************************************)
EXTENDS Integers, Sequences, SequencesExt, FiniteSets

CONSTANTS
  Conns,            \* peer connections / sessions of this world's url
  Interval,         \* ROUTING_INFO_UPDATE_INTERVAL_SECONDS
  RoutingInfoMax,   \* ROUTING_INFO_MAX
  StartTime,        \* get_now_sec() when the model starts
  MaxTime,          \* bound on the clock
  MaxPublish,       \* bound on the routing infos each client publishes
  None

ASSUME Interval \in Nat \ {0} /\ RoutingInfoMax \in Nat \ {0}
ASSUME StartTime \in Nat /\ StartTime >= Interval /\ MaxTime >= StartTime
ASSUME MaxPublish \in Nat \ {0}

VARIABLES
  now,          \* get_now_sec()
  life,         \* "out", "in" (admitted) or "gone" (its pc went down)
  registered,   \* sessions in State.connection_map
  url_data,     \* State.url_data_map[url]: a UrlData or None
  ud_count,     \* UrlData.client_count
  ud_clients,   \* UrlData.clients, in push order
  ud_updated,   \* UrlData.routing_info_updated
  tree,         \* UrlData.routing_info: the set of infos it lists
  ri,           \* ClientData.routing_info: version published, 0 = None
  disposed,     \* dispose replaced the dc's on_message with a no-op
  msg,          \* program counter of the message handler of each session
  m_ud, m_now, m_loaded, m_snap,  \* its locals
  rm, rm_ud,    \* program counter and ud of remove_connection
  left_at       \* history: when retain dropped the session, or None

vars == <<now, life, registered, url_data, ud_count, ud_clients, ud_updated,
          tree, ri, disposed, msg, m_ud, m_now, m_loaded, m_snap,
          rm, rm_ud, left_at>>

\* A routing info of the tree: the session that published it and which
\* of its publications it is
Info == [sid : Conns, ver : 1..MaxPublish]

Locals == <<m_ud, m_now, m_loaded, m_snap>>

-----------------------------------------------------------------------------
(* Admission and a client going away                                       *)

\* mutant: UrlData::new leaves the creator uncounted
NewUrlDataCountZero == 0

\* UrlData::new: client_count starts at 1, for the creating client
NewUrlDataCount == 1

\* State::add_connection: insert, then push into the url's UrlData or
\* create it (UrlData::new: one client, routing_info_updated 0, empty tree)
Join(c) ==
  /\ life[c] = "out"
  /\ life' = [life EXCEPT ![c] = "in"]
  /\ registered' = registered \cup {c}
  /\ IF url_data = None
       THEN /\ url_data' = c
            /\ ud_count' = [ud_count EXCEPT ![c] = NewUrlDataCount]
            /\ ud_clients' = [ud_clients EXCEPT ![c] = <<c>>]
            /\ ud_updated' = [ud_updated EXCEPT ![c] = 0]
            /\ tree' = [tree EXCEPT ![c] = {}]
       ELSE /\ ud_count' = [ud_count EXCEPT ![url_data] = @ + 1]
            /\ ud_clients' = [ud_clients EXCEPT ![url_data] = Append(@, c)]
            /\ UNCHANGED <<url_data, ud_updated, tree>>
  /\ UNCHANGED <<left_at, now, ri, disposed, msg, Locals, rm, rm_ud>>

\* The pc of c goes down; its state-change callback calls remove_connection
Disconnect(c) ==
  /\ life[c] = "in"
  /\ life' = [life EXCEPT ![c] = "gone"]
  /\ rm' = [rm EXCEPT ![c] = "rm_take"]
  /\ UNCHANGED <<left_at, now, registered, url_data, ud_count, ud_clients, ud_updated,
                 tree, ri, disposed, msg, Locals, rm_ud>>

-----------------------------------------------------------------------------
(* State::remove_connection(c) and UrlData::remove_connection             *)

RmGoto(c, l) == rm' = [rm EXCEPT ![c] = l]

\* connection_map.remove(session_id); client_count.fetch_sub(1)
RemoveTake(c) ==
  /\ rm[c] = "rm_take"
  /\ registered' = registered \ {c}
  /\ RmGoto(c, IF c \in registered THEN "rm_dispose" ELSE "done")
  /\ UNCHANGED <<left_at, now, life, url_data, ud_count, ud_clients, ud_updated, tree,
                 ri, disposed, msg, Locals, rm_ud>>

\* cd.dispose(): the data channel's on_message becomes a no-op
RemoveDispose(c) ==
  /\ rm[c] = "rm_dispose"
  /\ disposed' = [disposed EXCEPT ![c] = TRUE]
  /\ RmGoto(c, "rm_get")
  /\ UNCHANGED <<left_at, now, life, registered, url_data, ud_count, ud_clients,
                 ud_updated, tree, ri, msg, Locals, rm_ud>>

\* url_data_map.get(&cd.url)
RemoveGetUrlData(c) ==
  /\ rm[c] = "rm_get"
  /\ rm_ud' = [rm_ud EXCEPT ![c] = url_data]
  /\ RmGoto(c, IF url_data = None THEN "rm_if_empty" ELSE "rm_sub")
  /\ UNCHANGED <<left_at, now, life, registered, url_data, ud_count, ud_clients,
                 ud_updated, tree, ri, disposed, msg, Locals>>

\* ud.client_count.fetch_sub(1)
RemoveSub(c) ==
  /\ rm[c] = "rm_sub"
  /\ ud_count' = [ud_count EXCEPT ![rm_ud[c]] = @ - 1]
  /\ RmGoto(c, "rm_retain")
  /\ UNCHANGED <<left_at, now, life, registered, url_data, ud_clients, ud_updated,
                 tree, ri, disposed, msg, Locals, rm_ud>>

\* mutant: the removed session is left in clients
RemoveRetainKeepsClient(c) ==
  /\ rm[c] = "rm_retain"
  /\ left_at' = [left_at EXCEPT ![c] = now]
  /\ RmGoto(c, "rm_prune")
  /\ UNCHANGED <<now, life, registered, url_data, ud_count, ud_clients,
                 ud_updated, tree, ri, disposed, msg, Locals, rm_ud>>

\* clients.retain(|v| v.session_id != session_id)
RemoveRetain(c) ==
  LET Other(x) == x # c IN
  /\ rm[c] = "rm_retain"
  /\ ud_clients' = [ud_clients EXCEPT ![rm_ud[c]] = SelectSeq(@, Other)]
  /\ left_at' = [left_at EXCEPT ![c] = now]
  /\ RmGoto(c, "rm_prune")
  /\ UNCHANGED <<now, life, registered, url_data, ud_count, ud_updated,
                 tree, ri, disposed, msg, Locals, rm_ud>>

\* under routing_info.write(): clone the tree, drop the infos of the
\* session, store the clone
RemovePrune(c) ==
  /\ rm[c] = "rm_prune"
  /\ tree' = [tree EXCEPT ![rm_ud[c]] = {i \in @ : i.sid # c}]
  /\ RmGoto(c, "rm_if_empty")
  /\ UNCHANGED <<left_at, now, life, registered, url_data, ud_count, ud_clients,
                 ud_updated, ri, disposed, msg, Locals, rm_ud>>

\* url_data_map.remove_if(&cd.url, |_, ud| ud.is_empty())
RemoveIfEmpty(c) ==
  /\ rm[c] = "rm_if_empty"
  /\ url_data' = IF url_data # None /\ ud_count[url_data] = 0
                   THEN None ELSE url_data
  /\ RmGoto(c, "done")
  /\ UNCHANGED <<left_at, now, life, registered, ud_count, ud_clients, ud_updated,
                 tree, ri, disposed, msg, Locals, rm_ud>>

-----------------------------------------------------------------------------
(* The data-channel message handler running exchange_routeing_info        *)

MsgGoto(c, l) == msg' = [msg EXCEPT ![c] = l]

\* on_message upgrades cd and dispatches the RPC; cd.set_routing_info(req)
ExchangeArrive(c) ==
  /\ msg[c] = "idle"
  /\ life[c] = "in"
  /\ ~disposed[c]
  /\ ri[c] < MaxPublish
  /\ ri' = [ri EXCEPT ![c] = @ + 1]
  /\ MsgGoto(c, "get_ud")
  /\ UNCHANGED <<left_at, now, life, registered, url_data, ud_count, ud_clients,
                 ud_updated, tree, disposed, Locals, rm, rm_ud>>

\* state.get_url_data(&cd.url), or unreachable!("url data not found")
ExchangeGetUrlData(c) ==
  /\ msg[c] = "get_ud"
  /\ m_ud' = [m_ud EXCEPT ![c] = url_data]
  /\ MsgGoto(c, IF url_data = None THEN "panicked" ELSE "load")
  /\ UNCHANGED <<left_at, now, life, registered, url_data, ud_count, ud_clients,
                 ud_updated, tree, ri, disposed, m_now, m_loaded,
                 m_snap, rm, rm_ud>>

\* update_routing_info_if_needed: read the clock and routing_info_updated;
\* return while the last refresh is younger than the interval
RefreshLoad(c) ==
  LET d == m_ud[c] IN
  /\ msg[c] = "load"
  /\ m_now' = [m_now EXCEPT ![c] = now]
  /\ m_loaded' = [m_loaded EXCEPT ![c] = ud_updated[d]]
  /\ MsgGoto(c, IF now - ud_updated[d] < Interval THEN "read" ELSE "cas")
  /\ UNCHANGED <<left_at, now, life, registered, url_data, ud_count, ud_clients,
                 ud_updated, tree, ri, disposed, m_ud, m_snap,
                 rm, rm_ud>>

\* mutant: the refresh slot is claimed by a plain store
RefreshClaimByStore(c) ==
  /\ msg[c] = "cas"
  /\ ud_updated' = [ud_updated EXCEPT ![m_ud[c]] = m_now[c]]
  /\ MsgGoto(c, "snapshot")
  /\ UNCHANGED <<left_at, now, life, registered, url_data, ud_count, ud_clients, tree,
                 ri, disposed, Locals, rm, rm_ud>>

\* compare_exchange(routing_info_updated, now); the loser returns
RefreshClaim(c) ==
  LET d == m_ud[c] IN
  /\ msg[c] = "cas"
  /\ IF ud_updated[d] = m_loaded[c]
       THEN /\ ud_updated' = [ud_updated EXCEPT ![d] = m_now[c]]
            /\ MsgGoto(c, "snapshot")
       ELSE /\ MsgGoto(c, "read")
            /\ UNCHANGED ud_updated
  /\ UNCHANGED <<left_at, now, life, registered, url_data, ud_count, ud_clients, tree,
                 ri, disposed, Locals, rm, rm_ud>>

\* update_routing_info: clone clients under its lock, then collect the
\* published routing info of the first ROUTING_INFO_MAX of them
RefreshSnapshot(c) ==
  LET cl == ud_clients[m_ud[c]]
      first == ToSet(SubSeq(cl, 1, IF Len(cl) < RoutingInfoMax
                                     THEN Len(cl) ELSE RoutingInfoMax))
  IN
  /\ msg[c] = "snapshot"
  /\ m_snap' = [m_snap EXCEPT ![c] =
                  {[sid |-> x, ver |-> ri[x]] : x \in {y \in first : ri[y] > 0}}]
  /\ MsgGoto(c, "write")
  /\ UNCHANGED <<left_at, now, life, registered, url_data, ud_count, ud_clients,
                 ud_updated, tree, ri, disposed, m_ud, m_now,
                 m_loaded, rm, rm_ud>>

\* *routing_info.write() = Tracker tree over the collected infos
RefreshWrite(c) ==
  /\ msg[c] = "write"
  /\ tree' = [tree EXCEPT ![m_ud[c]] = m_snap[c]]
  /\ MsgGoto(c, "read")
  /\ UNCHANGED <<left_at, now, life, registered, url_data, ud_count, ud_clients,
                 ud_updated, ri, disposed, Locals, rm, rm_ud>>

\* ud.get_routing_info(), sampled down to max_routing_results, and sent
\* back over the data channel
ExchangeRespond(c) ==
  /\ msg[c] = "read"
  /\ MsgGoto(c, "idle")
  /\ m_ud' = [m_ud EXCEPT ![c] = None]
  /\ m_now' = [m_now EXCEPT ![c] = 0]
  /\ m_loaded' = [m_loaded EXCEPT ![c] = 0]
  /\ m_snap' = [m_snap EXCEPT ![c] = {}]
  /\ UNCHANGED <<left_at, now, life, registered, url_data, ud_count, ud_clients,
                 ud_updated, tree, ri, disposed, rm, rm_ud>>

\* Time passes.  exchange_routeing_info is synchronous from
\* set_routing_info to the sampled response (no await) and clones short
\* vectors, so no run of it spans a clock tick.
Tick ==
  /\ now < MaxTime
  /\ \A c \in Conns : msg[c] \in {"idle", "panicked"}
  /\ now' = now + 1
  /\ UNCHANGED <<left_at, life, registered, url_data, ud_count, ud_clients, ud_updated,
                 tree, ri, disposed, msg, Locals, rm, rm_ud>>

-----------------------------------------------------------------------------
Init ==
  /\ now = StartTime
  /\ life = [c \in Conns |-> "out"]
  /\ registered = {}
  /\ url_data = None
  /\ ud_count = [d \in Conns |-> 0]
  /\ ud_clients = [d \in Conns |-> <<>>]
  /\ ud_updated = [d \in Conns |-> 0]
  /\ tree = [d \in Conns |-> {}]
  /\ ri = [c \in Conns |-> 0]
  /\ disposed = [c \in Conns |-> FALSE]
  /\ msg = [c \in Conns |-> "idle"]
  /\ m_ud = [c \in Conns |-> None]
  /\ m_now = [c \in Conns |-> 0]
  /\ m_loaded = [c \in Conns |-> 0]
  /\ m_snap = [c \in Conns |-> {}]
  /\ rm = [c \in Conns |-> "idle"]
  /\ rm_ud = [c \in Conns |-> None]
  /\ left_at = [c \in Conns |-> None]

RemoveStep(c) ==
  \/ RemoveTake(c) \/ RemoveDispose(c) \/ RemoveGetUrlData(c)
  \/ RemoveSub(c) \/ RemoveRetain(c) \/ RemovePrune(c) \/ RemoveIfEmpty(c)

HandlerStep(c) ==
  \/ ExchangeGetUrlData(c) \/ RefreshLoad(c) \/ RefreshClaim(c)
  \/ RefreshSnapshot(c) \/ RefreshWrite(c) \/ ExchangeRespond(c)

\* no handler or removal is running
Finished ==
  \A c \in Conns : msg[c] \in {"idle", "panicked"} /\ rm[c] \in {"idle", "done"}

Next ==
  \/ \E c \in Conns :
       \/ Join(c) \/ Disconnect(c) \/ ExchangeArrive(c)
       \/ RemoveStep(c) \/ HandlerStep(c)
  \/ Tick
  \/ Finished /\ UNCHANGED vars

Spec == Init /\ [][Next]_vars

-----------------------------------------------------------------------------
(* Properties                                                              *)

TypeOK ==
  /\ now \in StartTime..MaxTime
  /\ life \in [Conns -> {"out", "in", "gone"}]
  /\ registered \subseteq Conns
  /\ url_data \in Conns \cup {None}
  /\ ud_count \in [Conns -> 0..Cardinality(Conns)]
  /\ ud_clients \in [Conns -> Seq(Conns)]
  /\ ud_updated \in [Conns -> 0..MaxTime]
  /\ tree \in [Conns -> SUBSET Info]
  /\ ri \in [Conns -> 0..MaxPublish]
  /\ disposed \in [Conns -> BOOLEAN]
  /\ msg \in [Conns -> {"idle", "get_ud", "load", "cas", "snapshot",
                        "write", "read", "panicked"}]
  /\ m_ud \in [Conns -> Conns \cup {None}]
  /\ m_snap \in [Conns -> SUBSET Info]
  /\ rm \in [Conns -> {"idle", "rm_take", "rm_dispose", "rm_get", "rm_sub",
                       "rm_retain", "rm_prune", "rm_if_empty", "done"}]
  /\ rm_ud \in [Conns -> Conns \cup {None}]
  /\ left_at \in [Conns -> StartTime..MaxTime \cup {None}]

\* Spec 8.4, first half: the compare-and-swap on routing_info_updated lets
\* at most one exchange_routeing_info handler at a time rebuild the
\* cached tree of a UrlData (update_routing_info never overlaps itself).
RefreshExclusive ==
  \A d \in Conns :
    Cardinality({c \in Conns : msg[c] \in {"snapshot", "write"}
                                /\ m_ud[c] = d}) <= 1

\* Spec 4.5 (remove_client prunes the cached tree): once no removal or
\* refresh is running, the cached tree of the mapped UrlData lists only
\* the routing infos of sessions that are still its members.
TreeListsMembersOnly ==
  LET Idle == \A c \in Conns : /\ rm[c] \in {"idle", "done"}
                               /\ msg[c] \notin {"snapshot", "write"}
  IN
  (Idle /\ url_data # None) =>
    \A i \in tree[url_data] : i.sid \in ToSet(ud_clients[url_data])

\* Spec 4.5 (remove_client prunes the cached tree) as far as the code
\* keeps it: update_routing_info may write a snapshot of the clients taken
\* before a removal over that removal's prune, but only the refresh that
\* claimed no later than the session's clients.retain can do so.  Once no
\* refresh or removal runs, every departed session the tree of the mapped
\* UrlData lists left at or after that tree's refresh, so the next
\* refresh, one interval later, drops it.
StaleEntriesPredateRefresh ==
  LET Idle == \A c \in Conns : /\ rm[c] \in {"idle", "done"}
                               /\ msg[c] \notin {"snapshot", "write"}
  IN
  (Idle /\ url_data # None) =>
    \A i \in tree[url_data] :
      left_at[i.sid] # None => left_at[i.sid] >= ud_updated[url_data]

\* swarm.rs: exchange_routeing_info asserts with unreachable! that the
\* UrlData of the calling session's url exists.
UrlDataFoundForLiveHandler ==
  \A c \in Conns : msg[c] # "panicked"

=============================================================================
