------------------------------ MODULE Registry ------------------------------
(***************************************************************************)
(* The session registry of a hub node (hubserv/src/state.rs) and the        *)
(* membership half of UrlData (state/url_data.rs), driven by concurrent     *)
(* /enter handlers (entrance_server_router.rs) and by the callbacks those   *)
(* handlers install on their peer connections.                             *)
(*                                                                         *)
(* remove_connection and add_connection are synchronous but run on a       *)
(* multi-threaded runtime, so each of their atomic map / counter           *)
(* operations is one step, and steps of different tasks interleave.        *)
(* A task is an /enter handler <<c, "enter">> or the state-change callback *)
(* <<c, "callback">> of the peer connection c created by that handler.     *)
(* A ClientData is identified by its peer connection c; a UrlData by the   *)
(* connection whose add_connection created it.                             *)
(***************************************************************************)
EXTENDS Integers, FiniteSets, SequencesExt

CONSTANTS
  Conns,               \* peer connections, one per /enter request
  Sids,                \* session ids
  Urls,                \* normalized world urls
  RawUrls,             \* urls as clients send them (see NormalizeUrl)
  CandidateSenders,    \* the clients that also POST /candidate
  MaxConnections,      \* State.max_connections
  MaxConnectionsByUrl, \* State.max_connections_by_url
  CounterModulus,      \* wrap-around of the u64 atomics, scaled to TLC ints
  ReuseSessionIds,     \* may two /enter requests carry the same session id
  None

ASSUME MaxConnections \in Nat \ {0} /\ MaxConnectionsByUrl \in Nat \ {0}
ASSUME CounterModulus > MaxConnections + Cardinality(Conns)
ASSUME ReuseSessionIds \in BOOLEAN
ASSUME CandidateSenders \subseteq Conns
ASSUME ReuseSessionIds \/ Cardinality(Sids) >= Cardinality(Conns)

VARIABLES
  client_count,     \* State.client_count
  connection_map,   \* State.connection_map: session id -> ClientData
  url_data_map,     \* State.url_data_map: url -> UrlData
  ud_client_count,  \* UrlData.client_count of each UrlData
  ud_clients,       \* UrlData.clients of each UrlData
  req,              \* session id and url of each /enter request
  pc,               \* program counter of each task
  rm_cd, rm_ud,     \* locals cd and ud of remove_connection, per task
  pc_state,         \* RTCPeerConnection state: "none", "open" or "down"
  down_by,          \* the transition that took it down: "closed" or "failed"
  closing,          \* dispose has spawned the task that closes the pc
  dc_handler,       \* on_data_channel of the pc is the real handler
  dc_opened,        \* the client has opened a data channel on the pc
  dc,               \* ClientData.dc: the pc whose data channel is bound
  cand              \* outcome of the /candidate request of each client

vars == <<client_count, connection_map, url_data_map, ud_client_count,
          ud_clients, req, pc, rm_cd, rm_ud, pc_state, down_by, closing,
          dc_handler, dc_opened, dc, cand>>

Tasks == Conns \X {"enter", "callback"}

SidOf(c) == req[c].sid
UrlOf(c) == req[c].url

\* fetch_add / fetch_sub on an AtomicU64 wrap around
Inc(x) == (x + 1) % CounterModulus
Dec(x) == (x - 1) % CounterModulus

Goto(t, l) == pc' = [pc EXCEPT ![t] = l]

\* Labels of a task that is inside remove_connection or add_connection
MidLabels == {"rm_take", "rm_count", "rm_dispose", "rm_get", "rm_ud",
              "rm_retain", "rm_if_empty", "add_count", "add_insert", "add_world",
              "undo_count", "undo_insert"}

\* Where a task continues once its remove_connection has returned
AfterRemove(t) == IF t[2] = "enter" THEN "add_count" ELSE "finished"

-----------------------------------------------------------------------------
(* /enter, up to the call of remove_connection                             *)

(* Url normalization (types.rs).  A raw url is abstracted to what         *)
(* normalize_url reads of it: whether it is short and free of CR / LF,     *)
(* whether Url::parse accepts it once trimmed, and the scheme, host ("" if *)
(* it has none) and path segments of the parse ("https://h" parses to the  *)
(* path "/", the segments <<"">>).  Query, fragment and surrounding        *)
(* blanks are dropped by construction.  A normalized url keeps the        *)
(* segments that remain once the one trailing '/' is popped; the empty    *)
(* string is the url whose every part is empty.                            *)

EmptyUrl == [scheme |-> "", host |-> "", path |-> <<>>]

\* normalize_url: "" unless it parses with a host; one trailing '/' popped
NormalizeUrl(r) ==
  IF ~r.parses \/ r.host = "" THEN EmptyUrl
  ELSE [scheme |-> r.scheme, host |-> r.host,
        path |-> IF r.path # <<>> /\ Last(r.path) = ""
                   THEN SubSeq(r.path, 1, Len(r.path) - 1) ELSE r.path]

\* EnterRequestPayload / CandidateRequestPayload::normalize: an over-long
\* url or one holding CR or LF becomes "", so that it is rejected
PayloadNormalize(r) == IF r.bad THEN EmptyUrl ELSE NormalizeUrl(r)

\* A request arrives: SignedRequest::verify parses and normalizes its
\* payload; an empty url is answered 400 (payload.url.is_empty())
Arrive(c) ==
  /\ pc[<<c, "enter">>] = "idle"
  /\ \E s \in Sids, r \in RawUrls :
       /\ ReuseSessionIds \/ \A d \in Conns : req[d] # None => req[d].sid # s
       /\ \/ /\ PayloadNormalize(r) # EmptyUrl
             /\ req' = [req EXCEPT ![c] = [sid |-> s, url |-> PayloadNormalize(r)]]
             /\ Goto(<<c, "enter">>, "check")
          \/ /\ PayloadNormalize(r) = EmptyUrl
             /\ Goto(<<c, "enter">>, "bad_request")
             /\ UNCHANGED req
  /\ UNCHANGED <<client_count, connection_map, url_data_map, ud_client_count,
                 ud_clients, rm_cd, rm_ud, pc_state, down_by, closing,
                 dc_handler, dc_opened, dc, cand>>

\* mutant: the global cap test is off by one
GlobalFullOffByOne == MaxConnections < client_count

\* max_connections.unwrap_or(usize::MAX) <= client_count
GlobalFull == MaxConnections <= client_count

\* mutant: the per-url cap test is off by one
UrlFullOffByOne(d) == MaxConnectionsByUrl < ud_client_count[d]

\* max_connections_by_url.unwrap_or(usize::MAX) <= ud.client_count
UrlFull(d) == MaxConnectionsByUrl <= ud_client_count[d]

IsNewConnectionAvailable(u) ==
  /\ ~GlobalFull
  /\ url_data_map[u] # None => ~UrlFull(url_data_map[u])

\* is_new_connection_available, then new_peer_connection and its callbacks
CheckAvailable(c) ==
  /\ pc[<<c, "enter">>] = "check"
  /\ \/ /\ ~IsNewConnectionAvailable(UrlOf(c))
        /\ Goto(<<c, "enter">>, "rejected")
        /\ UNCHANGED pc_state
     \/ /\ IsNewConnectionAvailable(UrlOf(c))
        /\ pc_state' = [pc_state EXCEPT ![c] = "open"]
        /\ Goto(<<c, "enter">>, "setup")
  /\ UNCHANGED <<client_count, connection_map, url_data_map, ud_client_count,
                 ud_clients, req, rm_cd, rm_ud, down_by, closing,
                 dc_handler, dc_opened, dc, cand>>

\* setup_pc under the 5 s timeout; on error or timeout the pc is closed
SetupPc(c) ==
  /\ pc[<<c, "enter">>] = "setup"
  /\ dc_handler' = [dc_handler EXCEPT ![c] = TRUE]
  /\ \/ /\ Goto(<<c, "enter">>, "rm_take")
        /\ UNCHANGED <<pc_state, down_by>>
     \/ /\ pc_state' = [pc_state EXCEPT ![c] = "down"]
        /\ down_by' = [down_by EXCEPT ![c] = "closed"]
        /\ Goto(<<c, "enter">>, "failed")
  /\ UNCHANGED <<client_count, connection_map, url_data_map, ud_client_count,
                 ud_clients, req, rm_cd, rm_ud, closing, dc_opened, dc, cand>>

\* TimeoutLayer (10 s, api_server.rs) drops the enter future at the await
\* it is in.  After the pc exists the awaits are setup_pc (whose first,
\* synchronous, statement installs on_data_channel) and the pc.close()
\* that follows a setup error or timeout; add_connection and
\* remove_connection are synchronous.  The dropped future closes nothing:
\* the pc, with its callbacks, is left as it is.
Abandon(c) ==
  /\ pc[<<c, "enter">>] = "setup"
  /\ dc_handler' = [dc_handler EXCEPT ![c] = TRUE]
  /\ Goto(<<c, "enter">>, "dropped")
  /\ UNCHANGED <<client_count, connection_map, url_data_map, ud_client_count,
                 ud_clients, req, rm_cd, rm_ud, pc_state, down_by, closing,
                 dc_opened, dc, cand>>

-----------------------------------------------------------------------------
(* State::remove_connection(session_id), called by task t                  *)

\* connection_map.remove(session_id)
RemoveTake(t) ==
  LET s == SidOf(t[1]) IN
  /\ pc[t] = "rm_take"
  /\ connection_map' = [connection_map EXCEPT ![s] = None]
  /\ rm_cd' = [rm_cd EXCEPT ![t] = connection_map[s]]
  /\ Goto(t, IF connection_map[s] = None THEN AfterRemove(t) ELSE "rm_count")
  /\ UNCHANGED <<client_count, url_data_map, ud_client_count, ud_clients,
                 req, rm_ud, pc_state, down_by, closing, dc_handler,
                 dc_opened, dc, cand>>

\* client_count.fetch_sub(1)
RemoveCount(t) ==
  /\ pc[t] = "rm_count"
  /\ client_count' = Dec(client_count)
  /\ Goto(t, "rm_dispose")
  /\ UNCHANGED <<connection_map, url_data_map, ud_client_count, ud_clients,
                 req, rm_cd, rm_ud, pc_state, down_by, closing, dc_handler,
                 dc_opened, dc, cand>>

\* cd.dispose(): no-op on_data_channel handler, spawn the close of the pc
RemoveDispose(t) ==
  /\ pc[t] = "rm_dispose"
  /\ closing' = [closing EXCEPT ![rm_cd[t]] = TRUE]
  /\ dc_handler' = [dc_handler EXCEPT ![rm_cd[t]] = FALSE]
  /\ Goto(t, "rm_get")
  /\ UNCHANGED <<client_count, connection_map, url_data_map, ud_client_count,
                 ud_clients, req, rm_cd, rm_ud, pc_state, down_by,
                 dc_opened, dc, cand>>

\* url_data_map.get(&cd.url).map(|v| v.clone())
RemoveGetUrlData(t) ==
  /\ pc[t] = "rm_get"
  /\ rm_ud' = [rm_ud EXCEPT ![t] = url_data_map[UrlOf(rm_cd[t])]]
  /\ Goto(t, "rm_ud")
  /\ UNCHANGED <<client_count, connection_map, url_data_map, ud_client_count,
                 ud_clients, req, rm_cd, pc_state, down_by, closing,
                 dc_handler, dc_opened, dc, cand>>

\* UrlData::remove_connection: client_count.fetch_sub(1)
RemoveFromUrlData(t) ==
  /\ pc[t] = "rm_ud"
  /\ ud_client_count' = IF rm_ud[t] = None THEN ud_client_count
                        ELSE [ud_client_count EXCEPT ![rm_ud[t]] = Dec(@)]
  /\ Goto(t, IF rm_ud[t] = None THEN "rm_if_empty" ELSE "rm_retain")
  /\ UNCHANGED <<client_count, connection_map, url_data_map, ud_clients, req,
                 rm_cd, rm_ud, pc_state, down_by, closing, dc_handler,
                 dc_opened, dc, cand>>

\* UrlData::remove_connection: clients.retain(|v| v.session_id != session_id)
RemoveRetain(t) ==
  /\ pc[t] = "rm_retain"
  /\ ud_clients' = [ud_clients EXCEPT
                     ![rm_ud[t]] = {x \in @ : SidOf(x) # SidOf(t[1])}]
  /\ Goto(t, "rm_if_empty")
  /\ UNCHANGED <<client_count, connection_map, url_data_map, ud_client_count,
                 req, rm_cd, rm_ud, pc_state, down_by, closing, dc_handler,
                 dc_opened, dc, cand>>

\* mutant: the empty UrlData is never taken out of url_data_map
RemoveIfEmptySkipped(t) ==
  /\ pc[t] = "rm_if_empty"
  /\ rm_cd' = [rm_cd EXCEPT ![t] = None]
  /\ rm_ud' = [rm_ud EXCEPT ![t] = None]
  /\ Goto(t, AfterRemove(t))
  /\ UNCHANGED <<client_count, connection_map, url_data_map, ud_client_count,
                 ud_clients, req, pc_state, down_by, closing, dc_handler,
                 dc_opened, dc, cand>>

\* mutant: url_data_map.remove(&cd.url), without the is_empty test
RemoveIfEmptyUnconditional(t) ==
  /\ pc[t] = "rm_if_empty"
  /\ url_data_map' = [url_data_map EXCEPT ![UrlOf(rm_cd[t])] = None]
  /\ rm_cd' = [rm_cd EXCEPT ![t] = None]
  /\ rm_ud' = [rm_ud EXCEPT ![t] = None]
  /\ Goto(t, AfterRemove(t))
  /\ UNCHANGED <<client_count, connection_map, ud_client_count, ud_clients,
                 req, pc_state, down_by, closing, dc_handler, dc_opened, dc, cand>>

\* url_data_map.remove_if(&cd.url, |_, ud| ud.is_empty())
RemoveIfEmpty(t) ==
  LET u == UrlOf(rm_cd[t]) IN
  /\ pc[t] = "rm_if_empty"
  /\ url_data_map' =
       IF url_data_map[u] # None /\ ud_client_count[url_data_map[u]] = 0
         THEN [url_data_map EXCEPT ![u] = None]
         ELSE url_data_map
  /\ rm_cd' = [rm_cd EXCEPT ![t] = None]
  /\ rm_ud' = [rm_ud EXCEPT ![t] = None]
  /\ Goto(t, AfterRemove(t))
  /\ UNCHANGED <<client_count, connection_map, ud_client_count, ud_clients,
                 req, pc_state, down_by, closing, dc_handler, dc_opened, dc, cand>>

-----------------------------------------------------------------------------
(* State::add_connection(cd), called by the /enter handler of c after its  *)
(* remove_connection; a false result closes the pc and answers 503         *)

\* CAS loop on client_count against max_connections
AddCount(c) ==
  /\ pc[<<c, "enter">>] = "add_count"
  /\ \/ /\ GlobalFull
        /\ pc_state' = [pc_state EXCEPT ![c] = "down"]
        /\ down_by' = [down_by EXCEPT ![c] = "closed"]
        /\ Goto(<<c, "enter">>, "failed")
        /\ UNCHANGED client_count
     \/ /\ ~GlobalFull
        /\ client_count' = Inc(client_count)
        /\ Goto(<<c, "enter">>, "add_insert")
        /\ UNCHANGED <<pc_state, down_by>>
  /\ UNCHANGED <<connection_map, url_data_map, ud_client_count, ud_clients,
                 req, rm_cd, rm_ud, closing, dc_handler, dc_opened, dc, cand>>

\* connection_map.insert(cd.session_id, cd)
AddInsert(c) ==
  /\ pc[<<c, "enter">>] = "add_insert"
  /\ connection_map' = [connection_map EXCEPT ![SidOf(c)] = c]
  /\ Goto(<<c, "enter">>, "add_world")
  /\ UNCHANGED <<client_count, url_data_map, ud_client_count, ud_clients,
                 req, rm_cd, rm_ud, pc_state, down_by, closing, dc_handler,
                 dc_opened, dc, cand>>

\* url_data_map.entry(url) under the shard lock: UrlData::add_connection on
\* an occupied entry (CAS against max_connections_by_url, then push), or
\* UrlData::new(cd) inserted into a vacant one
AddToUrlData(c) ==
  LET u == UrlOf(c)
      d == url_data_map[u]
  IN
  /\ pc[<<c, "enter">>] = "add_world"
  /\ \/ /\ d # None
        /\ UrlFull(d)
        /\ Goto(<<c, "enter">>, "undo_count")
        /\ UNCHANGED <<url_data_map, ud_client_count, ud_clients>>
     \/ /\ d # None
        /\ ~UrlFull(d)
        /\ ud_client_count' = [ud_client_count EXCEPT ![d] = Inc(@)]
        /\ ud_clients' = [ud_clients EXCEPT ![d] = @ \cup {c}]
        /\ Goto(<<c, "enter">>, "done")
        /\ UNCHANGED url_data_map
     \/ /\ d = None
        /\ url_data_map' = [url_data_map EXCEPT ![u] = c]
        /\ ud_client_count' = [ud_client_count EXCEPT ![c] = 1]
        /\ ud_clients' = [ud_clients EXCEPT ![c] = {c}]
        /\ Goto(<<c, "enter">>, "done")
  /\ UNCHANGED <<client_count, connection_map, req, rm_cd, rm_ud, pc_state,
                 down_by, closing, dc_handler, dc_opened, dc, cand>>

\* mutant: the rollback forgets to give back the global slot
AddUndoCountNoDec(c) ==
  /\ pc[<<c, "enter">>] = "undo_count"
  /\ Goto(<<c, "enter">>, "undo_insert")
  /\ UNCHANGED <<client_count, connection_map, url_data_map, ud_client_count,
                 ud_clients, req, rm_cd, rm_ud, pc_state, down_by, closing,
                 dc_handler, dc_opened, dc, cand>>

\* rollback: client_count.fetch_sub(1)
AddUndoCount(c) ==
  /\ pc[<<c, "enter">>] = "undo_count"
  /\ client_count' = Dec(client_count)
  /\ Goto(<<c, "enter">>, "undo_insert")
  /\ UNCHANGED <<connection_map, url_data_map, ud_client_count, ud_clients,
                 req, rm_cd, rm_ud, pc_state, down_by, closing, dc_handler,
                 dc_opened, dc, cand>>

\* mutant: the rollback leaves the session in connection_map
AddUndoInsertKeepsSession(c) ==
  /\ pc[<<c, "enter">>] = "undo_insert"
  /\ pc_state' = [pc_state EXCEPT ![c] = "down"]
  /\ down_by' = [down_by EXCEPT ![c] = "closed"]
  /\ Goto(<<c, "enter">>, "failed")
  /\ UNCHANGED <<client_count, connection_map, url_data_map, ud_client_count,
                 ud_clients, req, rm_cd, rm_ud, closing, dc_handler,
                 dc_opened, dc, cand>>

\* rollback: connection_map.remove(&cd.session_id); then enter closes the pc
AddUndoInsert(c) ==
  /\ pc[<<c, "enter">>] = "undo_insert"
  /\ connection_map' = [connection_map EXCEPT ![SidOf(c)] = None]
  /\ pc_state' = [pc_state EXCEPT ![c] = "down"]
  /\ down_by' = [down_by EXCEPT ![c] = "closed"]
  /\ Goto(<<c, "enter">>, "failed")
  /\ UNCHANGED <<client_count, url_data_map, ud_client_count, ud_clients,
                 req, rm_cd, rm_ud, closing, dc_handler, dc_opened, dc, cand>>

-----------------------------------------------------------------------------
(* Peer-connection events                                                  *)

\* mutant: only the Closed state triggers removal
RemovalStatesClosedOnly == {"closed"}

\* Disconnected, Failed ("failed") and Closed ("closed") trigger removal
RemovalStates == {"closed", "failed"}

\* on_ice_connection_state_change / on_peer_connection_state_change: a
\* transition to Disconnected, Failed or Closed calls remove_connection
PcStateCallback(c) ==
  /\ pc[<<c, "callback">>] = "idle"
  /\ pc_state[c] = "down"
  /\ down_by[c] \in RemovalStates
  /\ Goto(<<c, "callback">>, "rm_take")
  /\ UNCHANGED <<client_count, connection_map, url_data_map, ud_client_count,
                 ud_clients, req, rm_cd, rm_ud, pc_state, down_by, closing,
                 dc_handler, dc_opened, dc, cand>>

\* the task spawned by dispose closes the pc
DisposeClose(c) ==
  /\ closing[c]
  /\ pc_state[c] = "open"
  /\ pc_state' = [pc_state EXCEPT ![c] = "down"]
  /\ down_by' = [down_by EXCEPT ![c] = "closed"]
  /\ UNCHANGED <<client_count, connection_map, url_data_map, ud_client_count,
                 ud_clients, req, pc, rm_cd, rm_ud, closing, dc_handler,
                 dc_opened, dc, cand>>

\* the connected client goes away, or the client of a dropped request
\* gives up: ICE Disconnected / Failed
NetworkFailure(c) ==
  /\ pc[<<c, "enter">>] \in {"done", "dropped"}
  /\ pc_state[c] = "open"
  /\ pc_state' = [pc_state EXCEPT ![c] = "down"]
  /\ down_by' = [down_by EXCEPT ![c] = "failed"]
  /\ UNCHANGED <<client_count, connection_map, url_data_map, ud_client_count,
                 ud_clients, req, pc, rm_cd, rm_ud, closing, dc_handler,
                 dc_opened, dc, cand>>

\* the client opens its data channel: on_data_channel looks the session up
\* by id and binds the channel with set_dc (first write wins)
DataChannelOpen(c) ==
  LET x == connection_map[SidOf(c)] IN
  /\ pc[<<c, "enter">>] = "done"
  /\ pc_state[c] = "open"
  /\ ~dc_opened[c]
  /\ dc_opened' = [dc_opened EXCEPT ![c] = TRUE]
  /\ dc' = IF dc_handler[c] /\ x # None /\ dc[x] = None
             THEN [dc EXCEPT ![x] = c]
             ELSE dc
  /\ UNCHANGED <<client_count, connection_map, url_data_map, ud_client_count,
                 ud_clients, req, pc, rm_cd, rm_ud, pc_state, down_by,
                 closing, dc_handler, cand>>

\* get_connection(session_id): the ClientData connection_map holds
CandidateTarget(c) == connection_map[SidOf(c)]

\* POST /candidate, signed with the client's session id, once the client
\* has its session id.  It is refused with 422 on an empty url, with 400
\* when get_connection finds no ClientData, and with 500 when
\* add_ice_candidate fails on the pc of that ClientData, closed by now;
\* otherwise that pc takes the candidate.
Candidate(c) ==
  /\ c \in CandidateSenders
  /\ req[c] # None
  /\ cand[c] = None
  /\ \E r \in RawUrls :
       cand' = [cand EXCEPT ![c] =
                  IF \/ PayloadNormalize(r) = EmptyUrl
                     \/ CandidateTarget(c) = None
                     \/ down_by[CandidateTarget(c)] = "closed"
                  THEN "refused" ELSE CandidateTarget(c)]
  /\ UNCHANGED <<client_count, connection_map, url_data_map, ud_client_count,
                 ud_clients, req, pc, rm_cd, rm_ud, pc_state, down_by,
                 closing, dc_handler, dc_opened, dc>>

-----------------------------------------------------------------------------
Init ==
  /\ client_count = 0
  /\ connection_map = [s \in Sids |-> None]
  /\ url_data_map = [u \in Urls |-> None]
  /\ ud_client_count = [d \in Conns |-> 0]
  /\ ud_clients = [d \in Conns |-> {}]
  /\ req = [c \in Conns |-> None]
  /\ pc = [t \in Tasks |-> "idle"]
  /\ rm_cd = [t \in Tasks |-> None]
  /\ rm_ud = [t \in Tasks |-> None]
  /\ pc_state = [c \in Conns |-> "none"]
  /\ down_by = [c \in Conns |-> None]
  /\ closing = [c \in Conns |-> FALSE]
  /\ dc_handler = [c \in Conns |-> FALSE]
  /\ dc_opened = [c \in Conns |-> FALSE]
  /\ dc = [c \in Conns |-> None]
  /\ cand = [c \in Conns |-> None]

RemoveStep(t) ==
  \/ RemoveTake(t) \/ RemoveCount(t) \/ RemoveDispose(t)
  \/ RemoveGetUrlData(t) \/ RemoveFromUrlData(t) \/ RemoveRetain(t)
  \/ RemoveIfEmpty(t)

EnterStep(c) ==
  \/ CheckAvailable(c) \/ SetupPc(c) \/ RemoveStep(<<c, "enter">>)
  \/ AddCount(c) \/ AddInsert(c) \/ AddToUrlData(c)
  \/ AddUndoCount(c) \/ AddUndoInsert(c)

CallbackStep(c) == PcStateCallback(c) \/ RemoveStep(<<c, "callback">>)

\* every request has been answered and every started callback has returned
Finished ==
  \A c \in Conns :
    /\ pc[<<c, "enter">>] \in {"bad_request", "rejected", "failed", "done",
                               "dropped"}
    /\ pc[<<c, "callback">>] \in {"idle", "finished"}

Next ==
  \/ \E c \in Conns :
       \/ Arrive(c) \/ EnterStep(c) \/ CallbackStep(c)
       \/ DisposeClose(c) \/ NetworkFailure(c) \/ DataChannelOpen(c)
       \/ Candidate(c) \/ Abandon(c)
  \/ Finished /\ UNCHANGED vars

\* The handler, the callbacks the WebRTC layer invokes and the tasks tokio
\* spawns all run; clients arriving, failing or opening channels need not.
Fairness ==
  \A c \in Conns :
    /\ WF_vars(EnterStep(c))
    /\ WF_vars(CallbackStep(c))
    /\ WF_vars(DisposeClose(c))

Spec == Init /\ [][Next]_vars /\ Fairness

-----------------------------------------------------------------------------
(* Properties                                                              *)

Labels == {"idle", "check", "setup", "bad_request", "rejected", "failed", "done",
           "dropped", "finished"} \cup MidLabels

\* The counters stay within the caps the CAS loops of add_connection and
\* UrlData::add_connection enforce (a wrapped fetch_sub would leave them).
TypeOK ==
  /\ client_count \in 0..(CounterModulus - 1)
  /\ connection_map \in [Sids -> Conns \cup {None}]
  /\ url_data_map \in [Urls -> Conns \cup {None}]
  /\ ud_client_count \in [Conns -> 0..(CounterModulus - 1)]
  /\ ud_clients \in [Conns -> SUBSET Conns]
  /\ req \in [Conns -> [sid : Sids, url : Urls] \cup {None}]
  /\ pc \in [Tasks -> Labels]
  /\ rm_cd \in [Tasks -> Conns \cup {None}]
  /\ rm_ud \in [Tasks -> Conns \cup {None}]
  /\ pc_state \in [Conns -> {"none", "open", "down"}]
  /\ down_by \in [Conns -> {"closed", "failed", None}]
  /\ closing \in [Conns -> BOOLEAN]
  /\ dc_handler \in [Conns -> BOOLEAN]
  /\ dc_opened \in [Conns -> BOOLEAN]
  /\ dc \in [Conns -> Conns \cup {None}]
  /\ cand \in [Conns -> Conns \cup {None, "refused"}]

\* no task is half-way through remove_connection or add_connection
Quiescent == \A t \in Tasks : pc[t] \notin MidLabels

LiveSessions == {s \in Sids : connection_map[s] # None}
MappedUrls == {u \in Urls : url_data_map[u] # None}
WorldCount(u) == ud_client_count[url_data_map[u]]

\* Spec 8.1: whenever no add/remove is in flight, client_count equals the
\* number of sessions in connection_map and the sum of the per-url
\* counters, and each UrlData counter equals the length of its clients.
\* About the rollback in add_connection and the decrements of
\* remove_connection racing other tasks.
CountersConsistent ==
  Quiescent =>
    /\ client_count = Cardinality(LiveSessions)
    /\ client_count = MapThenSumSet(WorldCount, MappedUrls)
    /\ \A u \in MappedUrls :
         WorldCount(u) = Cardinality(ud_clients[url_data_map[u]])

\* Spec 8.2: whenever no add/remove is in flight, every UrlData left in
\* url_data_map has a member; remove_if(is_empty) races add_connection.
MappedWorldsHaveMembers ==
  Quiescent => \A u \in MappedUrls : ud_clients[url_data_map[u]] # {}

\* Spec 8.3 and its converse: whenever no add/remove is in flight, the
\* UrlData of every session's url holds that session, and every member of
\* a mapped UrlData is the session connection_map holds for its id.
SessionsAndWorldsAgree ==
  Quiescent =>
    /\ \A s \in LiveSessions :
         LET c == connection_map[s] IN
         /\ url_data_map[UrlOf(c)] # None
         /\ c \in ud_clients[url_data_map[UrlOf(c)]]
    /\ \A u \in MappedUrls : \A x \in ud_clients[url_data_map[u]] :
         /\ connection_map[SidOf(x)] = x
         /\ UrlOf(x) = u

\* Admission control: the compare-and-swap loop of add_connection never
\* lets client_count pass max_connections, and once in-flight adds and
\* removes have settled no world holds more members than
\* max_connections_by_url and the node no more sessions than
\* max_connections.  (Between the fetch_sub and the retain of
\* UrlData::remove_connection a new member may already be pushed.)
MembershipWithinCaps ==
  /\ client_count <= MaxConnections
  /\ Quiescent =>
       /\ \A d \in Conns : Cardinality(ud_clients[d]) <= MaxConnectionsByUrl
       /\ Cardinality(LiveSessions) <= MaxConnections

\* Both callbacks of peer connection c that look a session up by its id
\* act on the ClientData c registered and on no other: the ClientData the
\* state-change callback's remove_connection takes out of connection_map
\* is c's own, never a later session that reuses c's session id, and
\* on_data_channel's get_connection / set_dc binds a data channel only to
\* the ClientData of the pc that channel was opened on.  The /candidate
\* handler's get_connection likewise hands a client's ICE candidate only
\* to the pc of that client's own /enter.
SessionLookupsStayWithOwnPc ==
  [][/\ \A c \in Conns :
          (pc[<<c, "callback">>] = "rm_take" /\ pc'[<<c, "callback">>] # "rm_take")
            => rm_cd'[<<c, "callback">>] \in {None, c}
     /\ \A x \in Conns : dc'[x] # dc[x] => dc'[x] = x
     /\ \A c \in Conns : cand'[c] # cand[c] /\ cand'[c] \in Conns => cand'[c] = c]_vars

\* A peer connection that has gone down (closed, disconnected or failed)
\* eventually no longer backs a session: its callbacks remove it.
DownPcSessionRemoved ==
  \A c \in Conns :
    pc_state[c] = "down" ~> \A s \in Sids : connection_map[s] # c

\* The clients of UrlData d whose remove_connection has decremented d's
\* counter and has yet to retain them out of d's clients
Leaving(d) ==
  {x \in ud_clients[d] :
     \E t \in Tasks : pc[t] = "rm_retain" /\ rm_ud[t] = d /\ SidOf(x) = SidOf(t[1])}

\* A world's members: the clients of its mapped UrlData, a client leaving
\* at the fetch_sub of UrlData::remove_connection
WorldMembers ==
  [u \in Urls |-> IF url_data_map[u] = None THEN {}
                  ELSE ud_clients[url_data_map[u]] \ Leaving(url_data_map[u])]

Abs == INSTANCE Membership WITH Members <- Conns, Worlds <- Urls,
                                members <- WorldMembers,
                                down <- {c \in Conns : pc_state[c] = "down"}

\* The many map and counter steps of concurrent add_connection and
\* remove_connection calls implement the abstract Membership: every step
\* changes the clients of the mapped worlds by at most one whole join or
\* leave, a client is in at most one world, only a client whose pc is down
\* leaves, and no step (the remove_if of an emptied UrlData above all,
\* racing a join) drops a live member.
ImplementsMembership == Abs!Spec

=============================================================================
