--------------------------- MODULE ClusterRouting ---------------------------
(***************************************************************************)
(* Sharding of worlds over hub nodes: the node list the cluster manager    *)
(* publishes (cluster/src/manager.rs update_cluster_json), each node's     *)
(* cached copy of it (cluster/src/client.rs, polled by start_client in     *)
(* hubserv/src/cluster.rs), the owner of a url (hash modulo the list       *)
(* length), redirect_if_needed on /enter, and the drain of a session whose *)
(* url another node now owns (the on_message check in                      *)
(* entrance_server_router.rs).                                             *)
(*                                                                         *)
(* A client enters through the cluster host, which DNS resolves to any     *)
(* node, and follows at most what the node answers: a session, a redirect *)
(* to another node's own host, or a refusal (403).                         *)
(***************************************************************************)
EXTENDS Integers, Sequences, SequencesExt

CONSTANTS
  Nodes,        \* node hosts
  Urls,         \* world urls
  Clients,      \* clients, each holding at most one session
  HashOf,       \* to_hash: Urls -> Nat (DefaultHasher, fixed keys)
  Lists,        \* node lists the manager may publish (EC2 order)
  MaxPublish,   \* bound on the manager's update cycles
  MaxHops,      \* bound on the redirects a client follows in one entry
  None

ASSUME HashOf \in [Urls -> Nat]
ASSUME \A l \in Lists : l \in Seq(Nodes) /\ IsInjective(l)
ASSUME MaxPublish \in Nat /\ MaxHops \in Nat \ {0}

VARIABLES
  published,    \* the node-list JSON in S3
  publishes,    \* update cycles run so far
  node_list,    \* Client.node_list of each node; <<>> stands for None
  url,          \* the url of each client's current entry
  at,           \* the node holding the client's session, or None
  redirect,     \* the node a 307 told the client to go to, or None
  hops          \* redirects followed in the current entry

vars == <<published, publishes, node_list, url, at, redirect, hops>>

-----------------------------------------------------------------------------
(* Client::get_assigned_node, get_worker, is_my_work, can_redirect         *)

\* get_assigned_node: None for a missing or empty list, else
\* ar[to_hash(world_url) % ar.len()] (0-based in Rust)
AssignedNode(n, u) ==
  LET ar == node_list[n] IN
  IF Len(ar) = 0 THEN None ELSE ar[(HashOf[u] % Len(ar)) + 1]

\* get_worker: "Me", "Nothing", or the host of the other node
GetWorker(n, u) ==
  IF AssignedNode(n, u) = None THEN "Nothing"
  ELSE IF AssignedNode(n, u) = n THEN "Me"
  ELSE AssignedNode(n, u)

IsMyWork(n, u) == AssignedNode(n, u) = n

\* mutant: any host may be redirected from
CanRedirectAny(via) == TRUE

\* can_redirect: only a request addressed to the cluster host
CanRedirect(via) == via = "cluster"

-----------------------------------------------------------------------------
(* The cluster manager and the nodes' polling                              *)

\* Manager::update: list the running instances, publish their hosts
Publish ==
  /\ publishes < MaxPublish
  /\ \E l \in Lists : published' = l
  /\ publishes' = publishes + 1
  /\ UNCHANGED <<node_list, url, at, redirect, hops>>

\* mutant: the fetched list is compared without its order
SameNodeListUnordered(a, b) == ToSet(a) = ToSet(b)

\* load_node_list: *exists == data.nodes
SameNodeList(a, b) == a = b

\* mutant: set_node_list appends instead of replacing
SetNodeListAppend(old, new) == old \o new

\* Client::set_node_list
SetNodeList(old, new) == new

\* load_node_list in the polling loop: fetch the JSON; keep the cached
\* list when equal, else set it
Poll(n) ==
  /\ ~SameNodeList(node_list[n], published)
  /\ node_list' = [node_list EXCEPT ![n] = SetNodeList(@, published)]
  /\ UNCHANGED <<published, publishes, url, at, redirect, hops>>

-----------------------------------------------------------------------------
(* /enter through redirect_if_needed                                       *)

\* The /enter handler of node n for url u, asked through host `via` by a
\* client that has followed h redirects in this entry: Me admits the
\* session, Other redirects when can_redirect allows, and everything else
\* is refused
Handle(c, n, u, via, h) ==
  LET w == GetWorker(n, u) IN
  \/ /\ w = "Me"
     /\ at' = [at EXCEPT ![c] = n]
     /\ redirect' = [redirect EXCEPT ![c] = None]
     /\ hops' = [hops EXCEPT ![c] = h]
  \/ /\ w \in Nodes
     /\ CanRedirect(via)
     /\ redirect' = [redirect EXCEPT ![c] = w]
     /\ hops' = [hops EXCEPT ![c] = IF h < MaxHops THEN h + 1 ELSE h]
     /\ UNCHANGED at
  \/ /\ w = "Nothing" \/ (w \in Nodes /\ ~CanRedirect(via))
     /\ redirect' = [redirect EXCEPT ![c] = None]
     /\ hops' = [hops EXCEPT ![c] = h]
     /\ UNCHANGED at

\* A client without a session posts /enter to the cluster host, which
\* DNS resolved to node n
EnterAt(c, n) ==
  /\ at[c] = None /\ redirect[c] = None
  /\ \E u \in Urls :
       /\ url' = [url EXCEPT ![c] = u]
       /\ Handle(c, n, u, "cluster", 0)
  /\ UNCHANGED <<published, publishes, node_list>>

\* DNS may resolve the cluster host to any node
Enter(c) == \E n \in Nodes : EnterAt(c, n)

\* The client follows the 307 to the other node's own host
FollowRedirect(c) ==
  /\ redirect[c] # None
  /\ Handle(c, redirect[c], url[c], "node", hops[c])
  /\ UNCHANGED <<published, publishes, node_list, url>>

\* A message arrives on the session's data channel; when is_my_work is
\* false the node closes dc and pc and calls remove_connection
DrainOnMessage(c) ==
  /\ at[c] # None
  /\ ~IsMyWork(at[c], url[c])
  /\ at' = [at EXCEPT ![c] = None]
  /\ UNCHANGED <<published, publishes, node_list, url, redirect, hops>>

\* The client disconnects; the pc callbacks remove its session
Leave(c) ==
  /\ at[c] # None
  /\ at' = [at EXCEPT ![c] = None]
  /\ UNCHANGED <<published, publishes, node_list, url, redirect, hops>>

-----------------------------------------------------------------------------
Init ==
  /\ published \in Lists
  /\ publishes = 0
  /\ node_list = [n \in Nodes |-> <<>>]
  /\ url \in [Clients -> Urls]
  /\ at = [c \in Clients |-> None]
  /\ redirect = [c \in Clients |-> None]
  /\ hops = [c \in Clients |-> 0]

Next ==
  \/ Publish
  \/ \E n \in Nodes : Poll(n)
  \/ \E c \in Clients :
       Enter(c) \/ FollowRedirect(c) \/ DrainOnMessage(c) \/ Leave(c)

\* The polling loop runs every 60 s for ever; a connected client keeps
\* sending (keep-alive RPCs), so a session's next message comes.
Fairness ==
  /\ \A n \in Nodes : WF_vars(Poll(n))
  /\ \A c \in Clients : WF_vars(DrainOnMessage(c))

Spec == Init /\ [][Next]_vars /\ Fairness

-----------------------------------------------------------------------------
(* Properties                                                              *)

TypeOK ==
  /\ published \in Lists
  /\ publishes \in 0..MaxPublish
  /\ node_list \in [Nodes -> Lists \cup {<<>>}]
  /\ url \in [Clients -> Urls]
  /\ at \in [Clients -> Nodes \cup {None}]
  /\ redirect \in [Clients -> Nodes \cup {None}]
  /\ hops \in [Clients -> 0..MaxHops]

\* redirect_if_needed redirects only requests addressed to the cluster
\* host, so however far apart the nodes' lists are, one entry is
\* redirected at most once and never bounces between nodes.
NoRedirectChain == \A c \in Clients : hops[c] <= 1

\* The owner of url u under the list the manager published
PublishedOwner(u) == published[(HashOf[u] % Len(published)) + 1]

\* Spec S6: once the manager stops changing the node list, every session
\* ends up, and stays, on the node the published list assigns its url to:
\* nodes with a stale list pick up the new one (load_node_list) and the
\* sessions they no longer own are drained on their next message.
WorldsConverge ==
  <>[](\A c \in Clients : at[c] # None => at[c] = PublishedOwner(url[c]))

=============================================================================
