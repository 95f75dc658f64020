---------------------------- MODULE ClusterFleet ----------------------------
(***************************************************************************)
(* The cluster as a whole: the manager's reconciliation cycle              *)
(* (DnsReconcile) publishes the node list and the DNS records, and the     *)
(* hub nodes and clients of ClusterRouting live on the instances it        *)
(* lists.  The two meet where the code meets:                              *)
(*                                                                         *)
(*   update_cluster_json  uploads the JSON the nodes' load_node_list polls *)
(*                        (create_cluster_json keeps get_nodes' order)     *)
(*   DNS                  the cluster host resolves through its A-records, *)
(*                        a 307's node host through its single-host record *)
(*   the fleet            a stopped instance takes its sessions with it; a *)
(*                        started one runs a new process (main.rs): its    *)
(*                        own update() first, unwrap()ed, then the first   *)
(*                        node-list loads of start_client, then serving    *)
(*                                                                         *)
(* A node is named by its public ip: get_node_host maps ips to hosts one   *)
(* to one.                                                                 *)
(***************************************************************************)
EXTENDS Integers, Sequences, SequencesExt

CONSTANTS
  Ips, Cycles, InitDns, MaxTriggers, MaxFleetChanges, MaxFailures,
  ClusterHost, NodeId,
  Urls, Clients, HashOf, MaxHops, None,
  StartupCycle,  \* StartupCycle[i]: the update() main runs when i starts
  SerialCycles   \* no cycle starts while another one runs

ASSUME StartupCycle \in [Ips -> Cycles] /\ IsInjective(StartupCycle)
ASSUME SerialCycles \in BOOLEAN

VARIABLES
  running, dns, next_id, pc, nodes, todo, last_ok, fresh,
  triggers, fleet_changes, failures,
  published,    \* the node-list JSON in S3, in get_nodes' order
  node_list, url, at, redirect, hops,
  proc,         \* the process of each instance: "none", "startup",
                \* "loading", "serving" or "dead" (panicked)
  booted        \* history: instances whose process started in this run

dvars == <<running, dns, next_id, pc, nodes, todo, last_ok, fresh,
           triggers, fleet_changes, failures>>
rvars == <<node_list, url, at, redirect, hops>>
pvars == <<proc, booted>>
vars == <<dvars, published, rvars, pvars>>

\* the manager, which sees the JSON as the set of the nodes it lists
D == INSTANCE DnsReconcile WITH published <- ToSet(published)

\* the nodes and clients, on the instances; nothing else publishes
R == INSTANCE ClusterRouting
       WITH Nodes <- Ips, Lists <- SetToAllKPermutations(Ips),
            publishes <- 0, MaxPublish <- 0

-----------------------------------------------------------------------------
(* The manager                                                             *)

\* the cycles GET /update-cluster-<key> runs; the others are start-ups
OperatorCycles == Cycles \ {StartupCycle[i] : i \in Ips}

\* the instances whose process serves HTTP (api_server::start_server)
Serving == {i \in Ips : proc[i] = "serving"}

NoCycleRunning == \A k \in Cycles : pc[k] = "idle"

\* update_cluster, on any node that serves the control API
Trigger(k) ==
  /\ k \in OperatorCycles
  /\ Serving # {}
  /\ SerialCycles => NoCycleRunning
  /\ UNCHANGED <<published, rvars, pvars>>
  /\ D!Trigger(k)

\* Every later step of a cycle but the upload, and the end of a cycle
ManagerStep(k) ==
  /\ UNCHANGED <<published, rvars, pvars>>
  /\ \/ D!GetNodes(k) \/ D!ReadRecords(k) \/ D!ApplyOp(k) \/ D!Finish(k)

\* update_cluster_json: create_cluster_json lists the hosts of the nodes
\* in the order load_nodes_from_ec2 returned them, and put_object stores
\* it whole, or fails
UploadJson(k) ==
  /\ pc[k] = "upload"
  /\ \/ /\ published' \in SetToSeqs(nodes[k])
        /\ pc' = [pc EXCEPT ![k] = "read"]
        /\ UNCHANGED <<todo, failures>>
     \/ D!Fail(k) /\ UNCHANGED published
  /\ UNCHANGED <<running, dns, next_id, nodes, last_ok, fresh, triggers,
                 fleet_changes, rvars, pvars>>

-----------------------------------------------------------------------------
(* The fleet and the processes on it                                       *)

\* mutant: main spawns the start-up update() and serves at once
StartServesAtOnce(i) ==
  /\ i \notin running /\ fleet_changes < MaxFleetChanges
  /\ SerialCycles => NoCycleRunning
  /\ running' = running \cup {i}
  /\ fleet_changes' = fleet_changes + 1
  /\ fresh' = [k \in Cycles |-> FALSE]
  /\ pc' = [pc EXCEPT ![StartupCycle[i]] = "get_nodes"]
  /\ last_ok' = [last_ok EXCEPT ![StartupCycle[i]] = FALSE]
  /\ proc' = [proc EXCEPT ![i] = "loading"]
  /\ booted' = booted \cup {i}
  /\ UNCHANGED <<dns, next_id, nodes, todo, triggers, failures, published,
                 rvars>>

\* An instance of the role is started (environment).  Its process runs
\* main: with cluster_node_host set it builds a Manager and awaits its
\* update() before anything else; its Client will begin with no list.
Start(i) ==
  /\ i \notin running /\ fleet_changes < MaxFleetChanges
  /\ SerialCycles => NoCycleRunning
  /\ running' = running \cup {i}
  /\ fleet_changes' = fleet_changes + 1
  /\ fresh' = [k \in Cycles |-> FALSE]
  /\ pc' = [pc EXCEPT ![StartupCycle[i]] = "get_nodes"]
  /\ last_ok' = [last_ok EXCEPT ![StartupCycle[i]] = FALSE]
  /\ proc' = [proc EXCEPT ![i] = "startup"]
  /\ booted' = booted \cup {i}
  /\ UNCHANGED <<dns, next_id, nodes, todo, triggers, failures, published,
                 rvars>>

\* An instance stops (environment): its process ends wherever it is,
\* its start-up cycle with it, and its sessions are gone
Stop(i) ==
  /\ i \in running /\ fleet_changes < MaxFleetChanges
  /\ running' = running \ {i}
  /\ fleet_changes' = fleet_changes + 1
  /\ fresh' = [k \in Cycles |-> FALSE]
  /\ pc' = [pc EXCEPT ![StartupCycle[i]] = "idle"]
  /\ todo' = [todo EXCEPT ![StartupCycle[i]] = {}]
  /\ proc' = [proc EXCEPT ![i] = "none"]
  /\ booted' = booted \ {i}
  /\ at' = [c \in Clients |-> IF at[c] = i THEN None ELSE at[c]]
  /\ node_list' = [node_list EXCEPT ![i] = <<>>]
  /\ UNCHANGED <<dns, next_id, nodes, last_ok, triggers, failures,
                 published, url, redirect, hops>>

\* cm.update().await.unwrap(): an Err panics and the process is gone,
\* while the instance keeps running; Ok goes on to start_client
StartupReturn(i) ==
  /\ proc[i] = "startup"
  /\ pc[StartupCycle[i]] = "idle"
  /\ proc' = [proc EXCEPT ![i] = IF last_ok[StartupCycle[i]] THEN "loading"
                                                           ELSE "dead"]
  /\ UNCHANGED <<dvars, published, rvars, booted>>

\* start_client: up to five load_node_list tries 3..15 s apart, whose
\* failures are only logged; then the polling loop is spawned and the
\* servers start.  A JSON not uploaded yet fails the fetch.
InitialLoad(i) ==
  /\ proc[i] = "loading"
  /\ proc' = [proc EXCEPT ![i] = "serving"]
  /\ \/ /\ published # <<>>
        /\ node_list' = [node_list EXCEPT ![i] = R!SetNodeList(@, published)]
        /\ UNCHANGED failures
     \/ /\ published = <<>>
        /\ UNCHANGED <<node_list, failures>>
     \/ /\ published # <<>> /\ failures < MaxFailures
        /\ failures' = failures + 1
        /\ UNCHANGED node_list
  /\ UNCHANGED <<running, dns, next_id, pc, nodes, todo, last_ok, fresh,
                 triggers, fleet_changes, published, url, at, redirect, hops,
                 booted>>

-----------------------------------------------------------------------------
(* The nodes and clients                                                   *)

\* get_node_host of every ip (evaluated once, here, rather than on every
\* use through D)
NodeHost == D!NodeHost

\* The ips a name resolves to through the zone's A-records
Resolve(name) == {r.ip : r \in {r \in dns : r.name = name}}

\* the polling loop start_client spawned
Poll(i) ==
  /\ i \in Serving
  /\ R!Poll(i)
  /\ UNCHANGED <<dvars, pvars>>

\* /enter to the cluster host reaches a serving process it resolves to
Enter(c) ==
  /\ \E i \in Resolve(ClusterHost) \cap Serving : R!EnterAt(c, i)
  /\ UNCHANGED <<dvars, pvars>>

\* The client follows a 307 to get_node_host of the node: it reaches the
\* node when that name resolves to it and its process serves; otherwise
\* the request fails and the client has no session
Reachable(c) == redirect[c] \in Resolve(NodeHost[redirect[c]]) \cap Serving

FollowRedirect(c) ==
  /\ redirect[c] # None
  /\ \/ /\ Reachable(c)
        /\ R!FollowRedirect(c)
     \/ /\ ~Reachable(c)
        /\ redirect' = [redirect EXCEPT ![c] = None]
        /\ UNCHANGED <<published, node_list, url, at, hops>>
  /\ UNCHANGED <<dvars, pvars>>

Drain(c) == R!DrainOnMessage(c) /\ UNCHANGED <<dvars, pvars>>

Leave(c) == R!Leave(c) /\ UNCHANGED <<dvars, pvars>>

-----------------------------------------------------------------------------
\* No node list uploaded yet; the zone and the fleet as they are, the
\* running instances' processes serving
Init ==
  /\ published = <<>>
  /\ D!Init
  /\ proc = [i \in Ips |-> IF i \in running THEN "serving" ELSE "none"]
  /\ booted = {}
  /\ node_list = [i \in Ips |-> <<>>]
  /\ url \in [Clients -> Urls]
  /\ at = [c \in Clients |-> None]
  /\ redirect = [c \in Clients |-> None]
  /\ hops = [c \in Clients |-> 0]

Next ==
  \/ \E k \in Cycles : Trigger(k) \/ ManagerStep(k) \/ UploadJson(k)
  \/ \E i \in Ips :
       Start(i) \/ Stop(i) \/ StartupReturn(i) \/ InitialLoad(i) \/ Poll(i)
  \/ \E c \in Clients :
       Enter(c) \/ FollowRedirect(c) \/ Drain(c) \/ Leave(c)

\* A process goes on once its start-up update() has returned, the polling
\* loop of a serving process ticks every 60 s, and a client with a session
\* keeps sending on its data channel.  Nothing obliges anyone to call
\* /update-cluster, and no property needs the cycles' cloud calls to
\* return.
Fairness ==
  /\ \A i \in Ips :
       /\ WF_vars(StartupReturn(i))
       /\ WF_vars(InitialLoad(i))
       /\ WF_vars(Poll(i))
  /\ \A c \in Clients : WF_vars(Drain(c))

Spec == Init /\ [][Next]_vars /\ Fairness

-----------------------------------------------------------------------------
(* Properties                                                              *)

\* redirect_if_needed redirects only requests to the cluster host: one
\* entry is redirected at most once, whatever lists the nodes hold while
\* the fleet and the uploads change under them.
NoRedirectChain == R!NoRedirectChain

\* Spec 4.10: a cycle that returned Ok with the fleet it listed leaves the
\* records and the uploaded node list matching the running instances.
SuccessfulCycleReconciles == D!SuccessfulCycleReconciles

\* the zone's names outside the cluster and single-host groups
ForeignNames == D!ForeignNames

ServingNodesReachable ==
  \A i \in booted \cap Serving :
    /\ i \in ToSet(published)
    /\ Resolve(NodeHost[i]) = {i}
    /\ i \in Resolve(ClusterHost)

\* The owner of url u under the uploaded list (None for an empty one)
PublishedOwner(u) ==
  IF published = <<>> THEN None
  ELSE published[(HashOf[u] % Len(published)) + 1]

\* Spec S6 across the whole cluster: once the fleet and the manager are
\* quiet, every session ends up, and stays, on the running instance the
\* uploaded list assigns its url to: new processes poll the list, stale
\* ones pick it up, and sessions of the wrong node, or of a node missing
\* from the list, are drained on their next message.
WorldsConverge ==
  <>[](\A c \in Clients : at[c] # None => at[c] = PublishedOwner(url[c]))

=============================================================================
