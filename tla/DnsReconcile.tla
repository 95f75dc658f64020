---------------------------- MODULE DnsReconcile ----------------------------
(***************************************************************************)
(* The cluster manager's reconciliation cycle, Manager::update in          *)
(* cluster/src/manager.rs, run by each GET /update-cluster-<key>           *)
(* (update_cluster in hubserv/src/api_server.rs):                          *)
(*                                                                         *)
(*   get_nodes            running EC2 instances of the role and stage      *)
(*   update_cluster_json  upload the node list to S3                       *)
(*   update_dns           read the zone's A-records, split_records them    *)
(*                        into the cluster group and the single-host       *)
(*                        group, and for each group diff_records against  *)
(*                        the instances' ips: delete, then add            *)
(*                                                                         *)
(* Every cloud call may fail; the `?` ends the cycle there.  Nodes are     *)
(* identified by their public ip; get_node_host / get_node_prefix map an   *)
(* ip to its host name one to one, so the published list is a set of ips. *)
(* Record names are the strings the code compares: the cluster host P.B,   *)
(* the single-host names P-<node id>.B that get_node_prefix builds, and    *)
(* whatever else the zone holds.  A node id is the 16 hex digits of a     *)
(* Shake256 hash, given here as a constant per ip.                        *)
(***************************************************************************)
EXTENDS Integers, Sequences, FiniteSetsExt

CONSTANTS
  Ips,              \* public ips of the instances that may run
  Cycles,           \* concurrent callers of /update-cluster
  InitDns,          \* the zone's A-records before the first cycle
  MaxTriggers,      \* bound on the cycles started
  MaxFleetChanges,  \* bound on instances started or stopped
  MaxFailures,      \* bound on failing cloud calls
  ClusterHost,      \* the manager's cluster_host (http_host)
  NodeId            \* NodeId[ip]: get_node_id(ip)

NODE_ID_LEN == 16

ASSUME NodeId \in [Ips -> STRING]
ASSUME \A i \in Ips : Len(NodeId[i]) = NODE_ID_LEN

-----------------------------------------------------------------------------
(* Host names (func.rs)                                                    *)

Dots(host) == {j \in 1..Len(host) : SubSeq(host, j, j) = "."}

\* split_host: splitn(2, '.'); a host whose rest holds no further dot is
\* all base domain
SplitHost(host) ==
  IF Dots(host) = {} THEN <<"", host>>
  ELSE LET j == Min(Dots(host))
           rest == SubSeq(host, j + 1, Len(host))
       IN  IF Dots(rest) # {} THEN <<SubSeq(host, 1, j - 1), rest>>
           ELSE <<"", host>>

Prefix == SplitHost(ClusterHost)[1]
BaseDomain == SplitHost(ClusterHost)[2]

\* Cloudflare creates a record with a relative name in the zone of the
\* base domain; a cluster host without a prefix would name the apex with
\* "", which this model leaves out
ASSUME Prefix # ""

\* get_node_prefix
GetNodePrefix(ip) ==
  IF Prefix = "" THEN NodeId[ip] ELSE Prefix \o "-" \o NodeId[ip]

\* get_node_host: the name of ip's single-host record
NodeHost == [ip \in Ips |-> GetNodePrefix(ip) \o "." \o BaseDomain]
GetNodeHost(ip) == NodeHost[ip]

StartsWith(s, t) == Len(t) <= Len(s) /\ SubSeq(s, 1, Len(t)) = t
EndsWith(s, t) == Len(t) <= Len(s) /\ SubSeq(s, Len(s) - Len(t) + 1, Len(s)) = t

Record == [id: Nat, name: STRING, ip: Ips]

\* the zone may also hold records of instances terminated before the run
ASSUME \A r \in InitDns : r.id \in Nat /\ r.name \in STRING

VARIABLES
  running,        \* public ips of the running instances
  dns,            \* the zone's A-records
  next_id,        \* id Cloudflare gives the next created record
  published,      \* node list in S3, as the set of its nodes' ips
  pc,             \* step of each cycle
  nodes,          \* the ips get_nodes returned to the cycle
  todo,           \* record changes the cycle has still to make
  last_ok,        \* the cycle's last run returned Ok
  fresh,          \* no instance started or stopped since its get_nodes
  triggers, fleet_changes, failures

vars == <<running, dns, next_id, published, pc, nodes, todo, last_ok,
          fresh, triggers, fleet_changes, failures>>

-----------------------------------------------------------------------------
(* split_records and diff_records                                          *)

\* mutant: the single-host group matched by prefix and suffix only
IsSingleNoLength(name) ==
  StartsWith(name, Prefix \o "-") /\ EndsWith(name, "." \o BaseDomain)

\* split_records: the cluster group is the records named cluster_host
IsCluster(name) == name = ClusterHost

\* split_records: a single-host name has the length of P-<node id>.B,
\* starts with "P-" and ends with ".B" (no "P-" test without a prefix)
IsSingle(name) ==
  LET suffix == "." \o BaseDomain
      pre == IF Prefix = "" THEN "" ELSE Prefix \o "-"
  IN  /\ Len(name) = NODE_ID_LEN + Len(pre) + Len(suffix)
      /\ StartsWith(name, pre)
      /\ EndsWith(name, suffix)

IpsOf(recs) == {r.ip : r \in recs}

\* mutant: the records are tested against their own ip set
DiffDelsAgainstPrev(records, current) ==
  {r \in records : r.ip \notin IpsOf(records)}

\* diff_records: adds are the current ips no record has, dels the
\* records whose ip is not current
DiffAdds(records, current) == {v \in current : v \notin IpsOf(records)}
DiffDels(records, current) == {r \in records : r.ip \notin current}

\* The record changes update_dns makes, numbered in the order of its
\* four loops: cluster deletes, cluster adds, single deletes, single adds
Plan(records, current) ==
  LET cl == {r \in records : IsCluster(r.name)}
      si == {r \in records : IsSingle(r.name)}
  IN  {[ph |-> 1, op |-> "del", id |-> r.id, name |-> r.name, ip |-> r.ip]
         : r \in DiffDels(cl, current)}
      \cup {[ph |-> 2, op |-> "add", id |-> 0, name |-> ClusterHost, ip |-> v]
              : v \in DiffAdds(cl, current)}
      \cup {[ph |-> 3, op |-> "del", id |-> r.id, name |-> r.name, ip |-> r.ip]
              : r \in DiffDels(si, current)}
      \cup {[ph |-> 4, op |-> "add", id |-> 0, name |-> GetNodeHost(v), ip |-> v]
              : v \in DiffAdds(si, current)}

-----------------------------------------------------------------------------
(* The cycle                                                               *)

\* An error of a call: `?` returns it out of update() and the handler
\* answers 500
Abort(k) ==
  /\ pc' = [pc EXCEPT ![k] = "idle"]
  /\ todo' = [todo EXCEPT ![k] = {}]

\* A transient failure of a cloud call (network, throttling, 5xx)
Fail(k) ==
  /\ failures < MaxFailures
  /\ failures' = failures + 1
  /\ Abort(k)

\* GET /update-cluster-<key> calls cluster_manager.update()
Trigger(k) ==
  /\ pc[k] = "idle" /\ triggers < MaxTriggers
  /\ triggers' = triggers + 1
  /\ pc' = [pc EXCEPT ![k] = "get_nodes"]
  /\ last_ok' = [last_ok EXCEPT ![k] = FALSE]
  /\ UNCHANGED <<running, dns, next_id, published, nodes, todo, fresh,
                 fleet_changes, failures>>

\* get_nodes: load_nodes_from_ec2
GetNodes(k) ==
  /\ pc[k] = "get_nodes"
  /\ \/ /\ nodes' = [nodes EXCEPT ![k] = running]
        /\ fresh' = [fresh EXCEPT ![k] = TRUE]
        /\ pc' = [pc EXCEPT ![k] = "upload"]
        /\ UNCHANGED <<todo, failures>>
     \/ Fail(k) /\ UNCHANGED <<nodes, fresh>>
  /\ UNCHANGED <<running, dns, next_id, published, last_ok, triggers,
                 fleet_changes>>

\* update_cluster_json: create_cluster_json and put_object
UploadJson(k) ==
  /\ pc[k] = "upload"
  /\ \/ /\ published' = nodes[k]
        /\ pc' = [pc EXCEPT ![k] = "read"]
        /\ UNCHANGED <<todo, failures>>
     \/ Fail(k) /\ UNCHANGED published
  /\ UNCHANGED <<running, dns, next_id, nodes, last_ok, fresh, triggers,
                 fleet_changes>>

\* update_dns up to the loops: get_zone_id (None bails), get_arecords,
\* split_records, diff_records
ReadRecords(k) ==
  /\ pc[k] = "read"
  /\ \/ /\ todo' = [todo EXCEPT ![k] = Plan(dns, nodes[k])]
        /\ pc' = [pc EXCEPT ![k] = "apply"]
        /\ UNCHANGED failures
     \/ Fail(k)
  /\ UNCHANGED <<running, dns, next_id, published, nodes, last_ok, fresh,
                 triggers, fleet_changes>>

\* The loop's next change: the four loops run one after the other, each
\* in the order Cloudflare listed the records (any order here).
\* delete_arecord by id fails, besides transiently, when the record is
\* gone; add_arecord creates a record with a new id.
ApplyOp(k) ==
  /\ pc[k] = "apply"
  /\ \E o \in todo[k] :
       /\ \A p \in todo[k] : o.ph <= p.ph
       /\ \/ /\ o.op = "del"
             /\ \E r \in dns : r.id = o.id
             /\ dns' = {r \in dns : r.id # o.id}
             /\ UNCHANGED next_id
             /\ todo' = [todo EXCEPT ![k] = @ \ {o}]
             /\ UNCHANGED <<pc, failures>>
          \/ /\ o.op = "add"
             /\ dns' = dns \cup {[id |-> next_id, name |-> o.name, ip |-> o.ip]}
             /\ next_id' = next_id + 1
             /\ todo' = [todo EXCEPT ![k] = @ \ {o}]
             /\ UNCHANGED <<pc, failures>>
          \/ /\ \/ Fail(k)
                \/ /\ o.op = "del" /\ ~\E r \in dns : r.id = o.id
                   /\ Abort(k) /\ UNCHANGED failures
             /\ UNCHANGED <<dns, next_id>>
  /\ UNCHANGED <<running, published, nodes, last_ok, fresh, triggers,
                 fleet_changes>>

\* update() returns Ok and the handler answers {"update": true}
Finish(k) ==
  /\ pc[k] = "apply" /\ todo[k] = {}
  /\ pc' = [pc EXCEPT ![k] = "idle"]
  /\ last_ok' = [last_ok EXCEPT ![k] = TRUE]
  /\ UNCHANGED <<running, dns, next_id, published, nodes, todo, fresh,
                 triggers, fleet_changes, failures>>

\* An instance of the role starts or stops (environment)
FleetChange ==
  /\ fleet_changes < MaxFleetChanges
  /\ \E i \in Ips :
       running' = IF i \in running THEN running \ {i} ELSE running \cup {i}
  /\ fleet_changes' = fleet_changes + 1
  /\ fresh' = [k \in Cycles |-> FALSE]
  /\ UNCHANGED <<dns, next_id, published, pc, nodes, todo, last_ok,
                 triggers, failures>>

-----------------------------------------------------------------------------
Init ==
  /\ running \in SUBSET Ips
  /\ dns = InitDns
  /\ next_id = 1 + Cardinality(InitDns)
  /\ published = {}
  /\ pc = [k \in Cycles |-> "idle"]
  /\ nodes = [k \in Cycles |-> {}]
  /\ todo = [k \in Cycles |-> {}]
  /\ last_ok = [k \in Cycles |-> FALSE]
  /\ fresh = [k \in Cycles |-> FALSE]
  /\ triggers = 0 /\ fleet_changes = 0 /\ failures = 0

Next ==
  \/ FleetChange
  \/ \E k \in Cycles :
       \/ Trigger(k) \/ GetNodes(k) \/ UploadJson(k) \/ ReadRecords(k)
       \/ ApplyOp(k) \/ Finish(k)

Spec == Init /\ [][Next]_vars

-----------------------------------------------------------------------------
(* Properties                                                              *)

\* DNS and the node list describe the running fleet: the cluster host
\* resolves to every running instance and to no other, the host
\* get_node_host gives an instance resolves to it while it runs and to
\* nothing once it stopped, and the published node list names exactly
\* the running instances.
Reconciled ==
  /\ IpsOf({r \in dns : r.name = ClusterHost}) = running
  /\ \A i \in Ips :
       IpsOf({r \in dns : r.name = GetNodeHost(i)}) = IF i \in running THEN {i} ELSE {}
  /\ published = running

\* Spec 4.10: a cycle that returns Ok, with no instance started or stopped
\* since it listed them, leaves DNS and the node list reconciled with
\* the fleet, once no cycle is running; a failed cycle may leave partial
\* state, which the next successful one repairs.
SuccessfulCycleReconciles ==
  ((\A j \in Cycles : pc[j] = "idle") /\ (\E k \in Cycles : last_ok[k] /\ fresh[k]))
    => Reconciled

\* Spec 6, DNS group discrimination: a single-host name has the length of
\* [P "-"] <node id> "." B, and starts with P "-" (given a prefix) and ends
\* with "." B, whichever node, if any, the id is of
NodeHostForm(name) ==
  LET pre == IF Prefix = "" THEN "" ELSE Prefix \o "-"
      suffix == "." \o BaseDomain
  IN  Len(name) = NODE_ID_LEN + Len(pre) + Len(suffix)
        /\ StartsWith(name, pre) /\ EndsWith(name, suffix)

\* the names of the zone outside both groups (a cycle creates records only
\* under the cluster host and get_node_host names, so these are the names
\* of InitDns that are neither)
ForeignNames ==
  {n \in {r.name : r \in InitDns} : n # ClusterHost /\ ~NodeHostForm(n)}

=============================================================================
