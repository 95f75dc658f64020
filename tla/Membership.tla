----------------------------- MODULE Membership -----------------------------
(***************************************************************************)
(* What the session registry promises about the worlds of a hub node       *)
(* (spec 4.4 and 4.6): each world is a set of members, a member is in at   *)
(* most one world, membership changes one whole join or one whole leave at *)
(* a time, and only a client whose connection has gone down leaves.        *)
(* Registry implements it through many DashMap and counter steps; see      *)
(* ImplementsMembership there.                                             *)
(***************************************************************************)
CONSTANTS
  Members,  \* the clients that may join
  Worlds    \* world urls

VARIABLES
  members,  \* members[w]: the clients currently in world w
  down      \* the clients whose connection has gone down

InSomeWorld(m) == \E w \in Worlds : m \in members[w]

Init ==
  /\ members = [w \in Worlds |-> {}]
  /\ down = {}

\* a live client that is in no world joins one
Join(m, w) ==
  /\ m \notin down
  /\ ~InSomeWorld(m)
  /\ members' = [members EXCEPT ![w] = @ \cup {m}]
  /\ UNCHANGED down

\* a client's connection goes down, for good
GoDown(m) ==
  /\ m \notin down
  /\ down' = down \cup {m}
  /\ UNCHANGED members

\* a member whose connection is down leaves its world
Leave(m, w) ==
  /\ m \in down
  /\ m \in members[w]
  /\ members' = [members EXCEPT ![w] = @ \ {m}]
  /\ UNCHANGED down

Next ==
  \E m \in Members :
    \/ GoDown(m)
    \/ \E w \in Worlds : Join(m, w) \/ Leave(m, w)

Spec == Init /\ [][Next]_<<members, down>>

=============================================================================
