----------------------------- MODULE ClusterMap -----------------------------
(***************************************************************************)
(* Startup in front of a cluster (src/src/cluster.rs): the nodes listed by *)
(* the upstream's CLUSTER SLOTS are given local listeners, the listeners   *)
(* are bound, and from then on the addresses of upstream nodes in MOVED and*)
(* ASK errors and in CLUSTER SHARDS and CLUSTER NODES replies are replaced *)
(* by addresses of listeners (topology_evil.rs, cluster_rewrite.rs).       *)
(*                                                                         *)
(* A local address is modelled by its port; the listeners share one host.  *)
(***************************************************************************)
EXTENDS Naturals, Sequences

CONSTANTS
    Hosts,         \* hosts of upstream nodes
    NoHost,        \* an empty host or "?"
    Bootstrap,     \* the host evilresp was pointed at
    UpstreamPorts, \* ports of upstream nodes
    Ids,           \* node IDs
    NoId,          \* no node ID
    MaxPort,       \* the largest port (65535)
    ListenPorts,   \* ports to --listen on
    Topologies     \* the CLUSTER SLOTS replies: ranges of a primary and replicas

NoLocal == 0       \* no listener; 0 is not a port to listen on

RawNodes == [host : Hosts \cup {NoHost}, port : UpstreamPorts, id : Ids \cup {NoId}]

ASSUME HostsAssumption == Bootstrap \in Hosts /\ NoHost \notin Hosts
ASSUME IdsAssumption == NoId \notin Ids
ASSUME PortsAssumption == MaxPort \in Nat /\ ListenPorts \subseteq 0..MaxPort
ASSUME TopologiesAssumption ==
    /\ Topologies \subseteq Seq(Seq(RawNodes))
    /\ \A t \in Topologies : \A r \in 1..Len(t) : Len(t[r]) > 0

VARIABLES
    listen,              \* the --listen port
    phase,               \* how far startup has come
    slots,               \* the slot ranges: the primary first, then replicas
    r, k,                \* the range and the node in it the loop has come to
    local_by_upstream,   \* what map_cluster_slots keeps, by endpoint,
    local_by_node_id,    \*   by node ID,
    node_id_by_local,    \*   and from listener to node ID
    targets,             \* the upstream of each listener, in order of their ports
    locals,              \* locals[i][j]: the listener of slots[i][j]
    redirections,        \* ClusterRedirectionMap
    bound,               \* the number of listeners that are bound
    told                 \* the last upstream address replaced for a client

maps == <<local_by_upstream, local_by_node_id, node_id_by_local, targets>>
vars == <<listen, phase, slots, r, k, maps, locals, redirections, bound, told>>

Empty == [x \in {} |-> NoLocal]
Put(f, x, v) == [y \in DOMAIN f \cup {x} |-> IF y = x THEN v ELSE f[y]]

Endpoint(n) == <<n.host, n.port>>

NoRedirections == [by_upstream |-> Empty, by_port |-> Empty, by_node_id |-> Empty]
NoAnswer == [server |-> <<NoHost, 0>>, id |-> NoId, local |-> NoLocal]

Init ==
    /\ listen \in ListenPorts
    /\ phase = "probe"
    /\ slots = << >> /\ r = 1 /\ k = 1
    /\ local_by_upstream = Empty /\ local_by_node_id = Empty
    /\ node_id_by_local = Empty /\ targets = << >>
    /\ locals = << >>
    /\ redirections = NoRedirections
    /\ bound = 0
    /\ told = NoAnswer

Goto(p) == phase' = p

-----------------------------------------------------------------------------
(* discover. *)

\* A Unix endpoint, a probe that fails or cannot be parsed, an empty reply: one
\* listener in front of the upstream given.
Standalone ==
    /\ phase = "probe"
    /\ Goto("standalone")
    /\ UNCHANGED <<listen, slots, r, k, maps, locals, redirections, bound, told>>

\* parse_node: an unknown host is the one the probe went to.
ParseNode(n) == IF n.host = NoHost THEN [n EXCEPT !.host = Bootstrap] ELSE n

Parse(t) == [i \in 1..Len(t) |-> [j \in 1..Len(t[i]) |-> ParseNode(t[i][j])]]

Discover(t) ==
    /\ phase = "probe"
    /\ t # << >>
    /\ slots' = Parse(t)
    /\ Goto(IF listen = 0 THEN "failed" ELSE "primaries")
    /\ UNCHANGED <<listen, r, k, maps, locals, redirections, bound, told>>

-----------------------------------------------------------------------------
(* map_cluster_slots: all primaries are registered before any replica. *)

Passes == {"primaries", "replicas", "redirect"}

InPass == phase \in Passes /\ r <= Len(slots) /\ k <= Len(slots[r])

Node == slots[r][k]

ByEndpoint == IF Endpoint(Node) \in DOMAIN local_by_upstream
              THEN local_by_upstream[Endpoint(Node)] ELSE NoLocal
ById == IF Node.id \in DOMAIN local_by_node_id
        THEN local_by_node_id[Node.id] ELSE NoLocal

Known == IF ById # NoLocal THEN ById ELSE ByEndpoint

Registering == phase \in {"primaries", "replicas"} /\ InPass

\* Mutant: the ID alone decides, whatever listener the endpoint has.
IdConflictIgnored ==
    /\ Known \in DOMAIN node_id_by_local /\ Node.id # NoId
    /\ node_id_by_local[Known] # Node.id

\* Mutant: a listener may be claimed by a second node ID.
SecondIdIgnored == ByEndpoint # NoLocal /\ ById # NoLocal /\ ByEndpoint # ById

\* The endpoint has a listener of its own, or the listener another ID.
Conflict ==
    \/ ByEndpoint # NoLocal /\ ById # NoLocal /\ ByEndpoint # ById
    \/ /\ Known \in DOMAIN node_id_by_local /\ Node.id # NoId
       /\ node_id_by_local[Known] # Node.id

\* To the next primary, or the next replica of the same range.
Advance == IF phase = "primaries" THEN r' = r + 1 /\ k' = k
           ELSE r' = r /\ k' = k + 1

\* Mutant: node IDs are not remembered for a listener that exists already.
RememberNewOnly(l) ==
    /\ local_by_upstream' = Put(local_by_upstream, Endpoint(Node), l)
    /\ IF Node.id = NoId \/ l \in {local_by_upstream[e] : e \in DOMAIN local_by_upstream}
       THEN UNCHANGED <<local_by_node_id, node_id_by_local>>
       ELSE /\ local_by_node_id' = Put(local_by_node_id, Node.id, l)
            /\ node_id_by_local' = Put(node_id_by_local, l, Node.id)

Remember(l) ==
    /\ local_by_upstream' = Put(local_by_upstream, Endpoint(Node), l)
    /\ IF Node.id = NoId
       THEN UNCHANGED <<local_by_node_id, node_id_by_local>>
       ELSE /\ local_by_node_id' = Put(local_by_node_id, Node.id, l)
            /\ node_id_by_local' = Put(node_id_by_local, l, Node.id)

RegisterKnown ==
    /\ Registering
    /\ Known # NoLocal /\ ~Conflict
    /\ Remember(Known)
    /\ Advance
    /\ UNCHANGED <<listen, phase, slots, targets, locals, redirections, bound, told>>

NextPort == listen + Len(targets)

RegisterNew ==
    /\ Registering
    /\ Known = NoLocal
    /\ NextPort <= MaxPort
    /\ Remember(NextPort)
    /\ targets' = Append(targets, Endpoint(Node))
    /\ Advance
    /\ UNCHANGED <<listen, phase, slots, locals, redirections, bound, told>>

\* Conflicting identities, or no port left, stop startup.
Reject ==
    /\ Registering
    /\ \/ Known # NoLocal /\ Conflict
       \/ Known = NoLocal /\ NextPort > MaxPort
    /\ Goto("failed")
    /\ UNCHANGED <<listen, slots, r, k, maps, locals, redirections, bound, told>>

\* The first node of a range a pass looks at.
First(p) == IF p = "replicas" THEN 2 ELSE 1

NextRange ==
    /\ phase \in {"replicas", "redirect"}
    /\ r <= Len(slots) /\ k > Len(slots[r])
    /\ r' = r + 1
    /\ k' = First(phase)
    /\ UNCHANGED <<listen, phase, slots, maps, locals, redirections, bound, told>>

NextPass(p, q) ==
    /\ phase = p
    /\ r > Len(slots)
    /\ Goto(q)
    /\ r' = 1
    /\ k' = First(q)
    /\ UNCHANGED <<listen, slots, maps, redirections, bound, told>>

PrimariesDone == NextPass("primaries", "replicas") /\ UNCHANGED locals

\* Mutant: replicas are advertised at the listener of their primary.
ReplicasAtPrimary ==
    /\ NextPass("replicas", "redirect")
    /\ locals' = [i \in 1..Len(slots) |-> [j \in 1..Len(slots[i]) |->
                      local_by_upstream[Endpoint(slots[i][1])]]]

\* The last loop looks the listener of every node up by its endpoint.
ReplicasDone ==
    /\ NextPass("replicas", "redirect")
    /\ locals' = [i \in 1..Len(slots) |-> [j \in 1..Len(slots[i]) |->
                      local_by_upstream[Endpoint(slots[i][j])]]]

-----------------------------------------------------------------------------
(* ClusterRedirectionMap::from_slot_ranges. *)

\* Mutant: a port is taken for unique as soon as its last two nodes agree.
PortEntryForgets(f, port, l) ==
    IF port \in DOMAIN f /\ f[port] # NoLocal /\ f[port] # l THEN NoLocal ELSE l

\* A port of nodes with different listeners is no one's; it stays so.
PortEntry(f, port, l) ==
    IF port \in DOMAIN f /\ f[port] # l THEN NoLocal ELSE l

AddRedirection ==
    /\ phase = "redirect" /\ InPass
    /\ LET l == locals[r][k] IN
       redirections' =
           [by_upstream |-> Put(redirections.by_upstream, Endpoint(Node), l),
            by_port |-> Put(redirections.by_port, Node.port,
                            PortEntry(redirections.by_port, Node.port, l)),
            by_node_id |-> IF Node.id = NoId THEN redirections.by_node_id
                           ELSE Put(redirections.by_node_id, Node.id, l)]
    /\ r' = r /\ k' = k + 1
    /\ UNCHANGED <<listen, phase, slots, maps, locals, bound, told>>

RedirectionsDone == NextPass("redirect", "bind") /\ UNCHANGED locals

-----------------------------------------------------------------------------
(* serve_topology: one listener after the other is bound and accepts clients *)
(* at once; if one cannot be bound the program ends.                         *)

Bind ==
    /\ phase = "bind" /\ bound < Len(targets)
    /\ bound' = bound + 1
    /\ Goto(IF bound + 1 = Len(targets) THEN "serving" ELSE "bind")
    /\ UNCHANGED <<listen, slots, r, k, maps, locals, redirections, told>>

BindFails ==
    /\ phase = "bind" /\ bound < Len(targets)
    /\ Goto("failed")
    /\ UNCHANGED <<listen, slots, r, k, maps, locals, redirections, bound, told>>

-----------------------------------------------------------------------------
(* Replacing addresses of upstream nodes. *)

Lookup(f, x) == IF x \in DOMAIN f THEN f[x] ELSE NoLocal

\* rewrite_server: by endpoint, else by a port that is unique.
RewriteServer(s) == IF Lookup(redirections.by_upstream, s) # NoLocal
                    THEN Lookup(redirections.by_upstream, s)
                    ELSE Lookup(redirections.by_port, s[2])

\* rewrite_node: the node ID goes before the address.
RewriteNode(id, s) == IF Lookup(redirections.by_node_id, id) # NoLocal
                      THEN Lookup(redirections.by_node_id, id)
                      ELSE RewriteServer(s)

Tell(id, s, l) == told' = [server |-> s, id |-> id, local |-> l]

\* The first client can be there when the first listener is bound.
Serving == phase \in {"bind", "serving"} /\ bound > 0

\* MOVED or ASK names a server.  A server without a listener is not passed on:
\* the client gets an error instead (NoLocal).
Redirected(s) ==
    /\ Serving
    /\ Tell(NoId, s, RewriteServer(s))
    /\ UNCHANGED <<listen, phase, slots, r, k, maps, locals, redirections, bound>>

\* CLUSTER SHARDS or CLUSTER NODES lists a node.  A node without a listener is
\* left out (NoLocal).
Listed(id, s) ==
    /\ Serving
    /\ id # NoId
    /\ Tell(id, s, RewriteNode(id, s))
    /\ UNCHANGED <<listen, phase, slots, r, k, maps, locals, redirections, bound>>

-----------------------------------------------------------------------------
Startup ==
    \/ Standalone
    \/ phase = "probe" /\ \E t \in Topologies : Discover(t)
    \/ RegisterKnown \/ RegisterNew \/ Reject
    \/ NextRange \/ PrimariesDone \/ ReplicasDone
    \/ AddRedirection \/ RedirectionsDone
    \/ Bind \/ BindFails

Servers == (Hosts \cup {NoHost}) \X UpstreamPorts

Next ==
    \/ Startup
    \/ \E s \in Servers :
           Redirected(s) \/ \E id \in Ids : Listed(id, s)

Spec == Init /\ [][Next]_vars

-----------------------------------------------------------------------------
(* Properties. *)

TypeOK ==
    /\ listen \in ListenPorts
    /\ phase \in {"probe", "standalone", "primaries", "replicas", "redirect",
                  "bind", "serving", "failed"}
    /\ slots \in Seq(Seq([host : Hosts, port : UpstreamPorts, id : Ids \cup {NoId}]))
    /\ r \in Nat /\ k \in Nat
    /\ DOMAIN local_by_upstream \subseteq Hosts \X UpstreamPorts
    /\ DOMAIN local_by_node_id \subseteq Ids
    /\ DOMAIN node_id_by_local \subseteq 1..MaxPort
    /\ targets \in Seq(Hosts \X UpstreamPorts)
    /\ bound \in 0..Len(targets)
    /\ told.local \in 0..MaxPort

\* The ports of the listeners allocated so far, and the upstream behind one.
Locals == {l \in 1..MaxPort : listen <= l /\ l < NextPort}
Upstream(l) == targets[l - listen + 1]

\* An endpoint is listed with a node ID somewhere in the topology.
ListedAs(e, id) ==
    \E i \in 1..Len(slots) : \E j \in 1..Len(slots[i]) :
        Endpoint(slots[i][j]) = e /\ slots[i][j].id = id

\* The nodes the registering passes have dealt with.
Registered(i, j) ==
    CASE phase = "primaries" -> i < r /\ j = 1
      [] phase = "replicas" -> j = 1 \/ i < r \/ (i = r /\ j < k)
      [] phase \in {"redirect", "bind", "serving"} -> TRUE
      [] OTHER -> FALSE

\* The three maps of map_cluster_slots agree with each other, with the targets
\* and with the nodes registered so far.
MapsConsistent ==
    /\ \A e \in DOMAIN local_by_upstream :
           LET l == local_by_upstream[e] IN
           /\ l \in Locals
           /\ Upstream(l) # e => /\ l \in DOMAIN node_id_by_local
                                 /\ ListedAs(e, node_id_by_local[l])
    /\ \A l \in DOMAIN node_id_by_local :
           /\ l \in Locals
           /\ ListedAs(Upstream(l), node_id_by_local[l])
           /\ node_id_by_local[l] \in DOMAIN local_by_node_id
           /\ local_by_node_id[node_id_by_local[l]] = l
    /\ \A id \in DOMAIN local_by_node_id :
           /\ local_by_node_id[id] \in DOMAIN node_id_by_local
           /\ node_id_by_local[local_by_node_id[id]] = id
    /\ \A i \in 1..Len(slots) : \A j \in 1..Len(slots[i]) :
           Registered(i, j) =>
               /\ Endpoint(slots[i][j]) \in DOMAIN local_by_upstream
               /\ slots[i][j].id # NoId =>
                      /\ slots[i][j].id \in DOMAIN local_by_node_id
                      /\ local_by_node_id[slots[i][j].id]
                             = local_by_upstream[Endpoint(slots[i][j])]

Mapped == locals # << >>

\* README: "Each replica listener forwards to that actual upstream replica".
\* The listener advertised for a node forwards to the node's endpoint, or to
\* one that the topology lists under the same node ID.
SlotsReachNode ==
    Mapped =>
        \A i \in 1..Len(slots) : \A j \in 1..Len(slots[i]) :
            LET e == Endpoint(slots[i][j])
                u == Upstream(locals[i][j])
            IN  /\ locals[i][j] \in Locals
                /\ u # e => \E id \in Ids : ListedAs(u, id) /\ ListedAs(e, id)

\* README: "Repeated nodes across slot ranges share a listener", and nodes with
\* different IDs do not.
OneListenerPerNode ==
    Mapped =>
        \A i, p \in 1..Len(slots) :
            \A j \in 1..Len(slots[i]), q \in 1..Len(slots[p]) :
                LET m == slots[i][j]
                    n == slots[p][q]
                    same == locals[i][j] = locals[p][q]
                IN  /\ Endpoint(m) = Endpoint(n) => same
                    /\ m.id # NoId /\ n.id # NoId => (same <=> m.id = n.id)

\* The addresses clients are given for upstream nodes agree with CLUSTER SLOTS:
\* for a known ID the listener of that node, else for a known endpoint its
\* listener; an address that is not in the topology is replaced only if its
\* port stands for one listener.  No other address ever reaches a client.
RewritesAgreeWithSlots ==
    told # NoAnswer =>
        LET here(i, j) == slots[i][j]
            byId(i, j) == told.id # NoId /\ here(i, j).id = told.id
            byEndpoint(i, j) == Endpoint(here(i, j)) = told.server
            byPort(i, j) == here(i, j).port = told.server[2]
            some(P(_, _)) == \E i \in 1..Len(slots) : \E j \in 1..Len(slots[i]) : P(i, j)
            all(P(_, _)) == \A i \in 1..Len(slots) : \A j \in 1..Len(slots[i]) :
                                P(i, j) => locals[i][j] = told.local
        IN  IF some(byId) THEN all(byId)
            ELSE IF some(byEndpoint) THEN all(byEndpoint)
            ELSE told.local # NoLocal => some(byPort) /\ all(byPort)

\* A registered endpoint or node ID never moves to another listener.
ListenersNeverMove ==
    [][/\ \A e \in DOMAIN local_by_upstream :
              local_by_upstream'[e] = local_by_upstream[e]
       /\ \A id \in DOMAIN local_by_node_id :
              local_by_node_id'[id] = local_by_node_id[id]]_vars
=============================================================================
