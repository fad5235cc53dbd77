-------------------------- MODULE ClusterMap_proofs --------------------------
(***************************************************************************)
(* Listener mapping for every topology.  The maps of map_cluster_slots are *)
(* consistent (MapsConsistent, with the types and the place of the loop it *)
(* needs), and what clients see of them follows once the locals are looked *)
(* up: locals are the entries of local_by_upstream (LocalsLookedUp).       *)
(***************************************************************************)
EXTENDS ClusterMap, TLAPS

ParsedNodes == [host : Hosts, port : UpstreamPorts, id : Ids \cup {NoId}]

\* The part of the types the maps depend on.
MapTypes ==
    /\ listen \in 0..MaxPort
    /\ slots \in Seq(Seq(ParsedNodes))
    /\ r \in Nat \ {0} /\ k \in Nat \ {0}
    /\ phase \in {"primaries", "replicas"} => listen > 0
    /\ phase = "primaries" => k = 1
    /\ targets \in Seq(Hosts \X UpstreamPorts)
    /\ NextPort <= MaxPort + 1
    /\ DOMAIN local_by_node_id \subseteq Ids

\* Where nothing has been registered yet there is nothing in the maps.
NothingBefore ==
    /\ phase = "probe" => /\ local_by_upstream = Empty /\ local_by_node_id = Empty
                          /\ node_id_by_local = Empty /\ targets = << >>
                          /\ r = 1 /\ k = 1
    /\ phase \in {"probe", "standalone", "primaries", "replicas"} => locals = << >>

\* Where locals have been looked up they are the entries of local_by_upstream.
LocalsLookedUp ==
    Mapped =>
        /\ phase \in {"redirect", "bind", "serving", "failed"}
        /\ DOMAIN locals = 1..Len(slots)
        /\ \A i \in 1..Len(slots) : \A j \in 1..Len(slots[i]) :
               /\ Endpoint(slots[i][j]) \in DOMAIN local_by_upstream
               /\ locals[i][j] = local_by_upstream[Endpoint(slots[i][j])]
               /\ slots[i][j].id # NoId =>
                      /\ slots[i][j].id \in DOMAIN local_by_node_id
                      /\ local_by_node_id[slots[i][j].id] = locals[i][j]

IInv == MapTypes /\ NothingBefore /\ MapsConsistent /\ LocalsLookedUp

-----------------------------------------------------------------------------
(* What registering a node knows. *)

\* Listeners are never NoLocal, and a node in hand is a node of the topology.
LEMMA NodeInHand ==
    ASSUME IInv, Registering
    PROVE  /\ Node \in ParsedNodes
           /\ r \in 1..Len(slots) /\ k \in 1..Len(slots[r])
           /\ Endpoint(Node) \in Hosts \X UpstreamPorts
           /\ ListedAs(Endpoint(Node), Node.id)
           /\ NoLocal \notin Locals
           /\ NoId \notin DOMAIN local_by_node_id
<1>1. r \in 1..Len(slots) /\ k \in 1..Len(slots[r])
  BY DEF IInv, MapTypes, Registering, InPass
<1>2. Node \in ParsedNodes
  BY <1>1 DEF IInv, MapTypes, Node
<1>3. ListedAs(Endpoint(Node), Node.id)
  BY <1>1 DEF ListedAs, Node
<1>4. NoLocal \notin Locals /\ NoId \notin DOMAIN local_by_node_id
  BY IdsAssumption DEF IInv, MapTypes, NoLocal, Locals
<1> QED
  BY <1>1, <1>2, <1>3, <1>4 DEF ParsedNodes, Endpoint

\* A known node without conflict: whatever is registered of it names one listener.
LEMMA KnownListener ==
    ASSUME IInv, Registering, Known # NoLocal, ~Conflict
    PROVE  /\ Known \in Locals
           /\ Endpoint(Node) \in DOMAIN local_by_upstream
                  => local_by_upstream[Endpoint(Node)] = Known
           /\ Node.id \in DOMAIN local_by_node_id
                  => local_by_node_id[Node.id] = Known
           /\ Node.id # NoId /\ Known \in DOMAIN node_id_by_local
                  => node_id_by_local[Known] = Node.id
           /\ Endpoint(Node) \notin DOMAIN local_by_upstream
                  => /\ Node.id \in DOMAIN local_by_node_id
                     /\ Known \in DOMAIN node_id_by_local
                     /\ node_id_by_local[Known] = Node.id
<1>1. NoLocal \notin Locals
  BY NodeInHand
<1>2. Endpoint(Node) \in DOMAIN local_by_upstream =>
          /\ local_by_upstream[Endpoint(Node)] \in Locals
          /\ ByEndpoint = local_by_upstream[Endpoint(Node)] /\ ByEndpoint # NoLocal
  BY <1>1 DEF IInv, MapsConsistent, ByEndpoint
<1>3. Node.id \in DOMAIN local_by_node_id =>
          /\ local_by_node_id[Node.id] \in Locals
          /\ local_by_node_id[Node.id] \in DOMAIN node_id_by_local
          /\ node_id_by_local[local_by_node_id[Node.id]] = Node.id
          /\ ById = local_by_node_id[Node.id] /\ ById # NoLocal
  BY <1>1 DEF IInv, MapsConsistent, ById
<1>4. Node.id \notin DOMAIN local_by_node_id => ById = NoLocal
  BY DEF ById
<1>5. Endpoint(Node) \notin DOMAIN local_by_upstream => ByEndpoint = NoLocal
  BY DEF ByEndpoint
<1> QED
  BY <1>2, <1>3, <1>4, <1>5 DEF Known, Conflict

\* An unknown node is in none of the maps, and the next port is unused.
LEMMA NewListener ==
    ASSUME IInv, Registering, Known = NoLocal, NextPort <= MaxPort
    PROVE  /\ Endpoint(Node) \notin DOMAIN local_by_upstream
           /\ Node.id \notin DOMAIN local_by_node_id
           /\ NextPort \notin Locals
           /\ NextPort \notin DOMAIN node_id_by_local
           /\ NextPort \in 1..MaxPort
<1>1. NoLocal \notin Locals
  BY NodeInHand
<1>2. Endpoint(Node) \notin DOMAIN local_by_upstream
  BY <1>1 DEF IInv, MapsConsistent, ByEndpoint, ById, Known
<1>3. Node.id \notin DOMAIN local_by_node_id
  BY <1>1 DEF IInv, MapsConsistent, ById, Known
<1>4. NextPort \notin Locals /\ NextPort \in 1..MaxPort
  BY PortsAssumption DEF IInv, MapTypes, Registering, Locals, NextPort
<1> QED
  BY <1>2, <1>3, <1>4 DEF IInv, MapsConsistent

-----------------------------------------------------------------------------
(* Registering a node keeps the maps consistent. *)

\* After Remember(l) the maps hold what they held, and the node in hand.
LEMMA Remembered ==
    ASSUME NEW l, Remember(l)
    PROVE  /\ DOMAIN local_by_upstream' = DOMAIN local_by_upstream \cup {Endpoint(Node)}
           /\ \A e \in DOMAIN local_by_upstream' :
                  local_by_upstream'[e] = IF e = Endpoint(Node) THEN l
                                          ELSE local_by_upstream[e]
           /\ Node.id = NoId => /\ local_by_node_id' = local_by_node_id
                                /\ node_id_by_local' = node_id_by_local
           /\ Node.id # NoId =>
                  /\ DOMAIN local_by_node_id' = DOMAIN local_by_node_id \cup {Node.id}
                  /\ \A id \in DOMAIN local_by_node_id' :
                         local_by_node_id'[id] = IF id = Node.id THEN l
                                                 ELSE local_by_node_id[id]
                  /\ DOMAIN node_id_by_local' = DOMAIN node_id_by_local \cup {l}
                  /\ \A x \in DOMAIN node_id_by_local' :
                         node_id_by_local'[x] = IF x = l THEN Node.id
                                                ELSE node_id_by_local[x]
  BY DEF Remember, Put

\* The node in hand is the only one that becomes registered.
LEMMA RegisteredNext ==
    ASSUME IInv, Registering, Advance, UNCHANGED <<phase, slots>>,
           NEW i \in 1..Len(slots), NEW j \in 1..Len(slots[i]), Registered(i, j)'
    PROVE  Registered(i, j) \/ slots[i][j] = Node
<1>1. i \in Nat /\ j \in Nat /\ r \in Nat /\ k \in Nat
  BY DEF IInv, MapTypes
<1>2. CASE phase = "primaries"
  BY <1>1, <1>2 DEF Registered, Advance, Node, IInv, MapTypes
<1>3. CASE phase = "replicas"
  BY <1>1, <1>3 DEF Registered, Advance, Node, IInv, MapTypes
<1> QED
  BY <1>2, <1>3 DEF Registering

\* A known node.
LEMMA KnownKeepsMaps ==
    ASSUME IInv, RegisterKnown
    PROVE  MapsConsistent'
<1> DEFINE e == Endpoint(Node)
           id == Node.id
           l == Known
<1>1. Registering /\ Known # NoLocal /\ ~Conflict /\ Remember(l) /\ Advance
      /\ UNCHANGED <<phase, slots, listen, targets>>
  BY DEF RegisterKnown
<1>2. /\ l \in Locals
      /\ e \in DOMAIN local_by_upstream => local_by_upstream[e] = l
      /\ id \in DOMAIN local_by_node_id => local_by_node_id[id] = l
      /\ id # NoId /\ l \in DOMAIN node_id_by_local => node_id_by_local[l] = id
      /\ e \notin DOMAIN local_by_upstream
             => /\ id \in DOMAIN local_by_node_id
                /\ l \in DOMAIN node_id_by_local
                /\ node_id_by_local[l] = id
  BY <1>1, KnownListener
<1>3. ListedAs(e, id) /\ NoId \notin DOMAIN local_by_node_id
  BY <1>1, NodeInHand
<1>4. Locals' = Locals /\ \A x : Upstream(x)' = Upstream(x)
  BY <1>1 DEF Locals, Upstream, NextPort
<1>5. \A x, y : ListedAs(x, y)' <=> ListedAs(x, y)
  BY <1>1 DEF ListedAs
<1>6. /\ DOMAIN local_by_upstream' = DOMAIN local_by_upstream \cup {e}
      /\ local_by_upstream'[e] = l
      /\ \A x \in DOMAIN local_by_upstream : local_by_upstream'[x] = local_by_upstream[x]
  BY <1>1, <1>2, Remembered
<1>7. /\ id # NoId => l \in DOMAIN node_id_by_local' /\ node_id_by_local'[l] = id
      /\ \A x \in DOMAIN node_id_by_local' :
             x \in DOMAIN node_id_by_local \/ (x = l /\ id # NoId)
      /\ \A x \in DOMAIN node_id_by_local :
             x \in DOMAIN node_id_by_local' /\ node_id_by_local'[x] = node_id_by_local[x]
  <2>1. CASE id = NoId
    BY <2>1, <1>1, <1>2, Remembered
  <2>2. CASE id # NoId
    <3>1. node_id_by_local' = Put(node_id_by_local, l, id)
      BY <2>2, <1>1 DEF Remember
    <3>2. l \in DOMAIN node_id_by_local => node_id_by_local[l] = id
      BY <2>2, <1>2
    <3>3. /\ DOMAIN node_id_by_local' = DOMAIN node_id_by_local \cup {l}
          /\ node_id_by_local'[l] = id
          /\ \A y \in DOMAIN node_id_by_local : node_id_by_local'[y] = node_id_by_local[y]
      BY <3>1, <3>2 DEF Put
    <3> HIDE DEF id, l
    <3> QED
      BY <2>2, <3>3
  <2> QED
    BY <2>1, <2>2
<1>8. /\ id # NoId => id \in DOMAIN local_by_node_id' /\ local_by_node_id'[id] = l
      /\ \A x \in DOMAIN local_by_node_id' :
             x \in DOMAIN local_by_node_id \/ (x = id /\ id # NoId)
      /\ \A x \in DOMAIN local_by_node_id :
             x \in DOMAIN local_by_node_id' /\ local_by_node_id'[x] = local_by_node_id[x]
  <2>1. CASE id = NoId
    BY <2>1, <1>1, <1>2, Remembered
  <2>2. CASE id # NoId
    <3>1. local_by_node_id' = Put(local_by_node_id, id, l)
      BY <2>2, <1>1 DEF Remember
    <3>2. id \in DOMAIN local_by_node_id => local_by_node_id[id] = l
      BY <2>2, <1>2
    <3>3. /\ DOMAIN local_by_node_id' = DOMAIN local_by_node_id \cup {id}
          /\ local_by_node_id'[id] = l
          /\ \A y \in DOMAIN local_by_node_id : local_by_node_id'[y] = local_by_node_id[y]
      BY <3>1, <3>2 DEF Put
    <3> HIDE DEF id, l
    <3> QED
      BY <2>2, <3>3
  <2> QED
    BY <2>1, <2>2
<1>9. ASSUME NEW x \in DOMAIN local_by_upstream'
      PROVE  /\ local_by_upstream'[x] \in Locals
             /\ Upstream(local_by_upstream'[x]) # x =>
                    /\ local_by_upstream'[x] \in DOMAIN node_id_by_local'
                    /\ ListedAs(x, node_id_by_local'[local_by_upstream'[x]])
  BY <1>2, <1>3, <1>6, <1>7 DEF IInv, MapsConsistent
<1>10. ASSUME NEW x \in DOMAIN node_id_by_local'
       PROVE  /\ x \in Locals
              /\ ListedAs(Upstream(x), node_id_by_local'[x])
              /\ node_id_by_local'[x] \in DOMAIN local_by_node_id'
              /\ local_by_node_id'[node_id_by_local'[x]] = x
  <2>1. CASE x \in DOMAIN node_id_by_local
    BY <2>1, <1>7, <1>8 DEF IInv, MapsConsistent
  <2>2. CASE x \notin DOMAIN node_id_by_local
    <3>1. x = l /\ id # NoId /\ node_id_by_local'[x] = id
      BY <2>2, <1>7
    <3>2. e \in DOMAIN local_by_upstream /\ local_by_upstream[e] = l
      BY <2>2, <3>1, <1>2
    <3>3. Upstream(l) = e
      BY <2>2, <3>1, <3>2 DEF IInv, MapsConsistent
    <3> QED
      BY <3>1, <3>3, <1>2, <1>3, <1>8
  <2> QED
    BY <2>1, <2>2
<1>11. ASSUME NEW x \in DOMAIN local_by_node_id'
       PROVE  /\ local_by_node_id'[x] \in DOMAIN node_id_by_local'
              /\ node_id_by_local'[local_by_node_id'[x]] = x
  BY <1>7, <1>8 DEF IInv, MapsConsistent
<1>12. ASSUME NEW i \in 1..Len(slots), NEW j \in 1..Len(slots[i]), Registered(i, j)'
       PROVE  /\ Endpoint(slots[i][j]) \in DOMAIN local_by_upstream'
              /\ slots[i][j].id # NoId =>
                     /\ slots[i][j].id \in DOMAIN local_by_node_id'
                     /\ local_by_node_id'[slots[i][j].id]
                            = local_by_upstream'[Endpoint(slots[i][j])]
  <2>1. Registered(i, j) \/ slots[i][j] = Node
    BY <1>1, <1>12, RegisteredNext
  <2>2. CASE Registered(i, j)
    BY <2>2, <1>6, <1>8 DEF IInv, MapsConsistent
  <2>3. CASE slots[i][j] = Node
    BY <2>3, <1>6, <1>8
  <2> QED
    BY <2>1, <2>2, <2>3
<1> QED
  BY <1>1, <1>4, <1>5, <1>9, <1>10, <1>11, <1>12 DEF MapsConsistent, Endpoint

\* A new node.
LEMMA NewKeepsMaps ==
    ASSUME IInv, RegisterNew
    PROVE  MapsConsistent'
<1> DEFINE e == Endpoint(Node)
           id == Node.id
<1>0. PICK l : l = NextPort
  OBVIOUS
<1>1. Registering /\ Known = NoLocal /\ l <= MaxPort /\ Remember(l) /\ Advance
      /\ targets' = Append(targets, e) /\ UNCHANGED <<phase, slots, listen>>
  BY <1>0 DEF RegisterNew
<1>2. /\ e \notin DOMAIN local_by_upstream /\ id \notin DOMAIN local_by_node_id
      /\ l \notin Locals /\ l \notin DOMAIN node_id_by_local /\ l \in 1..MaxPort
  BY <1>0, <1>1, NewListener
<1>3. ListedAs(e, id) /\ e \in Hosts \X UpstreamPorts
  BY <1>1, NodeInHand
<1>4. /\ Locals' = Locals \cup {l} /\ Upstream(l)' = e
      /\ \A x \in Locals : Upstream(x)' = Upstream(x)
  <2>1. /\ targets \in Seq(Hosts \X UpstreamPorts) /\ listen \in Nat
        /\ Len(targets') = Len(targets) + 1 /\ Len(targets) \in Nat
    BY <1>1, <1>3 DEF IInv, MapTypes
  <2>2. Locals' = Locals \cup {l}
    BY <1>0, <1>1, <1>2, <2>1 DEF Locals, NextPort
  <2>3. Upstream(l)' = e
    <3>1. l - listen + 1 = Len(targets) + 1
      BY <1>0, <2>1 DEF NextPort
    <3>2. targets'[Len(targets) + 1] = e
      BY <1>1, <1>3, <2>1
    <3> QED
      BY <1>1, <3>1, <3>2 DEF Upstream
  <2>4. ASSUME NEW x \in Locals PROVE Upstream(x)' = Upstream(x)
    <3>1. x - listen + 1 \in 1..Len(targets)
      BY <2>1 DEF Locals, NextPort
    <3> QED
      BY <1>1, <1>3, <2>1, <3>1 DEF Upstream
  <2> QED
    BY <2>2, <2>3, <2>4
<1>5. \A x, y : ListedAs(x, y)' <=> ListedAs(x, y)
  BY <1>1 DEF ListedAs
<1>6. /\ DOMAIN local_by_upstream' = DOMAIN local_by_upstream \cup {e}
      /\ local_by_upstream'[e] = l
      /\ \A x \in DOMAIN local_by_upstream : local_by_upstream'[x] = local_by_upstream[x]
  BY <1>1, <1>2, Remembered
<1>7. /\ id # NoId => l \in DOMAIN node_id_by_local' /\ node_id_by_local'[l] = id
      /\ \A x \in DOMAIN node_id_by_local' :
             x \in DOMAIN node_id_by_local \/ (x = l /\ id # NoId)
      /\ \A x \in DOMAIN node_id_by_local :
             x \in DOMAIN node_id_by_local' /\ node_id_by_local'[x] = node_id_by_local[x]
  <2>1. CASE id = NoId
    BY <2>1, <1>1, <1>2, Remembered
  <2>2. CASE id # NoId
    <3>1. node_id_by_local' = Put(node_id_by_local, l, id)
      BY <2>2, <1>1 DEF Remember
    <3>2. l \in DOMAIN node_id_by_local => node_id_by_local[l] = id
      BY <2>2, <1>2
    <3>3. /\ DOMAIN node_id_by_local' = DOMAIN node_id_by_local \cup {l}
          /\ node_id_by_local'[l] = id
          /\ \A y \in DOMAIN node_id_by_local : node_id_by_local'[y] = node_id_by_local[y]
      BY <3>1, <3>2 DEF Put
    <3> HIDE DEF id
    <3> QED
      BY <2>2, <3>3
  <2> QED
    BY <2>1, <2>2
<1>8. /\ id # NoId => id \in DOMAIN local_by_node_id' /\ local_by_node_id'[id] = l
      /\ \A x \in DOMAIN local_by_node_id' :
             x \in DOMAIN local_by_node_id \/ (x = id /\ id # NoId)
      /\ \A x \in DOMAIN local_by_node_id :
             x \in DOMAIN local_by_node_id' /\ local_by_node_id'[x] = local_by_node_id[x]
  <2>1. CASE id = NoId
    BY <2>1, <1>1, <1>2, Remembered
  <2>2. CASE id # NoId
    <3>1. local_by_node_id' = Put(local_by_node_id, id, l)
      BY <2>2, <1>1 DEF Remember
    <3>2. id \in DOMAIN local_by_node_id => local_by_node_id[id] = l
      BY <2>2, <1>2
    <3>3. /\ DOMAIN local_by_node_id' = DOMAIN local_by_node_id \cup {id}
          /\ local_by_node_id'[id] = l
          /\ \A y \in DOMAIN local_by_node_id : local_by_node_id'[y] = local_by_node_id[y]
      BY <3>1, <3>2 DEF Put
    <3> HIDE DEF id
    <3> QED
      BY <2>2, <3>3
  <2> QED
    BY <2>1, <2>2
<1>9. ASSUME NEW x \in DOMAIN local_by_upstream', NEW y, y = local_by_upstream'[x]
      PROVE  /\ y \in Locals'
             /\ Upstream(y)' # x => /\ y \in DOMAIN node_id_by_local'
                                    /\ ListedAs(x, node_id_by_local'[y])
  <2>1. CASE x = e
    BY <2>1, <1>4, <1>6, <1>9
  <2>2. CASE x # e
    <3>1. x \in DOMAIN local_by_upstream /\ y = local_by_upstream[x]
      BY <2>2, <1>6, <1>9
    <3>2. y \in Locals
      BY <3>1 DEF IInv, MapsConsistent
    <3> QED
      BY <3>1, <3>2, <1>4, <1>7 DEF IInv, MapsConsistent
  <2> QED
    BY <2>1, <2>2
<1>10. ASSUME NEW x \in DOMAIN node_id_by_local'
       PROVE  /\ x \in Locals'
              /\ ListedAs(Upstream(x)', node_id_by_local'[x])
              /\ node_id_by_local'[x] \in DOMAIN local_by_node_id'
              /\ local_by_node_id'[node_id_by_local'[x]] = x
  <2>1. CASE x \in DOMAIN node_id_by_local
    BY <2>1, <1>4, <1>7, <1>8 DEF IInv, MapsConsistent
  <2>2. CASE x \notin DOMAIN node_id_by_local
    BY <2>2, <1>3, <1>4, <1>7, <1>8
  <2> QED
    BY <2>1, <2>2
<1>11. ASSUME NEW x \in DOMAIN local_by_node_id'
       PROVE  /\ local_by_node_id'[x] \in DOMAIN node_id_by_local'
              /\ node_id_by_local'[local_by_node_id'[x]] = x
  BY <1>7, <1>8 DEF IInv, MapsConsistent
<1>12. ASSUME NEW i \in 1..Len(slots), NEW j \in 1..Len(slots[i]), Registered(i, j)'
       PROVE  /\ Endpoint(slots[i][j]) \in DOMAIN local_by_upstream'
              /\ slots[i][j].id # NoId =>
                     /\ slots[i][j].id \in DOMAIN local_by_node_id'
                     /\ local_by_node_id'[slots[i][j].id]
                            = local_by_upstream'[Endpoint(slots[i][j])]
  <2>1. Registered(i, j) \/ slots[i][j] = Node
    BY <1>1, <1>12, RegisteredNext
  <2>2. CASE Registered(i, j)
    BY <2>2, <1>6, <1>8 DEF IInv, MapsConsistent
  <2>3. CASE slots[i][j] = Node
    BY <2>3, <1>6, <1>8
  <2> QED
    BY <2>1, <2>2, <2>3
<1> QED
  BY <1>1, <1>4, <1>5, <1>9, <1>10, <1>11, <1>12 DEF MapsConsistent, Endpoint

-----------------------------------------------------------------------------
(* The inductive invariant. *)

\* A parsed topology is one of nodes with a host.
LEMMA ParsedTopology ==
    ASSUME NEW t \in Topologies
    PROVE  Parse(t) \in Seq(Seq(ParsedNodes)) /\ Len(Parse(t)) = Len(t)
<1>1. t \in Seq(Seq(RawNodes))
  BY TopologiesAssumption
<1>2. \A n \in RawNodes : ParseNode(n) \in ParsedNodes
  BY HostsAssumption DEF RawNodes, ParsedNodes, ParseNode
<1>3. ASSUME NEW i \in 1..Len(t)
      PROVE  [j \in 1..Len(t[i]) |-> ParseNode(t[i][j])] \in Seq(ParsedNodes)
  <2>1. t[i] \in Seq(RawNodes)
    BY <1>1
  <2>2. \A j \in 1..Len(t[i]) : ParseNode(t[i][j]) \in ParsedNodes
    BY <2>1, <1>2
  <2> QED
    BY <2>1, <2>2
<1> QED
  BY <1>1, <1>3 DEF Parse

\* Before discovery there is nothing to be wrong about.
LEMMA InitIInv == Init => IInv
<1> SUFFICES ASSUME Init PROVE IInv
  OBVIOUS
<1>1. MapTypes
  BY PortsAssumption DEF Init, MapTypes, NextPort, Empty
<1>2. NothingBefore
  BY DEF Init, NothingBefore
<1>3. MapsConsistent
  BY DEF Init, MapsConsistent, Empty
<1>4. LocalsLookedUp
  BY DEF Init, LocalsLookedUp, Mapped
<1> QED
  BY <1>1, <1>2, <1>3, <1>4 DEF IInv

\* The steps that leave the maps and the topology alone keep them consistent as
\* long as no node becomes registered.
LEMMA MapsUntouched ==
    ASSUME IInv, UNCHANGED <<listen, slots, maps>>,
           \A i \in 1..Len(slots) : \A j \in 1..Len(slots[i]) :
               Registered(i, j)' => Registered(i, j)
    PROVE  MapsConsistent'
<1>1. Locals' = Locals /\ \A x : Upstream(x)' = Upstream(x)
  BY DEF Locals, Upstream, NextPort, maps
<1>2. \A x, y : ListedAs(x, y)' <=> ListedAs(x, y)
  BY DEF ListedAs
<1> QED
  BY <1>1, <1>2 DEF IInv, MapsConsistent, maps

\* The steps after the registering passes, and those that end startup.
Settled == {"standalone", "redirect", "bind", "serving", "failed"}

\* A step that leaves the addresses alone and only moves on keeps the invariant.
LEMMA SettledStep ==
    ASSUME IInv, UNCHANGED <<listen, slots, maps, locals>>,
           phase' \in Settled,
           phase' \in {"redirect", "bind", "serving"} => phase \in {"redirect", "bind", "serving"},
           phase' = "standalone" => phase = "probe",
           r' \in Nat \ {0}, k' \in Nat \ {0}
    PROVE  IInv'
<1>1. MapTypes'
  BY DEF IInv, MapTypes, Settled, NextPort, maps
<1>2. NothingBefore'
  BY DEF IInv, NothingBefore, Settled
<1>3. MapsConsistent'
  <2>1. ASSUME NEW i \in 1..Len(slots), NEW j \in 1..Len(slots[i]), Registered(i, j)'
        PROVE  Registered(i, j)
    BY <2>1 DEF Registered, Settled
  <2> QED
    BY <2>1, MapsUntouched
<1>4. LocalsLookedUp'
  <2>1. phase = "probe" => locals = << >>
    BY DEF IInv, NothingBefore
  <2> QED
    BY <2>1 DEF IInv, LocalsLookedUp, Mapped, Settled, maps
<1> QED
  BY <1>1, <1>2, <1>3, <1>4 DEF IInv

\* Every step of discovery and of serving keeps the invariant: one step of the
\* proof per action.
LEMMA NextIInv == IInv /\ [Next]_vars => IInv'
<1> SUFFICES ASSUME IInv, [Next]_vars PROVE IInv'
  OBVIOUS
<1>1. CASE Standalone
  BY <1>1, SettledStep DEF Standalone, Goto, Settled, IInv, MapTypes
<1>2. ASSUME NEW t \in Topologies, Discover(t) PROVE IInv'
  <2>1. /\ local_by_upstream = Empty /\ local_by_node_id = Empty
        /\ node_id_by_local = Empty /\ targets = << >> /\ r = 1 /\ k = 1
        /\ locals = << >>
    BY <1>2 DEF IInv, NothingBefore, Discover
  <2>2. MapTypes'
    BY <1>2, <2>1, ParsedTopology DEF IInv, MapTypes, Discover, Goto, NextPort, maps
  <2>3. NothingBefore'
    BY <1>2, <2>1 DEF NothingBefore, Discover, Goto
  <2>4. MapsConsistent'
    <3>1. ASSUME NEW i \in 1..Len(slots'), NEW j \in 1..Len(slots'[i])
          PROVE  ~Registered(i, j)'
      BY <1>2, <2>1 DEF Registered, Discover, Goto
    <3> QED
      BY <1>2, <2>1, <3>1 DEF MapsConsistent, Empty, Discover, maps
  <2>5. LocalsLookedUp'
    BY <1>2, <2>1 DEF LocalsLookedUp, Mapped, Discover
  <2> QED
    BY <2>2, <2>3, <2>4, <2>5 DEF IInv
<1>3. ASSUME RegisterKnown \/ RegisterNew PROVE IInv'
  <2>1. /\ Registering /\ Advance
        /\ UNCHANGED <<listen, phase, slots, locals>>
    BY <1>3 DEF RegisterKnown, RegisterNew
  <2>2. DOMAIN local_by_node_id' \subseteq Ids
    <3>1. PICK l : Remember(l)
      BY <1>3 DEF RegisterKnown, RegisterNew
    <3> QED
      <4>1. DOMAIN local_by_node_id' \subseteq DOMAIN local_by_node_id \cup ({Node.id} \ {NoId})
        <5>1. CASE Node.id = NoId
          BY <3>1, <5>1 DEF Remember
        <5>2. CASE Node.id # NoId
          BY <3>1, <5>2 DEF Remember, Put
        <5> QED
          BY <5>1, <5>2
      <4>2. Node.id \in Ids \cup {NoId}
        BY <2>1, NodeInHand DEF ParsedNodes
      <4> QED
        BY <4>1, <4>2 DEF IInv, MapTypes
  <2>3. targets' \in Seq(Hosts \X UpstreamPorts) /\ NextPort' <= MaxPort + 1
    <3>1. CASE RegisterKnown
      BY <3>1 DEF RegisterKnown, IInv, MapTypes, NextPort
    <3>2. CASE RegisterNew
      BY <3>2, <2>1, NodeInHand, PortsAssumption DEF RegisterNew, IInv, MapTypes, NextPort
    <3> QED
      BY <1>3, <3>1, <3>2
  <2>4. MapTypes'
    BY <2>1, <2>2, <2>3 DEF IInv, MapTypes, Advance, Registering
  <2>5. NothingBefore'
    BY <2>1 DEF IInv, NothingBefore, Registering
  <2>6. MapsConsistent'
    BY <1>3, KnownKeepsMaps, NewKeepsMaps
  <2>7. LocalsLookedUp'
    BY <2>1 DEF IInv, NothingBefore, LocalsLookedUp, Mapped, Registering
  <2> QED
    BY <2>4, <2>5, <2>6, <2>7 DEF IInv
<1>4. CASE Reject
  BY <1>4, SettledStep DEF Reject, Goto, Settled, IInv, MapTypes
<1>5. CASE NextRange
  <2>1. CASE phase = "redirect"
    BY <1>5, <2>1, SettledStep DEF NextRange, First, Settled, IInv, MapTypes
  <2>2. CASE phase = "replicas"
    <3>1. MapTypes'
      BY <1>5, <2>2 DEF NextRange, First, IInv, MapTypes, NextPort, maps
    <3>2. NothingBefore' /\ LocalsLookedUp'
      BY <1>5, <2>2 DEF NextRange, IInv, NothingBefore, LocalsLookedUp, Mapped
    <3>3. ASSUME NEW i \in 1..Len(slots), NEW j \in 1..Len(slots[i]), Registered(i, j)'
          PROVE  Registered(i, j)
      <4>1. r \in Nat /\ k \in Nat /\ i \in Nat /\ j \in Nat /\ j >= 1
        BY DEF IInv, MapTypes
      <4>2. r' = r + 1 /\ k' = 2 /\ phase' = "replicas" /\ k > Len(slots[r])
        BY <1>5, <2>2 DEF NextRange, First
      <4>3. i = r => j <= Len(slots[r]) /\ Len(slots[r]) \in Nat
        BY DEF IInv, MapTypes
      <4>4. j = 1 \/ i < r + 1
        BY <3>3, <4>1, <4>2 DEF Registered
      <4> QED
        BY <2>2, <4>1, <4>2, <4>3, <4>4 DEF Registered
    <3>4. MapsConsistent'
      BY <1>5, <3>3, MapsUntouched DEF NextRange
    <3> QED
      BY <3>1, <3>2, <3>4 DEF IInv
  <2> QED
    BY <1>5, <2>1, <2>2 DEF NextRange
<1>6. CASE PrimariesDone
  <2> USE <1>6 DEF PrimariesDone, NextPass, Goto, First
  <2>1. MapTypes'
    BY DEF IInv, MapTypes, NextPort, maps
  <2>2. NothingBefore' /\ LocalsLookedUp'
    BY DEF IInv, NothingBefore, LocalsLookedUp, Mapped
  <2>3. ASSUME NEW i \in 1..Len(slots), NEW j \in 1..Len(slots[i]), Registered(i, j)'
        PROVE  Registered(i, j)
    BY <2>3 DEF Registered, IInv, MapTypes
  <2>4. MapsConsistent'
    BY <2>3, MapsUntouched
  <2> QED
    BY <2>1, <2>2, <2>4 DEF IInv
<1>7. CASE ReplicasDone
  <2> USE <1>7 DEF ReplicasDone, NextPass, Goto, First
  <2>1. MapTypes'
    BY DEF IInv, MapTypes, NextPort, maps
  <2>2. NothingBefore'
    BY DEF IInv, NothingBefore
  <2>3. ASSUME NEW i \in 1..Len(slots), NEW j \in 1..Len(slots[i])
        PROVE  Registered(i, j)
    BY <2>3 DEF Registered, IInv, MapTypes
  <2>4. MapsConsistent'
    BY <2>3, MapsUntouched
  <2>5. LocalsLookedUp'
    BY <2>3 DEF IInv, LocalsLookedUp, MapsConsistent, maps
  <2> QED
    BY <2>1, <2>2, <2>4, <2>5 DEF IInv
<1>8. CASE AddRedirection
  BY <1>8, SettledStep DEF AddRedirection, Settled, IInv, MapTypes
<1>9. CASE RedirectionsDone
  BY <1>9, SettledStep DEF RedirectionsDone, NextPass, Goto, First, Settled, IInv, MapTypes
<1>10. CASE Bind \/ BindFails
  BY <1>10, SettledStep DEF Bind, BindFails, Goto, Settled, IInv, MapTypes
<1>11. ASSUME NEW s \in Servers, Redirected(s) \/ \E id \in Ids : Listed(id, s)
       PROVE  IInv'
  BY <1>11, SettledStep DEF Redirected, Listed, Serving, Settled, IInv, MapTypes
<1>12. CASE UNCHANGED vars
  <2>1. \A i, j : Registered(i, j)' <=> Registered(i, j)
    BY <1>12 DEF vars, Registered
  <2>2. MapsConsistent'
    BY <1>12, <2>1, MapsUntouched DEF vars
  <2> QED
    BY <1>12, <2>2 DEF vars, maps, IInv, MapTypes, NothingBefore, LocalsLookedUp,
                       Mapped, NextPort
<1> QED
  BY <1>1, <1>2, <1>3, <1>4, <1>5, <1>6, <1>7, <1>8, <1>9, <1>10, <1>11, <1>12
     DEF Next, Startup

-----------------------------------------------------------------------------
(* What the invariant says of the addresses that clients are given. *)

\* The invariant says where every slot of the map leads.
LEMMA IInvSlotsReachNode == IInv => SlotsReachNode
<1> SUFFICES ASSUME IInv, Mapped,
                    NEW i \in 1..Len(slots), NEW j \in 1..Len(slots[i]),
                    NEW e, e = Endpoint(slots[i][j]), NEW l, l = locals[i][j]
             PROVE  /\ l \in Locals
                    /\ Upstream(l) # e =>
                           \E id \in Ids : ListedAs(Upstream(l), id) /\ ListedAs(e, id)
  BY DEF SlotsReachNode
<1>1. e \in DOMAIN local_by_upstream /\ l = local_by_upstream[e]
  BY DEF IInv, LocalsLookedUp
<1>2. /\ l \in Locals
      /\ Upstream(l) # e => l \in DOMAIN node_id_by_local /\ ListedAs(e, node_id_by_local[l])
  BY <1>1 DEF IInv, MapsConsistent
<1>3. ASSUME Upstream(l) # e
      PROVE  \E id \in Ids : ListedAs(Upstream(l), id) /\ ListedAs(e, id)
  <2>1. /\ ListedAs(Upstream(l), node_id_by_local[l])
        /\ node_id_by_local[l] \in Ids
    BY <1>2, <1>3 DEF IInv, MapsConsistent, MapTypes
  <2> QED
    BY <1>2, <1>3, <2>1
<1> QED
  BY <1>2, <1>3

\* The invariant says that no two nodes share a listener.
LEMMA IInvOneListenerPerNode == IInv => OneListenerPerNode
<1> SUFFICES ASSUME IInv, Mapped,
                    NEW i \in 1..Len(slots), NEW p \in 1..Len(slots),
                    NEW j \in 1..Len(slots[i]), NEW q \in 1..Len(slots[p]),
                    NEW m, m = slots[i][j], NEW n, n = slots[p][q]
             PROVE  /\ Endpoint(m) = Endpoint(n) => locals[i][j] = locals[p][q]
                    /\ m.id # NoId /\ n.id # NoId =>
                           (locals[i][j] = locals[p][q] <=> m.id = n.id)
  BY DEF OneListenerPerNode
<1>1. /\ locals[i][j] = local_by_upstream[Endpoint(m)]
      /\ m.id # NoId => /\ m.id \in DOMAIN local_by_node_id
                        /\ local_by_node_id[m.id] = locals[i][j]
  BY DEF IInv, LocalsLookedUp
<1>2. /\ locals[p][q] = local_by_upstream[Endpoint(n)]
      /\ n.id # NoId => /\ n.id \in DOMAIN local_by_node_id
                        /\ local_by_node_id[n.id] = locals[p][q]
  BY DEF IInv, LocalsLookedUp
<1>3. \A id \in DOMAIN local_by_node_id : node_id_by_local[local_by_node_id[id]] = id
  BY DEF IInv, MapsConsistent
<1> QED
  BY <1>1, <1>2, <1>3

\* The maps of map_cluster_slots stay consistent, for every topology and every
\* --listen port.
THEOREM MapsCorrect == Spec => []MapsConsistent
<1>1. IInv => MapsConsistent
  BY DEF IInv
<1> QED
  BY <1>1, InitIInv, NextIInv, PTL DEF Spec

\* The listener advertised for a node forwards to that node.
THEOREM SlotsCorrect == Spec => []SlotsReachNode
  BY IInvSlotsReachNode, InitIInv, NextIInv, PTL DEF Spec

\* The nodes of a topology share a listener exactly when they are the same node.
THEOREM ListenersCorrect == Spec => []OneListenerPerNode
  BY IInvOneListenerPerNode, InitIInv, NextIInv, PTL DEF Spec

\* A registered endpoint or node ID keeps its listener.
THEOREM ListenersStay == Spec => ListenersNeverMove
<1>1. ASSUME IInv, [Next]_vars
      PROVE  [/\ \A e \in DOMAIN local_by_upstream :
                     local_by_upstream'[e] = local_by_upstream[e]
              /\ \A id \in DOMAIN local_by_node_id :
                     local_by_node_id'[id] = local_by_node_id[id]]_vars
  <2>1. CASE RegisterKnown
    <3>1. PICK l, ep, nid : l = Known /\ ep = Endpoint(Node) /\ nid = Node.id
      OBVIOUS
    <3>2. /\ ep \in DOMAIN local_by_upstream => local_by_upstream[ep] = l
          /\ nid \in DOMAIN local_by_node_id => local_by_node_id[nid] = l
      BY <1>1, <2>1, <3>1, KnownListener DEF RegisterKnown
    <3>3. /\ local_by_upstream' = Put(local_by_upstream, ep, l)
          /\ \/ local_by_node_id' = local_by_node_id
             \/ local_by_node_id' = Put(local_by_node_id, nid, l)
      BY <2>1, <3>1 DEF RegisterKnown, Remember
    <3>4. \A x \in DOMAIN local_by_upstream : local_by_upstream'[x] = local_by_upstream[x]
      BY <3>2, <3>3 DEF Put
    <3>5. \A x \in DOMAIN local_by_node_id : local_by_node_id'[x] = local_by_node_id[x]
      <4>1. CASE local_by_node_id' = local_by_node_id
        BY <4>1
      <4>2. CASE local_by_node_id' = Put(local_by_node_id, nid, l)
        BY <3>2, <4>2 DEF Put
      <4> QED
        BY <3>3, <4>1, <4>2
    <3> QED
      BY <3>4, <3>5
  <2>2. CASE RegisterNew
    <3>1. PICK l, ep, nid : l = NextPort /\ ep = Endpoint(Node) /\ nid = Node.id
      OBVIOUS
    <3>2. ep \notin DOMAIN local_by_upstream /\ nid \notin DOMAIN local_by_node_id
      BY <1>1, <2>2, <3>1, NewListener DEF RegisterNew
    <3>3. /\ local_by_upstream' = Put(local_by_upstream, ep, l)
          /\ \/ local_by_node_id' = local_by_node_id
             \/ local_by_node_id' = Put(local_by_node_id, nid, l)
      BY <2>2, <3>1 DEF RegisterNew, Remember
    <3>4. \A x \in DOMAIN local_by_upstream : local_by_upstream'[x] = local_by_upstream[x]
      BY <3>2, <3>3 DEF Put
    <3>5. \A x \in DOMAIN local_by_node_id : local_by_node_id'[x] = local_by_node_id[x]
      <4>1. CASE local_by_node_id' = local_by_node_id
        BY <4>1
      <4>2. CASE local_by_node_id' = Put(local_by_node_id, nid, l)
        BY <3>2, <4>2 DEF Put
      <4> QED
        BY <3>3, <4>1, <4>2
    <3> QED
      BY <3>4, <3>5
  <2>3. CASE UNCHANGED maps
    BY <2>3 DEF maps
  <2> QED
    BY <1>1, <2>1, <2>2, <2>3
       DEF Next, Startup, Standalone, Discover, Reject, NextRange, NextPass, PrimariesDone,
           ReplicasDone, AddRedirection, RedirectionsDone, Bind, BindFails, Redirected,
           Listed, vars
<1> QED
  BY <1>1, InitIInv, NextIInv, PTL DEF Spec, ListenersNeverMove

-----------------------------------------------------------------------------
(* Replaced addresses. *)

\* The nodes from_slot_ranges has been through.
Visited(i, j) ==
    \/ phase \in {"bind", "serving"}
    \/ phase = "redirect" /\ (i < r \/ (i = r /\ j < k))

\* The redirection map holds the listener of every node it has been through,
\* under its endpoint, its ID and, as long as no other node has it, its port.
HoldsNode(i, j) ==
    LET n == slots[i][j]
        l == locals[i][j]
    IN  /\ Endpoint(n) \in DOMAIN redirections.by_upstream
        /\ redirections.by_upstream[Endpoint(n)] = l
        /\ n.id # NoId => /\ n.id \in DOMAIN redirections.by_node_id
                          /\ redirections.by_node_id[n.id] = l
        /\ n.port \in DOMAIN redirections.by_port
        /\ redirections.by_port[n.port] \in {NoLocal, l}

\* And it holds nothing else.
SomeEndpoint(e) ==
    \E i \in 1..Len(slots) : \E j \in 1..Len(slots[i]) : Endpoint(slots[i][j]) = e
SomeId(id) ==
    \E i \in 1..Len(slots) : \E j \in 1..Len(slots[i]) : slots[i][j].id = id
SomePort(p) ==
    \E i \in 1..Len(slots) : \E j \in 1..Len(slots[i]) : slots[i][j].port = p

HoldsOnlyNodes ==
    /\ \A e \in DOMAIN redirections.by_upstream : SomeEndpoint(e)
    /\ \A id \in DOMAIN redirections.by_node_id : id # NoId /\ SomeId(id)
    /\ \A p \in DOMAIN redirections.by_port : SomePort(p)

RedirectionInv ==
    /\ phase \in {"probe", "standalone", "primaries", "replicas"}
           => redirections = NoRedirections
    /\ phase \in {"redirect", "bind", "serving"} =>
           /\ slots # << >> => Mapped
           /\ HoldsOnlyNodes
           /\ \A i \in 1..Len(slots) : \A j \in 1..Len(slots[i]) :
                  Visited(i, j) => HoldsNode(i, j)

\* What RewritesAgreeWithSlots says of an answer.
AnswerAgrees(t) ==
    IF t.id # NoId /\ SomeId(t.id)
    THEN \A i \in 1..Len(slots) : \A j \in 1..Len(slots[i]) :
             slots[i][j].id = t.id => locals[i][j] = t.local
    ELSE IF SomeEndpoint(t.server)
    THEN \A i \in 1..Len(slots) : \A j \in 1..Len(slots[i]) :
             Endpoint(slots[i][j]) = t.server => locals[i][j] = t.local
    ELSE t.local # NoLocal =>
             /\ SomePort(t.server[2])
             /\ \A i \in 1..Len(slots) : \A j \in 1..Len(slots[i]) :
                    slots[i][j].port = t.server[2] => locals[i][j] = t.local

AnswerInv ==
    told # NoAnswer => phase \in {"bind", "serving", "failed"} /\ AnswerAgrees(told)

\* The answer in hand is then one the property allows.
LEMMA AgreesMeansAllowed ==
    ASSUME told # NoAnswer => AnswerAgrees(told)
    PROVE  RewritesAgreeWithSlots
  BY DEF RewritesAgreeWithSlots, AnswerAgrees, SomeId, SomeEndpoint, SomePort

\* A node of a mapped topology has a listener, which its endpoint and its ID name.
LEMMA NodeListener ==
    ASSUME IInv, Mapped, NEW i \in 1..Len(slots), NEW j \in 1..Len(slots[i])
    PROVE  /\ locals[i][j] # NoLocal
           /\ \A p \in 1..Len(slots) : \A q \in 1..Len(slots[p]) :
                  /\ Endpoint(slots[p][q]) = Endpoint(slots[i][j])
                         => locals[p][q] = locals[i][j]
                  /\ slots[p][q].id = slots[i][j].id /\ slots[i][j].id # NoId
                         => locals[p][q] = locals[i][j]
<1>1. locals[i][j] \in Locals
  BY IInvSlotsReachNode DEF SlotsReachNode
<1>2. NoLocal \notin Locals
  BY DEF Locals, NoLocal
<1>3. ASSUME NEW p \in 1..Len(slots), NEW q \in 1..Len(slots[p])
      PROVE  /\ Endpoint(slots[p][q]) = Endpoint(slots[i][j])
                    => locals[p][q] = locals[i][j]
             /\ slots[p][q].id = slots[i][j].id /\ slots[i][j].id # NoId
                    => locals[p][q] = locals[i][j]
  BY IInvOneListenerPerNode DEF OneListenerPerNode
<1> QED
  BY <1>1, <1>2, <1>3

\* Nothing is rewritten and nothing answered at the start.
LEMMA InitRedirections == Init => RedirectionInv /\ AnswerInv
  BY DEF Init, RedirectionInv, AnswerInv

\* A node is visited when the loop has come past it.
LEMMA AddedNode ==
    ASSUME IInv, RedirectionInv, AddRedirection
    PROVE  RedirectionInv'
<1> DEFINE n == Node
           l == locals[r][k]
<1>1. /\ phase = "redirect" /\ phase' = "redirect"
      /\ slots' = slots /\ locals' = locals /\ r' = r /\ k' = k + 1
      /\ r \in 1..Len(slots) /\ k \in 1..Len(slots[r])
  BY DEF AddRedirection, InPass, IInv, MapTypes
<1>2. Mapped /\ HoldsOnlyNodes
  BY <1>1 DEF RedirectionInv
<1>3. l # NoLocal
  BY <1>1, <1>2, NodeListener
<1>4. /\ redirections'.by_upstream = Put(redirections.by_upstream, Endpoint(n), l)
      /\ redirections'.by_port = Put(redirections.by_port, n.port,
                                     PortEntry(redirections.by_port, n.port, l))
      /\ redirections'.by_node_id = IF n.id = NoId THEN redirections.by_node_id
                                    ELSE Put(redirections.by_node_id, n.id, l)
  BY DEF AddRedirection
<1>5. HoldsOnlyNodes'
  <2>1. /\ DOMAIN redirections'.by_upstream = DOMAIN redirections.by_upstream \cup {Endpoint(n)}
        /\ DOMAIN redirections'.by_port = DOMAIN redirections.by_port \cup {n.port}
    BY <1>4 DEF Put
  <2>2. DOMAIN redirections'.by_node_id
            \subseteq DOMAIN redirections.by_node_id \cup ({n.id} \ {NoId})
    <3>1. CASE n.id = NoId
      BY <3>1, <1>4
    <3>2. CASE n.id # NoId
      BY <3>2, <1>4 DEF Put
    <3> QED
      BY <3>1, <3>2
  <2>3. SomeEndpoint(Endpoint(n)) /\ SomeId(n.id) /\ SomePort(n.port)
    BY <1>1 DEF SomeEndpoint, SomeId, SomePort, Node
  <2>4. \A x : /\ SomeEndpoint(x) => SomeEndpoint(x)'
               /\ SomeId(x) => SomeId(x)'
               /\ SomePort(x) => SomePort(x)'
    BY <1>1 DEF SomeEndpoint, SomeId, SomePort, Endpoint
  <2>5. ASSUME NEW e \in DOMAIN redirections'.by_upstream PROVE SomeEndpoint(e)'
    BY <1>2, <2>1, <2>3, <2>4 DEF HoldsOnlyNodes
  <2>6. ASSUME NEW id \in DOMAIN redirections'.by_node_id PROVE id # NoId /\ SomeId(id)'
    BY <1>2, <2>2, <2>3, <2>4 DEF HoldsOnlyNodes
  <2>7. ASSUME NEW p \in DOMAIN redirections'.by_port PROVE SomePort(p)'
    BY <1>2, <2>1, <2>3, <2>4 DEF HoldsOnlyNodes
  <2> QED
    BY <2>5, <2>6, <2>7 DEF HoldsOnlyNodes
<1>6. ASSUME NEW i \in 1..Len(slots), NEW j \in 1..Len(slots[i]), Visited(i, j)'
      PROVE  HoldsNode(i, j)'
  <2>1. Visited(i, j) \/ (i = r /\ j = k)
    BY <1>1, <1>6 DEF Visited, IInv, MapTypes
  <2>2. Visited(i, j) => HoldsNode(i, j)
    BY <1>1 DEF RedirectionInv
  <2>3. /\ Endpoint(slots[i][j]) = Endpoint(n) => locals[i][j] = l
        /\ slots[i][j].id = n.id /\ n.id # NoId => locals[i][j] = l
    BY <1>1, <1>2, NodeListener DEF Node
  <2>4. i = r /\ j = k => slots[i][j] = n /\ locals[i][j] = l
    BY DEF Node
  <2> HIDE DEF n, l
  <2>5. /\ Endpoint(slots[i][j]) \in DOMAIN redirections'.by_upstream
        /\ redirections'.by_upstream[Endpoint(slots[i][j])] = locals[i][j]
    BY <1>4, <2>1, <2>2, <2>3, <2>4 DEF Put, HoldsNode
  <2>6. ASSUME slots[i][j].id # NoId
        PROVE  /\ slots[i][j].id \in DOMAIN redirections'.by_node_id
               /\ redirections'.by_node_id[slots[i][j].id] = locals[i][j]
    <3>1. CASE n.id = NoId
      BY <1>4, <2>1, <2>2, <2>4, <2>6, <3>1 DEF HoldsNode
    <3>2. CASE n.id # NoId
      BY <1>4, <2>1, <2>2, <2>3, <2>4, <2>6, <3>2 DEF Put, HoldsNode
    <3> QED
      BY <3>1, <3>2
  <2>7. /\ slots[i][j].port \in DOMAIN redirections'.by_port
        /\ redirections'.by_port[slots[i][j].port] \in {NoLocal, locals[i][j]}
    BY <1>4, <2>1, <2>2, <2>4 DEF Put, PortEntry, HoldsNode
  <2> QED
    BY <1>1, <2>5, <2>6, <2>7 DEF HoldsNode, Endpoint
<1> QED
  BY <1>1, <1>2, <1>5, <1>6 DEF RedirectionInv, Mapped

\* The answer rewrite_node gives from a complete redirection map.
LEMMA RewrittenAgrees ==
    ASSUME IInv, RedirectionInv, phase \in {"bind", "serving"},
           NEW id, NEW s, NEW t, t = [server |-> s, id |-> id, local |-> RewriteNode(id, s)]
    PROVE  AnswerAgrees(t)
<1>1. /\ HoldsOnlyNodes
      /\ \A i \in 1..Len(slots) : \A j \in 1..Len(slots[i]) : HoldsNode(i, j)
  BY DEF RedirectionInv, Visited
<1>2. ASSUME NEW i \in 1..Len(slots), NEW j \in 1..Len(slots[i])
      PROVE  locals[i][j] # NoLocal
  <2>1. Mapped
    BY DEF RedirectionInv, IInv, MapTypes
  <2> QED
    BY <2>1, NodeListener
<1>3. t.server = s /\ t.id = id /\ t.local = RewriteNode(id, s)
  OBVIOUS
<1>4. CASE id # NoId /\ SomeId(id)
  BY <1>1, <1>2, <1>3, <1>4 DEF AnswerAgrees, HoldsNode, RewriteNode, Lookup
<1>5. CASE ~(id # NoId /\ SomeId(id))
  <2>1. RewriteNode(id, s) = RewriteServer(s)
    BY <1>1, <1>5 DEF HoldsOnlyNodes, RewriteNode, Lookup
  <2>2. CASE SomeEndpoint(s)
    BY <1>1, <1>2, <1>3, <1>5, <2>1, <2>2
       DEF AnswerAgrees, HoldsNode, RewriteServer, Lookup
  <2>3. CASE ~SomeEndpoint(s)
    <3>1. t.local = Lookup(redirections.by_port, s[2])
      BY <1>1, <1>3, <2>1, <2>3 DEF HoldsOnlyNodes, RewriteServer, Lookup
    <3> QED
      BY <1>1, <1>3, <1>5, <2>3, <3>1 DEF AnswerAgrees, HoldsOnlyNodes, HoldsNode, Lookup
  <2> QED
    BY <2>2, <2>3
<1> QED
  BY <1>4, <1>5

\* What a step leaves alone.
LEMMA RedirectionsUntouched ==
    ASSUME RedirectionInv, UNCHANGED <<slots, locals, redirections>>,
           phase' \in {"redirect", "bind", "serving"} =>
               /\ phase \in {"redirect", "bind", "serving"}
               /\ \A i \in 1..Len(slots) : \A j \in 1..Len(slots[i]) :
                      Visited(i, j)' => Visited(i, j),
           phase' \in {"probe", "standalone", "primaries", "replicas"} =>
               phase \in {"probe", "standalone", "primaries", "replicas"}
    PROVE  RedirectionInv'
<1>1. HoldsOnlyNodes => HoldsOnlyNodes'
  BY DEF HoldsOnlyNodes, SomeEndpoint, SomeId, SomePort, Endpoint
<1>2. \A i, j : HoldsNode(i, j) => HoldsNode(i, j)'
  BY DEF HoldsNode, Endpoint
<1> QED
  BY <1>1, <1>2 DEF RedirectionInv, Mapped

\* A step that leaves the map and the answer alone keeps what the answer says.
LEMMA AnswerUntouched ==
    ASSUME AnswerInv, UNCHANGED <<slots, locals, told>>,
           phase \in {"bind", "serving", "failed"} => phase' \in {"bind", "serving", "failed"}
    PROVE  AnswerInv'
  BY DEF AnswerInv, AnswerAgrees, SomeEndpoint, SomeId, SomePort, Endpoint

\* Every step keeps what the rewritten redirections and the answers say.
LEMMA NextRedirections ==
    IInv /\ RedirectionInv /\ AnswerInv /\ [Next]_vars => RedirectionInv' /\ AnswerInv'
<1> SUFFICES ASSUME IInv, RedirectionInv, AnswerInv, [Next]_vars
             PROVE  RedirectionInv' /\ AnswerInv'
  OBVIOUS
<1>1. CASE Standalone
  <2>1. RedirectionInv'
    BY <1>1, RedirectionsUntouched DEF Standalone, Goto
  <2>2. AnswerInv'
    BY <1>1, AnswerUntouched DEF Standalone, Goto
  <2> QED
    BY <2>1, <2>2
<1>2. ASSUME NEW t \in Topologies, Discover(t) PROVE RedirectionInv' /\ AnswerInv'
  <2>1. redirections' = NoRedirections /\ told' = NoAnswer
    BY <1>2 DEF Discover, RedirectionInv, AnswerInv
  <2>2. phase' \in {"failed", "primaries"}
    BY <1>2 DEF Discover, Goto
  <2> QED
    BY <2>1, <2>2 DEF RedirectionInv, AnswerInv
<1>3. CASE RegisterKnown \/ RegisterNew \/ Reject \/ PrimariesDone
  <2>1. /\ phase \in {"primaries", "replicas"}
        /\ phase' \in {"primaries", "replicas", "failed"}
        /\ UNCHANGED <<slots, locals, redirections, told>>
    BY <1>3 DEF RegisterKnown, RegisterNew, Reject, PrimariesDone, NextPass, Registering, Goto
  <2>2. RedirectionInv'
    BY <2>1, RedirectionsUntouched
  <2>3. AnswerInv'
    BY <2>1, AnswerUntouched
  <2> QED
    BY <2>2, <2>3
<1>4. CASE NextRange
  <2>1. UNCHANGED <<phase, slots, locals, redirections, told>> /\ r' = r + 1
        /\ phase \in {"replicas", "redirect"} /\ k > Len(slots[r])
        /\ (phase = "redirect" => k' = 1)
    BY <1>4 DEF NextRange, First
  <2>2. ASSUME NEW i \in 1..Len(slots), NEW j \in 1..Len(slots[i]), Visited(i, j)'
        PROVE  Visited(i, j)
    <3>1. phase = "redirect" /\ i < r + 1
      BY <2>1, <2>2 DEF Visited, IInv, MapTypes
    <3>2. i = r => j < k
      <4>1. Len(slots[i]) \in Nat /\ k \in Nat
        BY DEF IInv, MapTypes
      <4> QED
        BY <2>1, <4>1
    <3> QED
      BY <3>1, <3>2 DEF Visited, IInv, MapTypes
  <2>3. RedirectionInv'
    BY <2>1, <2>2, RedirectionsUntouched
  <2>4. AnswerInv'
    BY <2>1, AnswerUntouched
  <2> QED
    BY <2>3, <2>4
<1>5. CASE ReplicasDone
  <2>1. /\ phase = "replicas" /\ phase' = "redirect" /\ r' = 1 /\ k' = 1
        /\ UNCHANGED <<slots, redirections, told>>
        /\ locals' = [i \in 1..Len(slots) |-> [j \in 1..Len(slots[i]) |->
                          local_by_upstream[Endpoint(slots[i][j])]]]
    BY <1>5 DEF ReplicasDone, NextPass, Goto, First
  <2>2. redirections' = NoRedirections /\ told' = NoAnswer
    BY <2>1 DEF RedirectionInv, AnswerInv
  <2>3. slots' # << >> => Mapped'
    <3>1. ASSUME slots # << >> PROVE locals' # << >>
      <4>1. 1 \in DOMAIN locals'
        BY <2>1, <3>1 DEF IInv, MapTypes
      <4> QED
        BY <4>1
    <3> QED
      BY <2>1, <3>1 DEF Mapped
  <2>4. HoldsOnlyNodes'
    BY <2>2 DEF HoldsOnlyNodes, NoRedirections, Empty
  <2>5. \A i \in 1..Len(slots) : \A j \in 1..Len(slots[i]) : ~Visited(i, j)'
    BY <2>1 DEF Visited
  <2> QED
    BY <2>1, <2>2, <2>3, <2>4, <2>5 DEF RedirectionInv, AnswerInv
<1>6. CASE AddRedirection
  <2>1. AnswerInv'
    BY <1>6, AnswerUntouched DEF AddRedirection
  <2> QED
    BY <1>6, <2>1, AddedNode
<1>7. CASE RedirectionsDone
  <2>1. /\ phase = "redirect" /\ phase' = "bind" /\ r > Len(slots)
        /\ UNCHANGED <<slots, locals, redirections, told>>
    BY <1>7 DEF RedirectionsDone, NextPass, Goto
  <2>2. \A i \in 1..Len(slots) : \A j \in 1..Len(slots[i]) : Visited(i, j)
    BY <2>1 DEF Visited, IInv, MapTypes
  <2>3. RedirectionInv'
    BY <2>1, <2>2, RedirectionsUntouched
  <2>4. AnswerInv'
    BY <2>1, AnswerUntouched
  <2> QED
    BY <2>3, <2>4
<1>8. CASE Bind \/ BindFails
  <2>1. /\ phase = "bind" /\ phase' \in {"bind", "serving", "failed"}
        /\ UNCHANGED <<slots, locals, redirections, told>>
    BY <1>8 DEF Bind, BindFails, Goto
  <2>2. RedirectionInv'
    BY <2>1, RedirectionsUntouched DEF Visited
  <2>3. AnswerInv'
    BY <2>1, AnswerUntouched
  <2> QED
    BY <2>2, <2>3
<1>9. ASSUME NEW s \in Servers, NEW id, Serving,
             told' = [server |-> s, id |-> id, local |-> RewriteNode(id, s)],
             UNCHANGED <<phase, slots, r, k, locals, redirections>>
      PROVE  RedirectionInv' /\ AnswerInv'
  <2>1. RedirectionInv'
    BY <1>9, RedirectionsUntouched DEF Visited
  <2>2. phase \in {"bind", "serving"}
    BY <1>9 DEF Serving
  <2>3. AnswerAgrees(told')
    BY <1>9, <2>2, RewrittenAgrees
  <2>4. AnswerAgrees(told)'
    BY <1>9, <2>3 DEF AnswerAgrees, SomeEndpoint, SomeId, SomePort, Endpoint
  <2> QED
    BY <1>9, <2>1, <2>2, <2>4 DEF AnswerInv
<1>10. ASSUME NEW s \in Servers, Redirected(s) PROVE RedirectionInv' /\ AnswerInv'
  <2>1. phase \in {"bind", "serving"}
    BY <1>10 DEF Redirected, Serving
  <2>2. RewriteServer(s) = RewriteNode(NoId, s)
    BY <2>1 DEF RedirectionInv, HoldsOnlyNodes, RewriteNode, Lookup
  <2> QED
    BY <1>9, <1>10, <2>2 DEF Redirected, Tell
<1>11. ASSUME NEW s \in Servers, NEW id \in Ids, Listed(id, s)
       PROVE  RedirectionInv' /\ AnswerInv'
  BY <1>9, <1>11 DEF Listed, Tell
<1>12. CASE UNCHANGED vars
  <2>1. RedirectionInv'
    BY <1>12, RedirectionsUntouched DEF vars, Visited
  <2>2. AnswerInv'
    BY <1>12, AnswerUntouched DEF vars
  <2> QED
    BY <2>1, <2>2
<1> QED
  BY <1>1, <1>2, <1>3, <1>4, <1>5, <1>6, <1>7, <1>8, <1>10, <1>11, <1>12
     DEF Next, Startup

\* Every address of an upstream node that a client is given in a redirection or
\* in CLUSTER SHARDS or NODES agrees with CLUSTER SLOTS, for every topology.
THEOREM RewritesCorrect == Spec => []RewritesAgreeWithSlots
<1>1. AnswerInv => RewritesAgreeWithSlots
  BY AgreesMeansAllowed DEF AnswerInv
<1> QED
  BY <1>1, InitIInv, NextIInv, InitRedirections, NextRedirections, PTL DEF Spec
=============================================================================
