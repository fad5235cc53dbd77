----------------------- MODULE TopologyRedirect_proofs -----------------------
(***************************************************************************)
(* What topology faults do to a command and to its reply, for any number   *)
(* of connections, of slots and of commands and for every cluster map that *)
(* TopologiesAssumption admits: ExecutionAsAsked, CutoffExact,             *)
(* FocusedAsAsked and MutationsTruthful of TopologyRedirect, and           *)
(* ExecutedOnce of RedirectBounce.                                         *)
(*                                                                         *)
(* The argument: a reply chosen by the redirection code stands where the   *)
(* search over the ranges says it does (WrongValidSlots, the first range   *)
(* of another primary), which needs the least element of a set of ranges;  *)
(* per connection, ConnInv ties the stage of the command (StageInv) to     *)
(* what was executed, answered and recorded, and a step of one connection  *)
(* leaves what holds of the others alone (SameKeeps).  ConnInv speaks of   *)
(* the addresses in replies only without IPv6, where the run               *)
(* redirect_ipv6 shows that they are not what was asked for.               *)
(***************************************************************************)
EXTENDS RedirectBounce, WellFoundedInduction, TLAPS

\* A slot made wrong is a slot, and another one.
LEMMA WrongSlot ==
    ASSUME NEW slot, NEW x \in WrongValidSlots(slot)
    PROVE  x \in Slots /\ x # slot
<1>1. PICK s \in Slots : x = IF s = slot THEN (s + 1) % SlotCount ELSE s
  BY DEF WrongValidSlots
<1>2. CASE s # slot
  BY <1>1, <1>2
<1>3. CASE s = slot /\ s + 1 < SlotCount
  BY <1>1, <1>3, SlotsAssumption DEF Slots
<1>4. CASE s = slot /\ s + 1 = SlotCount
  BY <1>1, <1>4, SlotsAssumption DEF Slots
<1> QED
  BY <1>2, <1>3, <1>4, SlotsAssumption DEF Slots

\* A set of naturals has a least element.
LEMMA Least ==
    ASSUME NEW S \in SUBSET Nat, S # {}
    PROVE  \E n \in S : \A m \in S : n <= m
<1>1. PICK n \in S : \A m \in S : <<m, n>> \notin OpToRel(<, Nat)
  BY NatLessThanWellFounded, WFMin, Zenon
<1>2. \A m \in S : ~(m < n)
  BY <1>1, Zenon DEF OpToRel
<1> QED
  BY <1>2, SMT

\* An element of a sequence is one of the set.
LEMMA ElementOf ==
    ASSUME NEW S, NEW s \in Seq(S), NEW i \in 1..Len(s)
    PROVE  s[i] \in S
  OBVIOUS

\* The ranges of a topology, and the nodes in them.
LEMMA TopologyRanges ==
    ASSUME topology \in Topologies, NEW i \in Ranges
    PROVE  /\ i \in Nat \ {0} /\ Len(topology) \in Nat
           /\ topology[i] \in [start : Int, end : Int, nodes : Seq(Nat)]
           /\ Len(topology[i].nodes) > 0
           /\ Primary(i) \in Nat
           /\ Primary(i) \in PrimarySet
           /\ Primary(i) \in AllNodes
<1>1. topology \in Seq([start : Int, end : Int, nodes : Seq(Nat)])
  BY TopologiesAssumption
<1>2. i \in Nat \ {0} /\ Len(topology) \in Nat /\ i \in 1..Len(topology)
  BY <1>1 DEF Ranges
<1>3. topology[i] \in [start : Int, end : Int, nodes : Seq(Nat)]
  BY <1>1, <1>2, ElementOf, Zenon
<1>4. Len(topology[i].nodes) > 0
  BY <1>2, TopologiesAssumption
<1>5. Primary(i) \in Nat /\ Primary(i) \in ToSet(topology[i].nodes)
  <2>1. PICK ns \in Seq(Nat) : ns = topology[i].nodes
    BY <1>3
  <2>2. 1 \in DOMAIN ns /\ ns[1] \in Nat
    BY <1>4, <2>1
  <2> QED
    BY <2>1, <2>2 DEF Primary, ToSet
<1> QED
  BY <1>2, <1>3, <1>4, <1>5 DEF PrimarySet, AllNodes

\* NEXT names a primary other than the listener.
LEMMA NextIsAnother ==
    ASSUME topology \in Topologies, SeveralPrimaries, NEW c
    PROVE  NextPrimary(c) \in PrimarySet /\ NextPrimary(c) # c
<1> DEFINE later == {i \in FirstRanges : \E h \in FirstRanges : h < i /\ Primary(h) = c}
<1>1. PICK a \in Ranges, b \in Ranges : Primary(a) # Primary(b)
  BY DEF SeveralPrimaries, PrimarySet
<1>2. 1 \in Ranges /\ 1 \in FirstRanges
  BY <1>1, TopologyRanges DEF Ranges, FirstRanges
<1>3. CASE later # {}
  <2>1. later \in SUBSET Nat
    BY TopologyRanges DEF FirstRanges, Ranges
  <2> HIDE DEF later
  <2>2. PICK n \in later : \A m \in later : n <= m
    BY <1>3, <2>1, Least
  <2>3. Min(later) \in later
    BY <2>2 DEF Min
  <2> USE DEF later
  <2>4. PICK i \in FirstRanges, h \in FirstRanges :
            i = Min(later) /\ h < i /\ Primary(h) = c
    BY <2>3
  <2>5. i \in Ranges /\ h \in 1..(i - 1)
    BY <2>4, TopologyRanges DEF FirstRanges, Ranges
  <2>6. Primary(i) # c
    BY <2>4, <2>5 DEF FirstRanges
  <2> QED
    BY <1>3, <2>4, <2>5, <2>6, TopologyRanges DEF NextPrimary
<1>4. CASE later = {}
  <2>1. NextPrimary(c) = Primary(1)
    BY <1>4 DEF NextPrimary
  <2>2. ASSUME Primary(1) = c PROVE FALSE
    <3> DEFINE others == {i \in Ranges : Primary(i) # c}
    <3>1. others # {} /\ others \in SUBSET Nat
      BY <1>1, <2>2, TopologyRanges
    <3> HIDE DEF others
    <3>2. PICK n \in others : \A m \in others : n <= m
      BY <3>1, Least
    <3> USE DEF others
    <3>3. n \in Ranges /\ n \in Nat \ {0} /\ n # 1
      BY <2>2, TopologyRanges
    <3>4. ASSUME NEW h \in 1..(n - 1) PROVE Primary(h) = c
      BY <3>2, <3>3 DEF Ranges
    <3>5. n \in FirstRanges
      BY <3>3, <3>4 DEF FirstRanges
    <3> QED
      BY <1>2, <1>4, <2>2, <3>3, <3>5
  <2> QED
    BY <1>2, <2>1, <2>2, TopologyRanges
<1> QED
  BY <1>3, <1>4

-----------------------------------------------------------------------------
(* Types. *)

Configs ==
    [mode : {"OFF", "RANDOM"}, probability : {"NEVER", "SOMETIMES", "ALWAYS"},
     redirect : RedirectConfigs \cup {Off}]

CommandRecords == [index : Nat, keys : Seq(Slots), selected : BOOLEAN]

\* A redirection is a reply, and has the parts it was made of.
LEMMA ReplyTypes ==
    ASSUME NEW kind \in {"MOVED", "ASK"}, NEW slot \in RandomI32,
           NEW server \in [port : Nat, bare : BOOLEAN]
    PROVE  /\ Redirection(kind, slot, server) \in Replies
           /\ IsRedirect(Redirection(kind, slot, server))
           /\ Redirection(kind, slot, server).kind = kind
           /\ Redirection(kind, slot, server).slot = slot
           /\ Redirection(kind, slot, server).server = server
  BY DEF Redirection, Replies, IsRedirect

\* Replies that are no redirections.
LEMMA OtherTypes ==
    ASSUME NEW what \in {"none", "value", "no_listener", "generated", "unavailable"}
    PROVE  /\ Other(what) \in Replies /\ ~IsRedirect(Other(what))
           /\ Other(what).what = what
  BY SlotsAssumption DEF Other, NoAddr, Addr, Replies, IsRedirect, RandomI32

\* Nodes have ports.
LEMMA NodePorts ==
    ASSUME topology \in Topologies
    PROVE  /\ AllNodes \subseteq Nat /\ PrimarySet \subseteq AllNodes
           /\ \A p \in AllNodes : Addr(p) \in [port : Nat, bare : BOOLEAN] /\ Addr(p).port = p
           /\ \A p \in AllNodes : Bare(p) \in [port : Nat, bare : BOOLEAN] /\ Bare(p).port = p
<1>1. PrimarySet \subseteq AllNodes
  BY TopologyRanges DEF PrimarySet
<1>2. AllNodes \subseteq Nat
  <2>1. ASSUME NEW i \in Ranges, NEW j \in DOMAIN topology[i].nodes
        PROVE  topology[i].nodes[j] \in Nat
    <3>1. topology[i].nodes \in Seq(Nat)
      BY TopologyRanges
    <3> QED
      BY <3>1
  <2> QED
    BY <2>1 DEF AllNodes, ToSet
<1> QED
  BY <1>1, <1>2, AddressesAssumption DEF Addr, Bare

\* The destination of a focused redirection is the one asked for.
LEMMA TargetAsAsked ==
    ASSUME topology \in Topologies, NEW c \in Conns, NEW target, NEW slot \in Slots,
           target \in {"WRONG_NODE", "SELF", "REPLICA", "NEXT", "RANDOM", "LITERAL"},
           NEW server \in Targets(c, target, slot)
    PROVE  /\ server \in [port : Nat, bare : BOOLEAN]
           /\ target # "LITERAL" => \E p \in AllNodes : server = Addr(p)
           /\ target = "SELF" => server.port = c
           /\ target \in {"WRONG_NODE", "NEXT", "RANDOM"} =>
                  \E i \in Ranges : Primary(i) = server.port
           /\ target = "WRONG_NODE" =>
                  \A i \in Ranges : Owns(i, slot) => Primary(i) # server.port
           /\ target = "NEXT" => server.port # c
           /\ target = "REPLICA" =>
                  \E i \in Ranges : /\ Owns(i, slot) /\ InRange(i, server.port)
                                    /\ Primary(i) # server.port
<1>1. CASE target = "LITERAL"
  BY <1>1, AddressesAssumption DEF Targets
<1>2. CASE target = "SELF"
  <2>1. c \in AllNodes /\ server = Addr(c)
    BY <1>2 DEF Targets
  <2> QED
    BY <1>2, <2>1, NodePorts
<1>3. CASE target = "RANDOM"
  <2>1. PICK i \in Ranges : server = Addr(Primary(i))
    BY <1>3 DEF Targets, PrimarySet
  <2> QED
    BY <1>3, <2>1, NodePorts, TopologyRanges
<1>4. CASE target = "NEXT"
  <2>1. SeveralPrimaries /\ server = Addr(NextPrimary(c))
    BY <1>4 DEF Targets
  <2>2. NextPrimary(c) \in PrimarySet /\ NextPrimary(c) # c
    BY <2>1, NextIsAnother
  <2>3. \E i \in Ranges : Primary(i) = NextPrimary(c)
    BY <2>2 DEF PrimarySet
  <2> QED
    BY <1>4, <2>1, <2>2, <2>3, NodePorts
<1>5. CASE target = "WRONG_NODE"
  <2>1. Owners(slot) # {} /\ \E p \in PrimarySet \ Owners(slot) : server = Addr(p)
    BY <1>5 DEF Targets
  <2>2. PICK p \in PrimarySet \ Owners(slot) : server = Addr(p)
    BY <2>1
  <2>3. server.port = p /\ p \in AllNodes /\ server \in [port : Nat, bare : BOOLEAN]
    BY <2>2, NodePorts
  <2>4. \E i \in Ranges : Primary(i) = p
    BY <2>2 DEF PrimarySet
  <2>5. ASSUME NEW i \in Ranges, Owns(i, slot) PROVE Primary(i) # p
    <3>1. PICK j \in Ranges : Owns(j, slot) /\ Primary(j) \in Owners(slot)
      BY <2>1 DEF Owners
    <3>2. /\ topology[i].start \in Int /\ topology[i].end \in Int
          /\ topology[j].start \in Int /\ topology[j].end \in Int
      BY TopologyRanges
    <3>3. topology[j].start <= topology[i].end /\ topology[i].start <= topology[j].end
      BY <2>5, <3>1, <3>2, SlotsAssumption DEF Owns, Slots
    <3>4. Primary(i) = Primary(j)
      BY <3>3, TopologiesAssumption DEF Ranges, Primary
    <3> QED
      BY <3>1, <3>4
  <2> QED
    BY <1>5, <2>2, <2>3, <2>4, <2>5
<1>6. CASE target = "REPLICA"
  <2>1. PICK i \in Ranges : \E p \in ToSet(Tail(topology[i].nodes)) :
            Owns(i, slot) /\ server = Addr(p)
    BY <1>6 DEF Targets, Replicas
  <2>2. PICK ns \in Seq(Nat) : ns = topology[i].nodes /\ Len(ns) > 0
    BY TopologyRanges
  <2>3. PICK q \in DOMAIN Tail(ns) : server = Addr(Tail(ns)[q])
    BY <2>1, <2>2 DEF ToSet
  <2>4. q + 1 \in 2..Len(ns) /\ Tail(ns)[q] = ns[q + 1] /\ q + 1 \in DOMAIN ns
    BY <2>2, <2>3
  <2>5. ns[q + 1] # ns[1]
    BY <2>2, <2>4, TopologiesAssumption DEF Ranges
  <2>6. ns[q + 1] \in AllNodes
    BY <2>2, <2>4 DEF AllNodes, ToSet
  <2>7. server.port = ns[q + 1] /\ server \in [port : Nat, bare : BOOLEAN]
    BY <2>3, <2>4, <2>6, NodePorts
  <2>8. InRange(i, server.port) /\ Primary(i) # server.port
    BY <2>2, <2>4, <2>5, <2>7 DEF InRange, Primary
  <2> QED
    BY <1>6, <2>1, <2>3, <2>4, <2>6, <2>7, <2>8
<1> QED
  BY <1>1, <1>2, <1>3, <1>4, <1>5, <1>6

\* The slot named is the one asked for.
LEMMA SlotAsAsked ==
    ASSUME NEW asked \in {"CORRECT", "WRONG", "WILD", "FIXED"}, NEW slot \in Slots,
           NEW x \in AdvertisedSlots(asked, slot)
    PROVE  /\ x \in RandomI32
           /\ asked = "WRONG" => x \in Slots \ {slot}
           /\ asked = "WILD" => x \notin Slots
           /\ asked \notin {"WRONG", "WILD"} => x = slot
<1>1. CASE asked \in {"CORRECT", "FIXED"}
  BY <1>1, SlotsAssumption DEF AdvertisedSlots, Slots, RandomI32
<1>2. CASE asked = "WRONG"
  <2>1. x \in WrongValidSlots(slot)
    BY <1>2 DEF AdvertisedSlots
  <2> QED
    BY <1>2, <2>1, WrongSlot, SlotsAssumption DEF Slots, RandomI32
<1>3. CASE asked = "WILD"
  BY <1>3, SlotsAssumption DEF AdvertisedSlots, Slots, RandomI32
<1> QED
  BY <1>1, <1>2, <1>3

\* A focused fault is a redirection as asked for, in its phase and before the cutoff.
LEMMA ConfiguredFault ==
    ASSUME topology \in Topologies, NEW c \in Conns,
           config[c] \in Configs, command[c] \in CommandRecords,
           NEW phase, NEW g \in Configured(c, phase), g # NoFault
    PROVE  /\ Applies(c, phase)
           /\ g.applied = {phase} /\ g.reply \in Replies /\ IsRedirect(g.reply)
           /\ AsAsked(c, g.reply)
           /\ config[c].redirect.target # "LITERAL" =>
                  \E p \in AllNodes : g.reply.server = Addr(p)
<1>0. PICK f : f = config[c].redirect
  OBVIOUS
<1>1. Applies(c, phase)
  BY DEF Configured
<1>2. f \in RedirectConfigs /\ f.phase = phase
  BY <1>0, <1>1 DEF Applies, Configs
<1>3. PICK s, kind, slot, server :
          /\ s \in CorrectSlots(c) /\ kind \in Kinds(f.kind)
          /\ slot \in AdvertisedSlots(f.slot, s) /\ server \in Targets(c, f.target, s)
          /\ g = Fault(Redirection(kind, slot, server), {f.phase})
  <2>1. PICK y \in FocusedRedirections(c) : g = Fault(y, {f.phase})
    BY <1>0, <1>1 DEF Configured
  <2> QED
    BY <1>0, <2>1 DEF FocusedRedirections
<1>4. /\ f.kind \in {"MOVED", "ASK", "RANDOM"}
      /\ f.target \in {"WRONG_NODE", "SELF", "REPLICA", "NEXT", "RANDOM", "LITERAL"}
      /\ f.slot \in {"CORRECT", "WRONG", "WILD", "FIXED"} /\ f.fixed \in Slots
  BY <1>2 DEF RedirectConfigs
<1>5. s \in Slots /\ s = IF f.slot = "FIXED" THEN f.fixed ELSE command[c].keys[f.key]
  <2>1. CASE f.slot = "FIXED"
    BY <1>0, <1>3, <1>4, <2>1 DEF CorrectSlots
  <2>2. CASE f.slot # "FIXED"
    <3>1. s = command[c].keys[f.key] /\ f.key \in DOMAIN command[c].keys
      BY <1>0, <1>3, <2>2 DEF CorrectSlots
    <3>2. command[c].keys \in Seq(Slots)
      BY DEF CommandRecords
    <3> QED
      BY <2>2, <3>1, <3>2
  <2> QED
    BY <2>1, <2>2
<1>6. kind \in {"MOVED", "ASK"} /\ (f.kind # "RANDOM" => kind = f.kind)
  BY <1>3, <1>4 DEF Kinds
<1>7. /\ slot \in RandomI32
      /\ f.slot = "WRONG" => slot \in Slots \ {s}
      /\ f.slot = "WILD" => slot \notin Slots
      /\ f.slot \notin {"WRONG", "WILD"} => slot = s
  BY <1>3, <1>4, <1>5, SlotAsAsked
<1>8. /\ server \in [port : Nat, bare : BOOLEAN]
      /\ f.target # "LITERAL" => \E p \in AllNodes : server = Addr(p)
      /\ f.target = "SELF" => server.port = c
      /\ f.target \in {"WRONG_NODE", "NEXT", "RANDOM"} =>
             \E i \in Ranges : Primary(i) = server.port
      /\ f.target = "WRONG_NODE" =>
             \A i \in Ranges : Owns(i, s) => Primary(i) # server.port
      /\ f.target = "NEXT" => server.port # c
      /\ f.target = "REPLICA" =>
             \E i \in Ranges : /\ Owns(i, s) /\ InRange(i, server.port)
                               /\ Primary(i) # server.port
  BY <1>3, <1>4, <1>5, TargetAsAsked
<1>9. PICK x : /\ x = g.reply /\ g.applied = {f.phase}
               /\ x \in Replies /\ IsRedirect(x) /\ x.kind = kind /\ x.slot = slot
               /\ x.server = server
  BY <1>3, <1>6, <1>7, <1>8, ReplyTypes DEF Fault
<1>10. AsAsked(c, x)
  BY <1>0, <1>5, <1>6, <1>7, <1>8, <1>9 DEF AsAsked
<1> QED
  BY <1>0, <1>1, <1>2, <1>8, <1>9, <1>10

\* The phase's fault can be made, before the cutoff.
Due(c, phase) ==
    LET f == config[c].redirect IN
    Redirectable(c) /\ f.phase = phase /\ command[c].index < f.until

\* A fault that is due is never left out.
LEMMA DueIsInjected ==
    ASSUME topology \in Topologies, NEW c \in Conns, c \in AllNodes,
           config[c] \in Configs, command[c] \in CommandRecords,
           NEW phase, NoFault \in Configured(c, phase)
    PROVE  ~Due(c, phase)
<1> SUFFICES ASSUME Due(c, phase) PROVE FALSE
  OBVIOUS
<1>0. PICK f : f = config[c].redirect
  OBVIOUS
<1>1. f \in RedirectConfigs
  BY <1>0 DEF Due, Redirectable, Configs
<1>2. Applies(c, phase)
  BY DEF Due, Redirectable, Applies
<1>3. PICK s : s \in CorrectSlots(c) /\ s \in Slots
  <2>1. CASE f.slot = "FIXED"
    BY <1>0, <1>1, <2>1 DEF CorrectSlots, RedirectConfigs
  <2>2. CASE f.slot # "FIXED"
    <3>1. f.key \in {1, 2} /\ f.key <= Len(command[c].keys)
      BY <1>0, <1>1, <2>2 DEF Due, Redirectable, RedirectConfigs
    <3>2. command[c].keys \in Seq(Slots)
      BY DEF CommandRecords
    <3>3. f.key \in DOMAIN command[c].keys
      BY <3>1, <3>2
    <3>4. command[c].keys[f.key] \in CorrectSlots(c)
      BY <1>0, <2>2, <3>3 DEF CorrectSlots
    <3> QED
      BY <3>2, <3>3, <3>4
  <2> QED
    BY <2>1, <2>2
<1>4. PICK kind : kind \in Kinds(f.kind)
  BY DEF Kinds
<1>5. PICK slot : slot \in AdvertisedSlots(f.slot, s)
  <2>1. 0 \in Slots /\ 0 \in RandomI32
    BY SlotsAssumption DEF Slots, RandomI32
  <2>2. f.slot \in {"CORRECT", "WRONG", "WILD", "FIXED"}
    BY <1>1 DEF RedirectConfigs
  <2> QED
    BY <2>1, <2>2 DEF AdvertisedSlots, WrongValidSlots
<1>6. PICK server : server \in Targets(c, f.target, s)
  <2>1. f.target \in {"SELF", "RANDOM", "LITERAL"}
    BY <1>0 DEF Due, Redirectable
  <2>2. PrimarySet # {}
    <3>1. PICK i \in Ranges : TRUE
      BY DEF AllNodes
    <3> QED
      BY <3>1 DEF PrimarySet
  <2> QED
    BY <2>1, <2>2 DEF Targets
<1>7. FALSE \notin Draw(config[c].probability)
  <2>1. Draw(config[c].probability) = {TRUE}
    BY DEF Due, Redirectable, Draw
  <2> QED
    BY <2>1, Zenon
<1>8. FocusedRedirections(c) # {}
  <2>1. Redirection(kind, slot, server) \in
            {Redirection(a, b, d) : a \in Kinds(f.kind), b \in AdvertisedSlots(f.slot, s),
                                    d \in Targets(c, f.target, s)}
    BY <1>4, <1>5, <1>6
  <2>2. Redirection(kind, slot, server) \in FocusedRedirections(c)
    BY <1>0, <1>3, <2>1 DEF FocusedRedirections
  <2> QED
    BY <2>2
<1>9. \E y \in FocusedRedirections(c) : NoFault = Fault(y, {f.phase})
  BY <1>0, <1>2, <1>7, <1>8 DEF Configured
<1> QED
  BY <1>9 DEF NoFault, Fault

-----------------------------------------------------------------------------
(* Mixed faults. *)

Mixed == {"wrong_kind", "wrong_slot", "wrong_server", "wild_slot"}

\* The fault g is x with the mutations it records.
SaysWhat(g, x) ==
    /\ "wrong_kind" \in g.applied <=> g.reply.kind # x.kind
    /\ "wrong_server" \in g.applied <=> g.reply.server # x.server
    /\ "wild_slot" \notin g.applied =>
           ("wrong_slot" \in g.applied <=> g.reply.slot # x.slot)
    /\ g.reply.server \in LegacyTargets \cup {x.server}

\* apply_redirection_mutations records what it changed.
LEMMA MutatedSays ==
    ASSUME topology \in Topologies, NEW x \in Replies, IsRedirect(x),
           NEW names \in {{}, {"fake"}},
           NEW kind \in BOOLEAN, NEW slot \in BOOLEAN, NEW server \in BOOLEAN,
           NEW wild \in BOOLEAN, NEW g \in Mutated(x, names, kind, slot, server, wild)
    PROVE  /\ g.reply \in Replies /\ IsRedirect(g.reply)
           /\ names \subseteq g.applied /\ g.applied \subseteq names \cup Mixed
           /\ SaysWhat(g, x)
<1>1. PICK s, t : 
          /\ s \in IF wild THEN RandomI32
                   ELSE IF slot THEN WrongValidSlots(x.slot) ELSE {x.slot}
          /\ t \in IF server /\ WrongServers(x.server) # {} THEN WrongServers(x.server)
                   ELSE {x.server}
          /\ g.reply = Redirection(IF kind THEN Flip(x.kind) ELSE x.kind, s, t)
          /\ g.applied = names \cup (IF kind THEN {"wrong_kind"} ELSE {})
                     \cup (IF slot THEN {"wrong_slot"} ELSE {})
                     \cup (IF server /\ WrongServers(x.server) # {} THEN {"wrong_server"} ELSE {})
                     \cup (IF wild THEN {"wild_slot"} ELSE {})
  BY DEF Mutated, Fault
<1>2. x.kind \in {"MOVED", "ASK"} /\ x.slot \in RandomI32
      /\ x.server \in [port : Nat, bare : BOOLEAN]
  BY DEF Replies
<1>3. PICK k : /\ k = (IF kind THEN Flip(x.kind) ELSE x.kind)
               /\ k \in {"MOVED", "ASK"} /\ (kind <=> k # x.kind)
  BY <1>2 DEF Flip
<1>4. s \in RandomI32 /\ (~wild => (slot <=> s # x.slot))
  BY <1>1, <1>2, WrongSlot, SlotsAssumption DEF RandomI32, Slots
<1>5. /\ t \in LegacyTargets \cup {x.server} /\ t \in [port : Nat, bare : BOOLEAN]
      /\ server /\ WrongServers(x.server) # {} <=> t # x.server
  BY <1>1, <1>2, NodePorts DEF WrongServers, LegacyTargets
<1>6. /\ g.reply \in Replies /\ IsRedirect(g.reply) /\ g.reply.kind = k
      /\ g.reply.slot = s /\ g.reply.server = t
  BY <1>1, <1>3, <1>4, <1>5, ReplyTypes
<1>7. /\ "wrong_kind" \in g.applied <=> kind
      /\ "wrong_slot" \in g.applied <=> slot
      /\ "wrong_server" \in g.applied <=> server /\ WrongServers(x.server) # {}
      /\ "wild_slot" \in g.applied <=> wild
      /\ names \subseteq g.applied /\ g.applied \subseteq names \cup Mixed
  BY <1>1 DEF Mixed
<1> QED
  BY <1>3, <1>4, <1>5, <1>6, <1>7 DEF SaysWhat

\* A fault that Legacy makes of a reply.
MixedFault(g, reply) ==
    /\ g.reply \in Replies /\ IsRedirect(g.reply)
    /\ g.applied # {} /\ g.applied \subseteq Mixed \cup {"fake"}
    /\ IsRedirect(reply) => "fake" \notin g.applied /\ SaysWhat(g, reply)
    /\ ~IsRedirect(reply) => "fake" \in g.applied /\ g.reply.server \in LegacyTargets

\* A mutated redirection differs from the given one as the names it is recorded
\* under say.
LEMMA MutatedBySays ==
    ASSUME topology \in Topologies, NEW x \in Replies, IsRedirect(x),
           NEW names \in {{}, {"fake"}}, NEW draw \in SUBSET BOOLEAN,
           NEW g \in MutatedBy(draw, x, names)
    PROVE  /\ g.reply \in Replies /\ IsRedirect(g.reply)
           /\ names \subseteq g.applied /\ g.applied \subseteq names \cup Mixed
           /\ SaysWhat(g, x)
<1>1. PICK k \in BOOLEAN, s \in BOOLEAN, v \in BOOLEAN, w \in BOOLEAN :
          g \in Mutated(x, names, k, s, v, w)
  BY DEF MutatedBy
<1> QED
  BY <1>1, MutatedSays, ZenonT(60)

\* Without a focused redirection, what is done to a reply is what is recorded.
LEMMA LegacySays ==
    ASSUME topology \in Topologies, NEW c \in Conns, config[c] \in Configs,
           command[c] \in CommandRecords, NEW reply \in Replies, NEW g \in Legacy(c, reply)
    PROVE  g = NoFault \/ (config[c].redirect = Off /\ MixedFault(g, reply))
<1> SUFFICES ASSUME g # NoFault
             PROVE  config[c].redirect = Off /\ MixedFault(g, reply)
  OBVIOUS
<1>1. config[c].redirect = Off /\ g \in MixedFaults(c, reply) /\ g.applied # {}
  BY DEF Legacy
<1>2. PICK draw \in SUBSET BOOLEAN : draw = Draw(config[c].probability)
  <2>1. config[c].probability \in {"NEVER", "SOMETIMES", "ALWAYS"}
    BY DEF Configs
  <2>2. Draw(config[c].probability) \subseteq BOOLEAN
    BY <2>1 DEF Draw
  <2> QED
    BY <2>2, Zenon
<1>3. CASE IsRedirect(reply)
  <2>1. g \in MutatedBy(draw, reply, {})
    BY <1>1, <1>2, <1>3 DEF MixedFaults
  <2> QED
    BY <1>1, <1>3, <2>1, MutatedBySays DEF MixedFault, Mixed
<1>4. CASE ~IsRedirect(reply)
  <2>1. PICK x \in FakeRedirections(c) : g \in MutatedBy(draw, x, {"fake"})
    BY <1>1, <1>2, <1>4 DEF MixedFaults
  <2>2. PICK kind, slot, server :
            /\ x = Redirection(kind, slot, server) /\ kind \in {"MOVED", "ASK"}
            /\ server \in LegacyTargets
            /\ slot \in IF command[c].keys = << >> THEN Slots ELSE {command[c].keys[1]}
    BY <2>1 DEF FakeRedirections
  <2>3. slot \in RandomI32
    <3>1. command[c].keys \in Seq(Slots)
      BY DEF CommandRecords
    <3>2. slot \in Slots
      BY <2>2, <3>1
    <3> QED
      BY <3>2, SlotsAssumption DEF Slots, RandomI32
  <2>4. server \in [port : Nat, bare : BOOLEAN]
    BY <2>2, NodePorts DEF LegacyTargets
  <2>5. x \in Replies /\ IsRedirect(x) /\ x.server = server
    BY <2>2, <2>3, <2>4, ReplyTypes
  <2>6. /\ g.reply \in Replies /\ IsRedirect(g.reply)
        /\ {"fake"} \subseteq g.applied /\ g.applied \subseteq {"fake"} \cup Mixed
        /\ SaysWhat(g, x)
    BY <2>1, <2>5, MutatedBySays
  <2> QED
    BY <1>1, <1>4, <2>2, <2>5, <2>6 DEF MixedFault, SaysWhat
<1> QED
  BY <1>1, <1>3, <1>4

-----------------------------------------------------------------------------
(* The inductive invariant. *)

Stages == {"idle", "before", "forward", "after", "done"}

Types ==
    /\ topology \in Topologies /\ Conns \subseteq AllNodes
    /\ config \in [Conns -> Configs]
    /\ stale \subseteq Conns /\ command_ids \in 0..MaxIndex
    /\ pc \in [Conns -> Stages]
    /\ command \in [Conns -> CommandRecords]
    /\ executed \in [Conns -> BOOLEAN]
    /\ relay \in [Conns -> Replies]
    /\ answer \in [Conns -> Replies]
    /\ applied \in [Conns -> SUBSET ({"BEFORE", "AFTER", "fake"} \cup Mixed)]

\* What holds on the way to a reply: the upstream's redirections name listeners,
\* nothing is executed or injected before its time, and a command that is
\* forwarded was let through.
StageInv(c) ==
    /\ IsRedirect(relay[c]) => \E p \in AllNodes : relay[c].server = Addr(p)
    /\ pc[c] \in {"idle", "before", "forward"} =>
           ~executed[c] /\ relay[c] = Other("none") /\ applied[c] = {}
    /\ pc[c] = "after" => executed[c]
    /\ pc[c] \in {"forward", "after"} =>
           ~(config[c].mode = "RANDOM" /\ command[c].selected) /\ ~Due(c, "BEFORE")

ConnInv(c) ==
    /\ StageInv(c)
    /\ Focused(c) => AsAsked(c, answer[c])
    /\ ExecutedAsAsked(c)
    /\ CutoffAsAsked(c)
    /\ ~Ipv6 => StaysLocal(c) /\ Truthful(c)

IInv == Types /\ \A c \in Conns : ConnInv(c)

\* Nothing about connection c changes.
Same(c) ==
    /\ topology' = topology
    /\ config'[c] = config[c] /\ pc'[c] = pc[c] /\ command'[c] = command[c]
    /\ executed'[c] = executed[c] /\ relay'[c] = relay[c]
    /\ answer'[c] = answer[c] /\ applied'[c] = applied[c]

\* A step that leaves a connection alone keeps what holds of it.
LEMMA SameKeeps ==
    ASSUME NEW c, ConnInv(c), Same(c)
    PROVE  ConnInv(c)'
<1> USE DEF Same
<1>1. AllNodes' = AllNodes /\ Ranges' = Ranges
  BY DEF AllNodes, Ranges
<1>2. \A i, s : /\ Owns(i, s)' <=> Owns(i, s)
                /\ InRange(i, s)' <=> InRange(i, s)
                /\ Primary(i)' = Primary(i)
  BY DEF Owns, InRange, Primary
<1>3. StageInv(c)'
  BY <1>1 DEF ConnInv, StageInv, Due, Redirectable
<1>4. Focused(c)' <=> Focused(c)
  BY DEF Focused
<1>5. Focused(c) => AsAsked(c, answer[c])'
  BY <1>1, <1>2 DEF ConnInv, AsAsked
<1>6. ExecutedAsAsked(c)'
  BY DEF ConnInv, ExecutedAsAsked
<1>7. CutoffAsAsked(c)'
  BY <1>4 DEF ConnInv, CutoffAsAsked, Redirectable
<1>8. ~Ipv6 => StaysLocal(c)' /\ Truthful(c)'
  BY <1>1, <1>4 DEF ConnInv, StaysLocal, Truthful, Redirected
<1> QED
  BY <1>3, <1>4, <1>5, <1>6, <1>7, <1>8 DEF ConnInv

\* A connection that has no command, or has just read one.
LEMMA EarlyKeeps ==
    ASSUME NEW c, topology' = topology, pc'[c] \in {"idle", "before"}, ~executed'[c],
           relay'[c] = Other("none"), applied'[c] = {}
    PROVE  ConnInv(c)'
<1>1. ~IsRedirect(relay'[c])
  BY OtherTypes
<1>2. ~Focused(c)' /\ ~Redirected(c)'
  BY DEF Focused, Redirected
<1>3. StageInv(c)'
  BY <1>1 DEF StageInv
<1> QED
  BY <1>2, <1>3 DEF ConnInv, ExecutedAsAsked, CutoffAsAsked, StaysLocal, Truthful

-----------------------------------------------------------------------------
(* The invariant holds initially and is kept by every step. *)

\* The invariant holds before any command, whatever the settings.
LEMMA InitIInv ==
    ASSUME NEW configs \in SUBSET Configs, InitWith(configs)
    PROVE  IInv
<1>1. NoCommand \in CommandRecords
  BY DEF NoCommand, CommandRecords
<1>2. Other("none") \in Replies /\ ~IsRedirect(Other("none"))
  BY OtherTypes
<1>3. Types
  BY <1>1, <1>2, RedirectsAssumption DEF InitWith, Types, Stages
<1>4. ASSUME NEW c \in Conns PROVE ConnInv(c)
  <2>1. /\ pc[c] = "idle" /\ ~executed[c] /\ relay[c] = Other("none") /\ applied[c] = {}
    BY DEF InitWith
  <2>2. StageInv(c) /\ ~Focused(c) /\ ~Redirected(c)
    BY <1>2, <2>1 DEF StageInv, Focused, Redirected
  <2> QED
    BY <2>1, <2>2 DEF ConnInv, ExecutedAsAsked, CutoffAsAsked, StaysLocal, Truthful
<1> QED
  BY <1>3, <1>4 DEF IInv

\* A step that leaves the commands alone and changes settings of an idle connection.
LEMMA SettingsStep ==
    ASSUME IInv, NEW c \in Conns, pc[c] = "idle", UNCHANGED <<topology, Work>>,
           config' \in [Conns -> Configs], \A d \in Conns \ {c} : config'[d] = config[d],
           stale' \subseteq Conns, command_ids' \in 0..MaxIndex
    PROVE  IInv'
<1>1. Types'
  BY DEF IInv, Types, Work, AllNodes, Ranges
<1>2. ConnInv(c)'
  <2>1. StageInv(c)
    BY DEF IInv, ConnInv
  <2> QED
    BY <2>1, EarlyKeeps DEF StageInv, Work
<1>3. ASSUME NEW d \in Conns \ {c} PROVE ConnInv(d)'
  <2>1. ConnInv(d) /\ Same(d)
    BY DEF IInv, Same, Work
  <2> QED
    BY <2>1, SameKeeps
<1> QED
  BY <1>1, <1>2, <1>3 DEF IInv

\* A step of one connection.
LEMMA ConnStep ==
    ASSUME IInv, NEW c \in Conns, Types', ConnInv(c)', \A d \in Conns \ {c} : Same(d)
    PROVE  IInv'
<1>1. ASSUME NEW d \in Conns \ {c} PROVE ConnInv(d)'
  BY SameKeeps DEF IInv
<1> QED
  BY <1>1 DEF IInv

\* The settings.
LEMMA SettingsIInv ==
    ASSUME IInv, NEW c \in Conns,
           \/ \E p \in Probabilities, f \in Redirects \cup {Off} : SetTopology(c, p, f)
           \/ \E m \in {"OFF", "RANDOM"} : SetMode(c, m)
           \/ ModeReset(c) \/ Reconnect(c)
    PROVE  IInv'
<1>0. config \in [Conns -> Configs] /\ command_ids \in 0..MaxIndex /\ stale \subseteq Conns
      /\ MaxIndex \in Nat
  BY RedirectsAssumption DEF IInv, Types
<1>1. ASSUME NEW p \in Probabilities, NEW f \in Redirects \cup {Off}, SetTopology(c, p, f)
      PROVE  IInv'
  <2>1. p \in {"NEVER", "SOMETIMES", "ALWAYS"} /\ f \in RedirectConfigs \cup {Off}
    BY RedirectsAssumption
  <2>2. /\ config' \in [Conns -> Configs]
        /\ \A d \in Conns \ {c} : config'[d] = config[d]
    BY <1>0, <1>1, <2>1 DEF SetTopology, Configs
  <2> QED
    BY <1>0, <1>1, <2>2, SettingsStep DEF SetTopology, Open
<1>2. ASSUME NEW m \in {"OFF", "RANDOM"}, SetMode(c, m) PROVE IInv'
  <2>1. /\ config' \in [Conns -> Configs]
        /\ \A d \in Conns \ {c} : config'[d] = config[d]
    BY <1>0, <1>2 DEF SetMode, Configs
  <2> QED
    BY <1>0, <1>2, <2>1, SettingsStep DEF SetMode, Open
<1>3. CASE ModeReset(c)
  <2>1. /\ config' \in [Conns -> Configs]
        /\ \A d \in Conns \ {c} : config'[d] = config[d]
    BY <1>0, <1>3 DEF ModeReset, Configs
  <2> QED
    BY <1>0, <1>3, <2>1, SettingsStep DEF ModeReset, Open
<1>4. CASE Reconnect(c)
  <2>1. /\ config' \in [Conns -> Configs]
        /\ \A d \in Conns \ {c} : config'[d] = config[d]
    BY <1>0, <1>4 DEF Reconnect, Configs, DefaultConfig
  <2> QED
    BY <1>0, <1>4, <2>1, SettingsStep DEF Reconnect
<1> QED
  BY <1>1, <1>2, <1>3, <1>4

\* A step that touches no connection.
LEMMA ElsewhereIInv ==
    ASSUME IInv, UNCHANGED <<topology, config, Work>>, stale' \subseteq Conns,
           command_ids' \in 0..MaxIndex
    PROVE  IInv'
<1>1. Types'
  BY DEF IInv, Types, Work, AllNodes, Ranges
<1>2. ASSUME NEW d \in Conns PROVE ConnInv(d)'
  <2>1. ConnInv(d) /\ Same(d)
    BY DEF IInv, Same, Work
  <2> QED
    BY <2>1, SameKeeps
<1> QED
  BY <1>1, <1>2 DEF IInv

\* A command arrives.
LEMMA StartIInv ==
    ASSUME IInv, NEW c \in Conns, NEW keys \in Seq(Slots), NEW selected \in BOOLEAN,
           StartCommand(c, keys, selected)
    PROVE  IInv'
<1>1. Types /\ MaxIndex \in Nat /\ StageInv(c) /\ pc[c] = "idle"
  BY RedirectsAssumption DEF IInv, ConnInv, StartCommand, Open
<1>2. [index |-> command_ids, keys |-> keys, selected |-> selected] \in CommandRecords
  BY <1>1 DEF Types, CommandRecords
<1>3. Types'
  BY <1>1, <1>2 DEF Types, StartCommand, NextIndex, Stages, AllNodes, Ranges
<1>4. pc'[c] = "before" /\ UNCHANGED <<topology, executed, relay, applied>>
  BY <1>1 DEF Types, StartCommand
<1>5. ConnInv(c)'
  BY <1>1, <1>4, EarlyKeeps DEF StageInv
<1>6. \A d \in Conns \ {c} : Same(d)
  BY <1>1 DEF Types, StartCommand, Same
<1> QED
  BY <1>3, <1>5, <1>6, ConnStep

\* The connection is ready for its next command.
LEMMA FinishIInv ==
    ASSUME IInv, NEW c \in Conns, Finish(c)
    PROVE  IInv'
<1>1. Types /\ NoCommand \in CommandRecords /\ Other("none") \in Replies
  BY OtherTypes DEF IInv, NoCommand, CommandRecords
<1>2. Types'
  BY <1>1 DEF Types, Finish, Stages, AllNodes, Ranges
<1>3. /\ pc'[c] = "idle" /\ ~executed'[c] /\ relay'[c] = Other("none") /\ applied'[c] = {}
      /\ topology' = topology
  BY <1>1 DEF Types, Finish
<1>4. ConnInv(c)'
  BY <1>3, EarlyKeeps
<1>5. \A d \in Conns \ {c} : Same(d)
  BY <1>1 DEF Types, Finish, Same
<1> QED
  BY <1>2, <1>4, <1>5, ConnStep

Focuses(names) == names \cap {"BEFORE", "AFTER"} # {}

\* What the reply and the recorded mutations have to meet when a reply is decided.
SettledWell(c, reply, names) ==
    /\ Focuses(names) => AsAsked(c, reply)
    /\ reply.what # "unavailable" /\ Redirectable(c)
       /\ ~(config[c].redirect.phase = "AFTER" /\ config[c].mode = "RANDOM")
           => (Focuses(names) <=> command[c].index < config[c].redirect.until)
    /\ ~Ipv6 =>
        /\ IsRedirect(reply) /\ ~(Focuses(names) /\ config[c].redirect.target = "LITERAL")
               => \E p \in AllNodes : reply.server = Addr(p)
        /\ ~Focuses(names) =>
               /\ names = {} /\ executed'[c] /\ reply.what # "unavailable" => reply = relay[c]
               /\ "fake" \in names <=> (IsRedirect(reply) /\ ~IsRedirect(relay[c]))
               /\ IsRedirect(relay[c]) /\ IsRedirect(reply) =>
                      /\ "wrong_kind" \in names <=> reply.kind # relay[c].kind
                      /\ "wrong_server" \in names <=> reply.server.port # relay[c].server.port
                      /\ "wild_slot" \notin names =>
                             ("wrong_slot" \in names <=> reply.slot # relay[c].slot)

\* A command that is settled: the reply, the names recorded for it and whether
\* it was executed have to agree.
LEMMA SettledKeeps ==
    ASSUME IInv, NEW c \in Conns, NEW reply \in Replies,
           NEW names \in SUBSET ({"BEFORE", "AFTER", "fake"} \cup Mixed),
           Settle(c, reply, names), executed' \in [Conns -> BOOLEAN],
           \A d \in Conns \ {c} : executed'[d] = executed[d],
           UNCHANGED <<topology, config, stale, command_ids, command, relay>>,
           SettledWell(c, reply, names),
           IF "BEFORE" \in names THEN ~executed'[c]
           ELSE IF config[c].mode = "RANDOM" /\ command[c].selected THEN ~executed'[c]
           ELSE executed'[c] \/ reply.what = "unavailable"
    PROVE  IInv'
<1>1. Types
  BY DEF IInv
<1>2. /\ pc'[c] = "done" /\ answer'[c] = reply /\ applied'[c] = names
      /\ \A d \in Conns \ {c} : Same(d)
  BY <1>1 DEF Types, Settle, Same
<1>3. Types'
  BY <1>1 DEF Types, Settle, Stages, AllNodes, Ranges
<1>4. AllNodes' = AllNodes /\ Ranges' = Ranges
  BY DEF AllNodes, Ranges
<1>5. \A i, s : /\ Owns(i, s)' <=> Owns(i, s)
                /\ InRange(i, s)' <=> InRange(i, s)
                /\ Primary(i)' = Primary(i)
  BY DEF Owns, InRange, Primary
<1>6. Focused(c)' <=> Focuses(names)
  BY <1>2 DEF Focused, Focuses
<1>7. Redirected(c)' <=> IsRedirect(reply)
  BY <1>2 DEF Redirected
<1>8. Focused(c)' => AsAsked(c, answer[c])'
  BY <1>2, <1>4, <1>5, <1>6 DEF SettledWell, AsAsked
<1>9. ExecutedAsAsked(c)'
  BY <1>2 DEF ExecutedAsAsked
<1>10. Redirectable(c)' <=> Redirectable(c)
  BY DEF Redirectable
<1>11. CutoffAsAsked(c)'
  BY <1>2, <1>6, <1>10 DEF SettledWell, CutoffAsAsked
<1>12. ~Ipv6 => StaysLocal(c)'
  BY <1>2, <1>4, <1>6, <1>7 DEF SettledWell, StaysLocal
<1>13. ~Ipv6 => Truthful(c)'
  BY <1>2, <1>6, <1>7 DEF SettledWell, Truthful
<1>14. StageInv(c)'
  BY <1>2, <1>4 DEF StageInv, IInv, ConnInv
<1>15. ConnInv(c)'
  BY <1>8, <1>9, <1>11, <1>12, <1>13, <1>14 DEF ConnInv
<1> QED
  BY <1>2, <1>3, <1>15, ConnStep

\* A focused fault is a good reply.
LEMMA FocusedWell ==
    ASSUME IInv, NEW c \in Conns, NEW phase \in {"BEFORE", "AFTER"},
           NEW g \in Configured(c, phase), g # NoFault
    PROVE  SettledWell(c, g.reply, g.applied)
<1>1. topology \in Topologies /\ config[c] \in Configs /\ command[c] \in CommandRecords
  BY DEF IInv, Types
<1>2. /\ Applies(c, phase) /\ g.applied = {phase} /\ IsRedirect(g.reply)
      /\ AsAsked(c, g.reply)
      /\ config[c].redirect.target # "LITERAL" =>
             \E p \in AllNodes : g.reply.server = Addr(p)
  BY <1>1, ConfiguredFault
<1>3. Focuses(g.applied)
  BY <1>2 DEF Focuses
<1>4. config[c].redirect.until # Off => command[c].index < config[c].redirect.until
  BY <1>2 DEF Applies
<1> QED
  BY <1>2, <1>3, <1>4 DEF SettledWell, Redirectable

\* The phases of a redirection, when no focused fault was due.
LEMMA NotDue ==
    ASSUME NEW c \in Conns, config[c] \in Configs, Redirectable(c), ~Due(c, "BEFORE"),
           config[c].redirect.phase = "AFTER" => ~Due(c, "AFTER")
    PROVE  ~(command[c].index < config[c].redirect.until)
<1>1. config[c].redirect.phase \in {"BEFORE", "AFTER"}
  BY DEF Redirectable, Configs, RedirectConfigs
<1> QED
  BY <1>1 DEF Due

\* A mixed fault is a good reply.
LEMMA MixedWell ==
    ASSUME IInv, NEW c \in Conns, NEW g, MixedFault(g, relay[c]), config[c].redirect = Off
    PROVE  SettledWell(c, g.reply, g.applied)
<1>1. Types /\ StageInv(c)
  BY DEF IInv, ConnInv
<1>2. ~Focuses(g.applied) /\ IsRedirect(g.reply) /\ g.applied # {} /\ ~Redirectable(c)
  BY DEF MixedFault, Focuses, Mixed, Redirectable
<1>3. ASSUME ~Ipv6
      PROVE  /\ \E p \in AllNodes : g.reply.server = Addr(p)
             /\ IsRedirect(relay[c]) =>
                    (g.reply.server # relay[c].server
                         <=> g.reply.server.port # relay[c].server.port)
  <2>1. ASSUME NEW t \in LegacyTargets PROVE \E p \in AllNodes : t = Addr(p)
    <3>1. PICK p \in PrimarySet : t = Bare(p)
      BY DEF LegacyTargets
    <3>2. Bare(p) = Addr(p)
      <4>1. Ipv6 = FALSE
        BY <1>3, AddressesAssumption, Zenon
      <4> QED
        BY <4>1, Zenon DEF Bare, Addr
    <3> QED
      BY <1>1, <3>1, <3>2, NodePorts DEF Types
  <2>2. PICK p \in AllNodes : g.reply.server = Addr(p)
    <3>1. CASE IsRedirect(relay[c])
      BY <1>1, <2>1, <3>1 DEF MixedFault, SaysWhat, StageInv
    <3>2. CASE ~IsRedirect(relay[c])
      BY <2>1, <3>2 DEF MixedFault
    <3> QED
      BY <3>1, <3>2
  <2>3. ASSUME IsRedirect(relay[c])
        PROVE  g.reply.server # relay[c].server
                   <=> g.reply.server.port # relay[c].server.port
    <3>1. PICK q \in AllNodes : relay[c].server = Addr(q)
      BY <1>1, <2>3 DEF StageInv
    <3>2. Addr(p).port = p /\ Addr(q).port = q
      BY <1>1, NodePorts DEF Types
    <3> QED
      BY <2>2, <3>1, <3>2
  <2> QED
    BY <2>2, <2>3
<1> QED
  BY <1>2, <1>3 DEF SettledWell, MixedFault, SaysWhat

\* The unchanged reply is a good one.
LEMMA PlainWell ==
    ASSUME IInv, NEW c \in Conns, ~Due(c, "BEFORE"),
           config[c].redirect.phase = "AFTER" => ~Due(c, "AFTER")
    PROVE  SettledWell(c, relay[c], {})
<1>1. Types /\ StageInv(c)
  BY DEF IInv, ConnInv
<1>2. Redirectable(c) => ~(command[c].index < config[c].redirect.until)
  BY <1>1, NotDue DEF Types
<1> QED
  BY <1>1, <1>2 DEF SettledWell, Focuses, StageInv

\* A reply of evilresp's own is a good one where none of the upstream is there.
LEMMA OwnWell ==
    ASSUME IInv, NEW c \in Conns, NEW what \in {"generated", "unavailable"},
           ~IsRedirect(relay[c]), what = "generated" => ~executed'[c] /\ ~Due(c, "BEFORE"),
           config[c].redirect.phase = "AFTER" =>
               what = "unavailable" \/ config[c].mode = "RANDOM"
    PROVE  SettledWell(c, Other(what), {})
<1>1. Types /\ ~IsRedirect(Other(what)) /\ Other(what).what = what
  BY OtherTypes DEF IInv
<1>2. Redirectable(c) /\ ~Due(c, "BEFORE") /\ config[c].redirect.phase # "AFTER"
          => ~(command[c].index < config[c].redirect.until)
  BY <1>1, NotDue DEF Types
<1> QED
  BY <1>1, <1>2 DEF SettledWell, Focuses

\* The decision before the command is forwarded.
LEMMA DecideIInv ==
    ASSUME IInv, NEW c \in Conns, Decide(c)
    PROVE  IInv'
<1>1. Types /\ StageInv(c) /\ pc[c] = "before" /\ c \in AllNodes
      /\ topology \in Topologies /\ config[c] \in Configs /\ command[c] \in CommandRecords
  BY DEF IInv, ConnInv, Types, Decide
<1>2. /\ executed' = executed /\ ~executed[c] /\ relay[c] = Other("none")
      /\ executed \in [Conns -> BOOLEAN] /\ applied[c] = {}
      /\ UNCHANGED <<topology, config, stale, command_ids, command, relay>>
  BY <1>1 DEF Decide, StageInv, Types
<1>3. ~IsRedirect(relay[c]) /\ relay[c] \in Replies
  BY <1>1, <1>2, OtherTypes DEF Types
<1>4. PICK f : /\ f \in IF command[c].selected THEN Configured(c, "BEFORE") ELSE {NoFault}
               /\ \/ f # NoFault /\ Settle(c, f.reply, f.applied)
                  \/ /\ f = NoFault /\ config[c].mode = "RANDOM" /\ command[c].selected
                     /\ \E g \in Legacy(c, Other("none")) :
                            Settle(c, IF g = NoFault THEN Other("generated") ELSE g.reply,
                                   g.applied)
                  \/ /\ f = NoFault /\ ~(config[c].mode = "RANDOM" /\ command[c].selected)
                     /\ pc' = [pc EXCEPT ![c] = "forward"]
                     /\ UNCHANGED <<answer, applied>>
  BY DEF Decide
<1>5. CASE f # NoFault /\ Settle(c, f.reply, f.applied)
  <2>1. f \in Configured(c, "BEFORE")
    BY <1>4, <1>5
  <2>2. f.reply \in Replies /\ f.applied = {"BEFORE"}
    BY <1>1, <1>5, <2>1, ConfiguredFault
  <2>3. SettledWell(c, f.reply, f.applied)
    BY <1>5, <2>1, FocusedWell
  <2> QED
    BY <1>2, <1>5, <2>2, <2>3, SettledKeeps
<1>6. ASSUME f = NoFault, config[c].mode = "RANDOM", command[c].selected,
             NEW g \in Legacy(c, Other("none")),
             Settle(c, IF g = NoFault THEN Other("generated") ELSE g.reply, g.applied)
      PROVE  IInv'
  <2>1. ~Due(c, "BEFORE")
    BY <1>1, <1>4, <1>6, DueIsInjected
  <2>2. CASE g = NoFault
    <3>1. g.applied = {}
      BY <2>2 DEF NoFault
    <3>2. SettledWell(c, Other("generated"), {})
      BY <1>2, <1>3, <1>6, <2>1, OwnWell
    <3>3. Other("generated") \in Replies
      BY OtherTypes
    <3> QED
      BY <1>2, <1>6, <2>2, <3>1, <3>2, <3>3, SettledKeeps
  <2>3. CASE g # NoFault
    <3>1. config[c].redirect = Off /\ MixedFault(g, relay[c])
      BY <1>1, <1>2, <1>3, <1>6, <2>3, LegacySays
    <3>2. SettledWell(c, g.reply, g.applied)
      BY <3>1, MixedWell
    <3>3. /\ g.reply \in Replies /\ g.applied \subseteq Mixed \cup {"fake"}
          /\ "BEFORE" \notin g.applied
      BY <3>1 DEF MixedFault, Mixed
    <3> QED
      BY <1>2, <1>6, <2>3, <3>2, <3>3, SettledKeeps
  <2> QED
    BY <2>2, <2>3
<1>7. ASSUME f = NoFault, ~(config[c].mode = "RANDOM" /\ command[c].selected),
             pc' = [pc EXCEPT ![c] = "forward"], UNCHANGED <<answer, applied>>
      PROVE  IInv'
  <2>1. ~Due(c, "BEFORE")
    <3>1. CASE command[c].selected
      BY <1>1, <1>4, <1>7, <3>1, DueIsInjected
    <3>2. CASE ~command[c].selected
      BY <3>2 DEF Due, Redirectable
    <3> QED
      BY <3>1, <3>2
  <2>2. pc'[c] = "forward" /\ \A d \in Conns \ {c} : Same(d)
    BY <1>1, <1>2, <1>7 DEF Types, Same
  <2>3. Types'
    BY <1>1, <1>2, <1>7 DEF Types, Stages, AllNodes, Ranges
  <2>4. StageInv(c)'
    BY <1>2, <1>3, <1>7, <2>1, <2>2 DEF StageInv, Due, Redirectable
  <2>5. ConnInv(c)'
    BY <2>2, <2>4
       DEF ConnInv, Focused, Redirected, ExecutedAsAsked, CutoffAsAsked, StaysLocal, Truthful
  <2> QED
    BY <2>2, <2>3, <2>5, ConnStep
<1> QED
  BY <1>4, <1>5, <1>6, <1>7

\* The command is executed upstream.
LEMMA ForwardIInv ==
    ASSUME IInv, NEW c \in Conns, NEW reply \in Relays, Forward(c, reply)
    PROVE  IInv'
<1>1. Types /\ StageInv(c) /\ pc[c] = "forward" /\ topology \in Topologies
  BY DEF IInv, ConnInv, Forward, Types
<1>2. /\ reply \in Replies
      /\ IsRedirect(reply) => \E p \in AllNodes : reply.server = Addr(p)
  <2>1. CASE reply \in {Other("value"), Other("no_listener")}
    BY <2>1, OtherTypes
  <2>2. CASE reply \notin {Other("value"), Other("no_listener")}
    <3>1. PICK kind \in {"MOVED", "ASK"}, slot \in Slots, p \in AllNodes :
              reply = Redirection(kind, slot, Addr(p))
      BY <2>2 DEF Relays
    <3>2. slot \in RandomI32 /\ Addr(p) \in [port : Nat, bare : BOOLEAN]
      BY <1>1, <3>1, NodePorts, SlotsAssumption DEF Slots, RandomI32
    <3> QED
      BY <3>1, <3>2, ReplyTypes
  <2> QED
    BY <2>1, <2>2
<1>3. Types'
  BY <1>1, <1>2 DEF Types, Forward, Stages, AllNodes, Ranges
<1>4. /\ pc'[c] = "after" /\ executed'[c] /\ relay'[c] = reply
      /\ UNCHANGED <<topology, config, command>>
      /\ \A d \in Conns \ {c} : Same(d)
  BY <1>1 DEF Types, Forward, Same
<1>5. AllNodes' = AllNodes
  BY <1>4 DEF AllNodes, Ranges
<1>6. StageInv(c)'
  BY <1>1, <1>2, <1>4, <1>5 DEF StageInv, Due, Redirectable
<1>7. ConnInv(c)'
  BY <1>4, <1>6
     DEF ConnInv, Focused, Redirected, ExecutedAsAsked, CutoffAsAsked, StaysLocal, Truthful
<1> QED
  BY <1>3, <1>4, <1>7, ConnStep

\* There is no upstream for the command.
LEMMA UnavailableIInv ==
    ASSUME IInv, NEW c \in Conns, Unavailable(c)
    PROVE  IInv'
<1>1. Types /\ StageInv(c) /\ pc[c] = "forward"
  BY DEF IInv, ConnInv, Unavailable
<1>2. /\ executed' \in [Conns -> BOOLEAN]
      /\ \A d \in Conns \ {c} : executed'[d] = executed[d]
      /\ UNCHANGED <<topology, config, stale, command_ids, command, relay>>
      /\ Settle(c, Other("unavailable"), {})
  BY <1>1 DEF Unavailable, Types
<1>3. /\ relay[c] = Other("none") /\ ~(config[c].mode = "RANDOM" /\ command[c].selected)
      /\ ~Due(c, "BEFORE")
  BY <1>1 DEF StageInv
<1>4. ~IsRedirect(relay[c]) /\ Other("unavailable") \in Replies
      /\ Other("unavailable").what = "unavailable"
  BY <1>3, OtherTypes
<1>5. SettledWell(c, Other("unavailable"), {})
  BY <1>4, OwnWell
<1> QED
  BY <1>2, <1>3, <1>4, <1>5, SettledKeeps

\* The decision after the reply is there.
LEMMA AfterIInv ==
    ASSUME IInv, NEW c \in Conns, After(c)
    PROVE  IInv'
<1>1. Types /\ StageInv(c) /\ pc[c] = "after" /\ c \in AllNodes
      /\ topology \in Topologies /\ config[c] \in Configs /\ command[c] \in CommandRecords
      /\ relay[c] \in Replies
  BY DEF IInv, ConnInv, Types, After
<1>2. /\ executed' = executed /\ executed[c] /\ executed \in [Conns -> BOOLEAN]
      /\ UNCHANGED <<topology, config, stale, command_ids, command, relay>>
      /\ ~(config[c].mode = "RANDOM" /\ command[c].selected) /\ ~Due(c, "BEFORE")
  BY <1>1 DEF After, StageInv, Types
<1>3. PICK f : /\ f \in IF ~command[c].selected THEN {NoFault}
                        ELSE IF config[c].redirect # Off THEN Configured(c, "AFTER")
                        ELSE Legacy(c, relay[c])
               /\ Settle(c, IF f = NoFault THEN relay[c] ELSE f.reply, f.applied)
  BY DEF After
<1>4. CASE f = NoFault
  <2>1. f.applied = {}
    BY <1>4 DEF NoFault
  <2>2. config[c].redirect.phase = "AFTER" => ~Due(c, "AFTER")
    <3>1. CASE command[c].selected /\ config[c].redirect # Off
      BY <1>1, <1>3, <1>4, <3>1, DueIsInjected
    <3>2. CASE ~(command[c].selected /\ config[c].redirect # Off)
      BY <3>2 DEF Due, Redirectable
    <3> QED
      BY <3>1, <3>2
  <2>3. SettledWell(c, relay[c], {})
    BY <1>2, <2>2, PlainWell
  <2> QED
    BY <1>1, <1>2, <1>3, <1>4, <2>1, <2>3, SettledKeeps
<1>5. CASE f # NoFault /\ config[c].redirect # Off
  <2>1. f \in Configured(c, "AFTER")
    BY <1>3, <1>5
  <2>2. f.reply \in Replies /\ f.applied = {"AFTER"}
    BY <1>1, <1>5, <2>1, ConfiguredFault
  <2>3. SettledWell(c, f.reply, f.applied)
    BY <1>5, <2>1, FocusedWell
  <2> QED
    BY <1>2, <1>3, <1>5, <2>2, <2>3, SettledKeeps
<1>6. CASE f # NoFault /\ config[c].redirect = Off
  <2>1. f \in Legacy(c, relay[c])
    BY <1>3, <1>6
  <2>2. MixedFault(f, relay[c])
    BY <1>1, <1>6, <2>1, LegacySays
  <2>3. SettledWell(c, f.reply, f.applied)
    BY <1>6, <2>2, MixedWell
  <2>4. /\ f.reply \in Replies /\ f.applied \subseteq Mixed \cup {"fake"}
        /\ "BEFORE" \notin f.applied
    BY <2>2 DEF MixedFault, Mixed
  <2> QED
    BY <1>2, <1>3, <1>6, <2>3, <2>4, SettledKeeps
<1> QED
  BY <1>4, <1>5, <1>6

\* Every step keeps the invariant.
LEMMA NextIInv == IInv /\ [Next]_vars => IInv'
<1> SUFFICES ASSUME IInv, [Next]_vars PROVE IInv'
  OBVIOUS
<1>1. MaxIndex \in Nat /\ command_ids \in 0..MaxIndex /\ stale \subseteq Conns
  BY RedirectsAssumption DEF IInv, Types
<1>2. CASE ResetElsewhere
  BY <1>1, <1>2, ElsewhereIInv DEF ResetElsewhere
<1>3. ASSUME NEW c \in Conns, NEW p \in Probabilities, NEW f \in Redirects \cup {Off},
             SetTopology(c, p, f)
      PROVE  IInv'
  BY <1>3, SettingsIInv
<1>4. ASSUME NEW c \in Conns, NEW m \in {"OFF", "RANDOM"}, SetMode(c, m) PROVE IInv'
  BY <1>4, SettingsIInv
<1>5. ASSUME NEW c \in Conns, ModeReset(c) \/ Reconnect(c) PROVE IInv'
  BY <1>5, SettingsIInv
<1>6. ASSUME NEW c \in Conns, NEW keys \in KeyLists, StartCommand(c, keys, TRUE) PROVE IInv'
  <2>1. keys \in Seq(Slots)
    <3>1. 0 \in Slots /\ 1 \in Slots
      BY SlotsAssumption DEF Slots
    <3>2. << >> \in Seq(Slots) /\ <<1, 0>> \in Seq(Slots)
      BY <3>1
    <3>3. \A s \in Slots : <<s>> \in Seq(Slots)
      OBVIOUS
    <3> QED
      BY <3>2, <3>3, Zenon DEF KeyLists
  <2> QED
    BY <1>6, <2>1, StartIInv, Zenon
<1>7. ASSUME NEW c \in Conns, StartCommand(c, << >>, FALSE) PROVE IInv'
  <2>1. << >> \in Seq(Slots)
    OBVIOUS
  <2> QED
    BY <1>7, <2>1, StartIInv, Zenon
<1>8. ASSUME NEW c \in Conns, NEW reply \in Relays, Forward(c, reply) PROVE IInv'
  BY <1>8, ForwardIInv
<1>9. ASSUME NEW c \in Conns, Decide(c) \/ Unavailable(c) \/ After(c) \/ Finish(c)
      PROVE  IInv'
  BY <1>9, DecideIInv, UnavailableIInv, AfterIInv, FinishIInv
<1>10. CASE UNCHANGED vars
  BY <1>1, <1>10, ElsewhereIInv DEF vars, Work
<1> QED
  BY <1>2, <1>3, <1>4, <1>5, <1>6, <1>7, <1>8, <1>9, <1>10 DEF Next

\* The settings that connections start with.
LEMMA InitDefault == Init => IInv
<1>1. {DefaultConfig} \in SUBSET Configs
  BY DEF DefaultConfig, Configs
<1> QED
  BY <1>1, InitIInv DEF Init

-----------------------------------------------------------------------------
(* What clients may rely on, for every topology, every setting and any number *)
(* of connections.                                                            *)

\* Replies, those relayed and those made up, are well formed, and the stages of
\* commands and the settings stay within their types.
THEOREM TypeCorrect == Spec => []TypeOK
<1>1. IInv => TypeOK
  BY DEF IInv, Types, TypeOK, Configs, Stages
<1> QED
  BY <1>1, InitDefault, NextIInv, PTL DEF Spec

\* Commands are executed upstream exactly when the settings say so: not under a
\* BEFORE redirection and not in MODE RANDOM, otherwise unless the session fails.
THEOREM ExecutionCorrect == Spec => []ExecutionAsAsked
<1>1. IInv => ExecutionAsAsked
  BY DEF IInv, ConnInv, ExecutionAsAsked
<1> QED
  BY <1>1, InitDefault, NextIInv, PTL DEF Spec

\* The cutoff UNTIL is exact, also with commands of other connections in between.
THEOREM CutoffCorrect == Spec => []CutoffExact
<1>1. IInv => CutoffExact
  BY DEF IInv, ConnInv, CutoffExact
<1> QED
  BY <1>1, InitDefault, NextIInv, PTL DEF Spec

\* Without IPv6 addresses a focused redirection names what was asked for, and no
\* redirection but a literal one leads out of evilresp.
THEOREM FocusedCorrect == ASSUME ~Ipv6 PROVE Spec => []FocusedAsAsked
<1>1. IInv => FocusedAsAsked
  BY DEF IInv, ConnInv, FocusedAsAsked
<1> QED
  BY <1>1, InitDefault, NextIInv, PTL DEF Spec

\* Without IPv6 addresses the mutations recorded are the ones that were made.
THEOREM MutationsCorrect == ASSUME ~Ipv6 PROVE Spec => []MutationsTruthful
<1>1. IInv => MutationsTruthful
  BY DEF IInv, ConnInv, MutationsTruthful
<1> QED
  BY <1>1, InitDefault, NextIInv, PTL DEF Spec

-----------------------------------------------------------------------------
(* The bounce: one request in flight, executed once. *)

\* Nothing is injected that is not a redirection.
LEMMA ConfiguredRedirects ==
    ASSUME NEW c, NEW phase, NEW g \in Configured(c, phase), g # NoFault
    PROVE  IsRedirect(g.reply)
<1>1. PICK y \in FocusedRedirections(c) : g = Fault(y, {config[c].redirect.phase})
  BY DEF Configured
<1>2. PICK kind, slot, server : y = Redirection(kind, slot, server)
  BY <1>1 DEF FocusedRedirections
<1> QED
  BY <1>1, <1>2 DEF Fault, Redirection, IsRedirect

BounceTypes ==
    /\ bounce \in RedirectConfigs \ {Off}
    /\ config \in [Conns -> Configs] /\ pc \in [Conns -> Stages]
    /\ DOMAIN relay = Conns /\ DOMAIN answer = Conns
    /\ served \in BOOLEAN

\* The connections have the settings of the experiment, or none.
Unaltered ==
    \A c \in Conns :
        /\ config[c].mode = "OFF"
        /\ \/ config[c].redirect = bounce
           \/ config[c].redirect = Off /\ config[c].probability = "NEVER"

AllIdle == \A c \in Conns : pc[c] = "idle"

\* The request is at one connection, and as long as it was only redirected it
\* was not executed.
RunsInv ==
    /\ \A c \in Conns : pc[c] # "idle" => c = at
    /\ served => AllIdle /\ runs = 1
    /\ AllIdle /\ ~served => runs = 0
    /\ \A c \in Conns :
           /\ pc[c] \in {"before", "forward"} => runs = 0
           /\ pc[c] = "after" => runs = IF IsRedirect(relay[c]) THEN 0 ELSE 1
           /\ pc[c] = "done" => runs = IF IsRedirect(answer[c]) THEN 0 ELSE 1

BounceInv == BounceTypes /\ Unaltered /\ (bounce.phase = "BEFORE" => RunsInv)

\* Nobody has been redirected at the start.
LEMMA InitBounceInv == BounceInit => BounceInv
<1> SUFFICES ASSUME BounceInit PROVE BounceInv
  OBVIOUS
<1>1. bounce \in RedirectConfigs \ {Off}
  BY BouncesAssumption DEF BounceInit
<1>2. config \in [Conns -> {[mode |-> "OFF", probability |-> "ALWAYS", redirect |-> bounce]}]
  BY DEF BounceInit, InitWith
<1>3. BounceTypes
  <2>1. \A c \in Conns : config[c] \in Configs
    BY <1>1, <1>2 DEF Configs
  <2>2. config \in [Conns -> Configs]
    BY <1>2, <2>1
  <2>3. /\ pc \in [Conns -> Stages] /\ DOMAIN relay = Conns /\ DOMAIN answer = Conns
    BY DEF BounceInit, InitWith, Stages
  <2>4. served \in BOOLEAN
    BY DEF BounceInit
  <2> QED
    BY <1>1, <2>2, <2>3, <2>4 DEF BounceTypes
<1>4. Unaltered
  BY <1>2 DEF Unaltered
<1>5. RunsInv
  BY DEF BounceInit, InitWith, RunsInv, AllIdle
<1> QED
  BY <1>3, <1>4, <1>5 DEF BounceInv

\* With the settings of the experiment, what is injected before forwarding is a
\* redirection, and nothing is injected after.
LEMMA DecideRedirects ==
    ASSUME BounceInv, NEW c \in Conns, Decide(c)
    PROVE  /\ pc[c] = "before" /\ UNCHANGED <<config, relay>>
           /\ \/ pc' = [pc EXCEPT ![c] = "forward"] /\ answer' = answer
              \/ \E x : /\ pc' = [pc EXCEPT ![c] = "done"]
                        /\ answer' = [answer EXCEPT ![c] = x] /\ IsRedirect(x)
<1>1. config[c].mode # "RANDOM"
  BY DEF BounceInv, Unaltered
<1>2. PICK f : /\ f \in IF command[c].selected THEN Configured(c, "BEFORE") ELSE {NoFault}
               /\ \/ f # NoFault /\ Settle(c, f.reply, f.applied)
                  \/ /\ f = NoFault
                     /\ pc' = [pc EXCEPT ![c] = "forward"] /\ answer' = answer
  BY <1>1 DEF Decide
<1>3. f # NoFault => IsRedirect(f.reply)
  BY <1>2, ConfiguredRedirects
<1> QED
  BY <1>2, <1>3 DEF Decide, Settle

\* When redirections come before execution, an executed command has the reply of
\* the upstream.
LEMMA AfterRelays ==
    ASSUME BounceInv, bounce.phase = "BEFORE", NEW c \in Conns, After(c)
    PROVE  /\ pc[c] = "after" /\ UNCHANGED <<config, relay>>
           /\ pc' = [pc EXCEPT ![c] = "done"]
           /\ answer' = [answer EXCEPT ![c] = relay[c]]
<1>1. config[c].redirect # Off => Configured(c, "AFTER") = {NoFault}
  BY DEF BounceInv, Unaltered, Configured, Applies
<1>2. config[c].redirect = Off => Legacy(c, relay[c]) = {NoFault}
  BY DEF BounceInv, BounceTypes, Unaltered, Legacy
<1> QED
  BY <1>1, <1>2 DEF After, Settle

\* Every step of the client and of the proxies keeps the invariant.
LEMMA NextBounceInv == BounceInv /\ [BounceNext]_bounceVars => BounceInv'
<1> SUFFICES ASSUME BounceInv, [BounceNext]_bounceVars PROVE BounceInv'
  OBVIOUS
<1>0. BounceTypes /\ Unaltered
  BY DEF BounceInv
<1>1. CASE Send
  <2>1. /\ UNCHANGED <<config, relay, answer, bounce, at, served, runs>>
        /\ ~served /\ pc[at] = "idle" /\ pc' = [pc EXCEPT ![at] = "before"]
    BY <1>1 DEF Send, StartCommand, Open
  <2>2. BounceTypes' /\ Unaltered'
    BY <1>0, <2>1 DEF BounceTypes, Unaltered, Stages
  <2>3. ASSUME RunsInv PROVE RunsInv'
    <3>1. AllIdle /\ runs = 0
      BY <2>1, <2>3 DEF RunsInv, AllIdle
    <3>2. \A c \in Conns : pc'[c] = IF c = at THEN "before" ELSE "idle"
      BY <1>0, <2>1, <3>1 DEF BounceTypes, AllIdle
    <3> QED
      BY <2>1, <3>1, <3>2 DEF RunsInv, AllIdle
  <2> QED
    BY <2>1, <2>2, <2>3 DEF BounceInv
<1>2. ASSUME NEW c \in Conns, Inject(c), Decide(c) PROVE BounceInv'
  <2>1. UNCHANGED <<bounce, at, served, runs>>
    BY <1>2 DEF Inject
  <2>2. /\ pc[c] = "before" /\ UNCHANGED <<config, relay>>
        /\ \/ pc' = [pc EXCEPT ![c] = "forward"] /\ answer' = answer
           \/ \E x : /\ pc' = [pc EXCEPT ![c] = "done"]
                     /\ answer' = [answer EXCEPT ![c] = x] /\ IsRedirect(x)
    BY <1>2, DecideRedirects
  <2>3. BounceTypes' /\ Unaltered'
    BY <1>0, <2>1, <2>2 DEF BounceTypes, Unaltered, Stages
  <2>4. ASSUME RunsInv PROVE RunsInv'
    BY <1>0, <2>1, <2>2, <2>4 DEF BounceTypes, RunsInv, AllIdle
  <2> QED
    BY <2>1, <2>3, <2>4 DEF BounceInv
<1>3. ASSUME NEW c \in Conns, Inject(c), After(c) PROVE BounceInv'
  <2>1. UNCHANGED <<bounce, at, served, runs, config, relay>>
    BY <1>3 DEF Inject, After
  <2>2. pc' = [pc EXCEPT ![c] = "done"] /\ DOMAIN answer' = DOMAIN answer
    BY <1>3 DEF After, Settle
  <2>3. BounceTypes' /\ Unaltered'
    BY <1>0, <2>1, <2>2 DEF BounceTypes, Unaltered, Stages
  <2>4. ASSUME RunsInv, bounce.phase = "BEFORE" PROVE RunsInv'
    <3>1. pc[c] = "after" /\ answer' = [answer EXCEPT ![c] = relay[c]]
      BY <1>3, <2>4, AfterRelays
    <3> QED
      BY <1>0, <2>1, <2>2, <2>4, <3>1 DEF BounceTypes, RunsInv, AllIdle
  <2> QED
    BY <2>1, <2>3, <2>4 DEF BounceInv
<1>4. ASSUME NEW c \in Conns, Exchange(c) PROVE BounceInv'
  <2>1. UNCHANGED <<bounce, at, served, config, answer>>
    BY <1>4 DEF Exchange, Forward
  <2>2. PICK x : /\ pc[c] = "forward" /\ pc' = [pc EXCEPT ![c] = "after"]
                 /\ relay' = [relay EXCEPT ![c] = x]
                 /\ \/ ~IsRedirect(x) /\ runs' = runs + 1
                    \/ IsRedirect(x) /\ runs' = runs
    <3>1. ~IsRedirect(Other("value"))
      BY OtherTypes
    <3>2. \A s, t : IsRedirect(Redirection("MOVED", s, t))
      BY DEF IsRedirect, Redirection
    <3> QED
      BY <1>4, <3>1, <3>2 DEF Exchange, Forward
  <2>3. BounceTypes' /\ Unaltered'
    BY <1>0, <2>1, <2>2 DEF BounceTypes, Unaltered, Stages
  <2>4. ASSUME RunsInv PROVE RunsInv'
    BY <1>0, <2>1, <2>2, <2>4 DEF BounceTypes, RunsInv, AllIdle
  <2> QED
    BY <2>1, <2>3, <2>4 DEF BounceInv
<1>5. ASSUME NEW c \in Conns, Follow(c) PROVE BounceInv'
  <2>1. /\ UNCHANGED <<bounce, runs, config>> /\ pc[c] = "done"
        /\ pc' = [pc EXCEPT ![c] = "idle"]
        /\ DOMAIN relay' = DOMAIN relay /\ DOMAIN answer' = DOMAIN answer
        /\ \/ IsRedirect(answer[c]) /\ served' = served
           \/ ~IsRedirect(answer[c]) /\ served' = TRUE
    BY <1>5 DEF Follow, Finish
  <2>2. BounceTypes' /\ Unaltered'
    BY <1>0, <2>1 DEF BounceTypes, Unaltered, Stages
  <2>3. ASSUME RunsInv PROVE RunsInv'
    <3>1. \A d \in Conns : pc'[d] = "idle"
      BY <1>0, <2>1, <2>3 DEF BounceTypes, RunsInv
    <3>2. ~served /\ runs = IF IsRedirect(answer[c]) THEN 0 ELSE 1
      BY <2>1, <2>3 DEF RunsInv, AllIdle
    <3> QED
      BY <2>1, <3>1, <3>2 DEF RunsInv, AllIdle
  <2> QED
    BY <2>1, <2>2, <2>3 DEF BounceInv
<1>6. ASSUME NEW c \in Conns, Reopen(c) \/ OwnReset(c) PROVE BounceInv'
  <2>1. /\ UNCHANGED <<bounce, at, served, runs, pc, relay, answer>>
        /\ \/ config' = [config EXCEPT ![c] = DefaultConfig]
           \/ config' = [config EXCEPT ![c].mode = "OFF"]
    BY <1>6 DEF Reopen, OwnReset, Reconnect, ModeReset, Work
  <2>2. BounceTypes' /\ Unaltered'
    <3>1. DefaultConfig \in Configs
      BY DEF DefaultConfig, Configs
    <3>2. config' \in [Conns -> Configs]
      BY <1>0, <2>1, <3>1 DEF BounceTypes, Configs
    <3>3. Unaltered'
      BY <1>0, <2>1 DEF BounceTypes, Configs, Unaltered, DefaultConfig
    <3> QED
      BY <1>0, <2>1, <3>2, <3>3 DEF BounceTypes
  <2> QED
    BY <2>1, <2>2 DEF BounceInv, RunsInv, AllIdle
<1>7. CASE OtherCommand \/ OtherReset \/ UNCHANGED bounceVars
  <2>1. UNCHANGED <<bounce, at, served, runs, config, pc, relay, answer>>
    BY <1>7 DEF OtherCommand, OtherReset, CommandElsewhere, ResetElsewhere, Work,
                bounceVars, vars
  <2> QED
    BY <2>1 DEF BounceInv, BounceTypes, Unaltered, RunsInv, AllIdle
<1> QED
  BY <1>1, <1>2, <1>3, <1>4, <1>5, <1>6, <1>7 DEF BounceNext, BounceStep, Inject

\* However often a request was redirected before it is forwarded, and whatever
\* other clients and resets do, the upstream executes it once.
THEOREM BounceExecutesOnce == BounceSpec => []ExecutedOnce
<1>1. BounceInv => ExecutedOnce
  <2> SUFFICES ASSUME BounceInv, bounce.phase = "BEFORE"
               PROVE  /\ served => runs = 1
                      /\ runs <= 1
                      /\ \A c \in Conns : pc[c] \in {"before", "forward"} => runs = 0
    BY DEF ExecutedOnce
  <2>1. RunsInv
    BY DEF BounceInv
  <2>2. runs \in {0, 1}
    <3>1. CASE AllIdle
      BY <2>1, <3>1 DEF RunsInv
    <3>2. CASE ~AllIdle
      <4>1. PICK c \in Conns : pc[c] # "idle"
        BY <3>2 DEF AllIdle
      <4>2. pc[c] \in {"before", "forward", "after", "done"}
        BY <4>1 DEF BounceInv, BounceTypes, Stages
      <4> QED
        BY <2>1, <4>2 DEF RunsInv
    <3> QED
      BY <3>1, <3>2
  <2> QED
    BY <2>1, <2>2 DEF RunsInv
<1> QED
  BY <1>1, InitBounceInv, NextBounceInv, PTL DEF BounceSpec
=============================================================================
