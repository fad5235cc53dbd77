-------------------------- MODULE TopologyRedirect --------------------------
(***************************************************************************)
(* Injected redirections in front of a cluster (src/src/topology_evil.rs,  *)
(* topology_config.rs and their places in proxy_connection): the focused   *)
(* faults of DEBUG EVIL TOPOLOGY REDIRECT, before or after a command is    *)
(* forwarded, and the mixed faults of DEBUG EVIL TOPOLOGY <probability>.   *)
(*                                                                         *)
(* There is at most one connection per listener, named by the listener's   *)
(* port.  An argument is modelled by its slot; arguments are valid UTF-8   *)
(* (the mixed faults hash them decoded, the focused ones as they are).     *)
(* Random draws are choices.  The reply is followed up to base_bytes,      *)
(* where value mutation takes over; MODE MUTATE and OVERFLOW are like MODE *)
(* OFF up to there.  Transport faults are off.                             *)
(***************************************************************************)
EXTENDS Integers, Sequences, SequencesExt

CONSTANTS
    Conns,         \* listeners with a connection
    Topologies,    \* the CLUSTER SLOTS replies of evilresp
    Ipv6,          \* the listeners have an IPv6 address
    SlotCount,     \* CLUSTER_SLOT_COUNT (16384)
    Redirects,     \* settings of TOPOLOGY REDIRECT that clients ask for
    Probabilities, \* probabilities they ask for
    Literal,       \* a host:port given as TARGET
    Off,           \* no redirect settings; no cutoff
    MaxIndex       \* command indexes from here on are not told apart

Slots == 0..(SlotCount - 1)

\* Stands for all 32-bit integers: one on either side of the slots.
RandomI32 == (0 - 1)..SlotCount

RedirectConfigs ==
    [kind : {"MOVED", "ASK", "RANDOM"},
     target : {"WRONG_NODE", "SELF", "REPLICA", "NEXT", "RANDOM", "LITERAL"},
     slot : {"CORRECT", "WRONG", "WILD", "FIXED"}, fixed : Slots,
     phase : {"BEFORE", "AFTER"}, key : {1, 2}, until : 0..MaxIndex \cup {Off}]

ASSUME SlotsAssumption == SlotCount \in Nat /\ SlotCount > 1
ASSUME RedirectsAssumption ==
    /\ Redirects \subseteq RedirectConfigs
    /\ Probabilities \subseteq {"NEVER", "SOMETIMES", "ALWAYS"}
    /\ MaxIndex \in Nat
ASSUME AddressesAssumption ==
    /\ Conns \subseteq Nat /\ Ipv6 \in BOOLEAN
    /\ Literal \in [port : Nat, bare : BOOLEAN]

\* What a cluster reports: a range has a primary, which is not among its own
\* replicas, and ranges that share a slot have the same primary.
ASSUME TopologiesAssumption ==
    \A t \in Topologies :
        /\ t \in Seq([start : Int, end : Int, nodes : Seq(Nat)])
        /\ \A i \in 1..Len(t) :
               /\ Len(t[i].nodes) > 0
               /\ \A j \in 2..Len(t[i].nodes) : t[i].nodes[j] # t[i].nodes[1]
               /\ \A h \in 1..Len(t) :
                      t[h].start <= t[i].end /\ t[i].start <= t[h].end
                          => t[h].nodes[1] = t[i].nodes[1]

VARIABLES
    topology,      \* local_slots: ranges of a primary and replicas, by port
    config,        \* config[c]: mode, topology_probability, topology_redirect
    stale,         \* connections that MODE RESET invalidated
    command_ids,   \* SharedState.command_ids
    pc,            \* pc[c]: how far the command has come
    command,       \* command[c]: its index, the slots of its arguments after
                   \* the name, selected by INCLUDE and EXCLUDE
    executed,      \* executed[c]: the command was forwarded
    relay,         \* relay[c]: the upstream's reply, rewritten to listeners
    answer,        \* answer[c]: the reply, before value mutation
    applied        \* applied[c]: the topology mutations recorded for it

vars == <<topology, config, stale, command_ids, pc, command, executed, relay,
          answer, applied>>

-----------------------------------------------------------------------------
(* Addresses and replies. *)

\* TcpEndpoint::connect_addr puts brackets around an IPv6 address;
\* redirection_targets does not.
Addr(p) == [port |-> p, bare |-> FALSE]
Bare(p) == [port |-> p, bare |-> Ipv6]

NoAddr == Addr(0)
Redirection(kind, slot, server) ==
    [what |-> "redirect", kind |-> kind, slot |-> slot, server |-> server]
Other(what) == [what |-> what, kind |-> "MOVED", slot |-> 0, server |-> NoAddr]

IsRedirect(x) == x.what = "redirect"
NoFault == [reply |-> Other("none"), applied |-> {}]
Fault(reply, names) == [reply |-> reply, applied |-> names]

-----------------------------------------------------------------------------
(* RedirectNodes::from_slots. *)

Owns(i, slot) == topology[i].start <= slot /\ slot <= topology[i].end
Ranges == 1..Len(topology)

\* The primaries without repetition are those of the ranges in which one appears
\* first, in this order.
Primary(i) == topology[i].nodes[1]
FirstRanges == {i \in Ranges : \A h \in 1..(i - 1) : Primary(h) # Primary(i)}
PrimarySet == {Primary(i) : i \in Ranges}
AllNodes == UNION {ToSet(topology[i].nodes) : i \in Ranges}
Replicas(slot) ==
    UNION {ToSet(Tail(topology[i].nodes)) : i \in {j \in Ranges : Owns(j, slot)}}

\* The primary of the last range with the slot; none if there is no such range.
Owners(slot) == {Primary(i) : i \in {j \in Ranges :
                     /\ Owns(j, slot)
                     /\ \A h \in Ranges : Owns(h, slot) => h <= j}}

-----------------------------------------------------------------------------
(* configured_redirection. *)

Draw(p) == CASE p = "NEVER" -> {FALSE}
             [] p = "SOMETIMES" -> BOOLEAN
             [] p = "ALWAYS" -> {TRUE}

\* Mutant: the command at the cutoff is redirected as well.
AppliesAtCutoff(c, phase) ==
    LET f == config[c].redirect IN
    /\ f # Off
    /\ f.until # Off => command[c].index <= f.until
    /\ f.phase = phase

\* Mutant: the phase is not looked at.
AppliesAnyPhase(c, phase) ==
    LET f == config[c].redirect IN
    /\ f # Off
    /\ f.until # Off => command[c].index < f.until

\* Mutant: the comparison of the phases is inverted.
AppliesOtherPhase(c, phase) ==
    LET f == config[c].redirect IN
    /\ f # Off
    /\ f.until # Off => command[c].index < f.until
    /\ f.phase # phase

\* Mutant: there is no cutoff.
AppliesForever(c, phase) ==
    LET f == config[c].redirect IN f # Off /\ f.phase = phase

Applies(c, phase) ==
    LET f == config[c].redirect IN
    /\ f # Off
    /\ f.until # Off => command[c].index < f.until
    /\ f.phase = phase

\* The fixed slot, or command_slot: none if there is no such argument.  (One
\* that is not a string leaves the command without a name: it is not selected.)
CorrectSlots(c) ==
    LET f == config[c].redirect IN
    IF f.slot = "FIXED" THEN {f.fixed} 
    ELSE {command[c].keys[i] : i \in {f.key} \cap DOMAIN command[c].keys}

SeveralPrimaries == \E p, q \in PrimarySet : p # q

\* The primary after c; the first one after the last, and if c is none.
NextPrimary(c) ==
    LET later == {i \in FirstRanges : \E h \in FirstRanges : h < i /\ Primary(h) = c}
    IN  Primary(IF later = {} THEN 1 ELSE Min(later))

\* Mutant: WRONG_NODE is any primary but the one the client is connected to.
TargetsAwayFromListener(c, target, slot) ==
    CASE target = "LITERAL" -> {Literal}
      [] target = "SELF" -> {Addr(x) : x \in {c} \cap AllNodes}
      [] target = "WRONG_NODE" -> {Addr(p) : p \in PrimarySet \ {c}}
      [] target = "REPLICA" -> {Addr(p) : p \in Replicas(slot)}
      [] target = "RANDOM" -> {Addr(p) : p \in PrimarySet}
      [] target = "NEXT" -> IF ~SeveralPrimaries \/ c \notin AllNodes THEN {}
                            ELSE {Addr(NextPrimary(c))}

\* The destinations a target allows; none if empty.
Targets(c, target, slot) ==
    CASE target = "LITERAL" -> {Literal}
      [] target = "SELF" -> {Addr(x) : x \in {c} \cap AllNodes}
      [] target = "WRONG_NODE" ->
             IF Owners(slot) = {} THEN {} ELSE {Addr(p) : p \in PrimarySet \ Owners(slot)}
      [] target = "REPLICA" -> {Addr(p) : p \in Replicas(slot)}
      [] target = "RANDOM" -> {Addr(p) : p \in PrimarySet}
      [] target = "NEXT" -> IF ~SeveralPrimaries \/ c \notin AllNodes THEN {}
                            ELSE {Addr(NextPrimary(c))}

WrongValidSlots(slot) ==
    {IF s = slot THEN (s + 1) % SlotCount ELSE s : s \in Slots}

AdvertisedSlots(asked, slot) ==
    CASE asked \in {"CORRECT", "FIXED"} -> {slot}
      [] asked = "WRONG" -> WrongValidSlots(slot)
      [] asked = "WILD" -> {IF v \in Slots THEN 0 - 1 ELSE v : v \in RandomI32}

Kinds(asked) == IF asked = "RANDOM" THEN {"MOVED", "ASK"} ELSE {asked}

\* The redirections the settings of a connection allow for its command.
FocusedRedirections(c) ==
    LET f == config[c].redirect IN
    UNION {{Redirection(kind, slot, server) :
                kind \in Kinds(f.kind), slot \in AdvertisedSlots(f.slot, s),
                server \in Targets(c, f.target, s)} : s \in CorrectSlots(c)}

\* The faults of a phase, NoFault if there may be none.
Configured(c, phase) ==
    LET draw == Draw(config[c].probability)
        redirections == FocusedRedirections(c)
    IN  IF ~Applies(c, phase) THEN {NoFault}
        ELSE (IF TRUE \in draw
              THEN {Fault(x, {config[c].redirect.phase}) : x \in redirections} ELSE {})
             \cup (IF FALSE \in draw \/ redirections = {} THEN {NoFault} ELSE {})

-----------------------------------------------------------------------------
(* maybe_mutate_topology. *)

LegacyTargets == {Bare(p) : p \in PrimarySet}

Flip(kind) == IF kind = "MOVED" THEN "ASK" ELSE "MOVED"

\* Mutant: the wrong server may be the right one.
WrongServersAny(server) == LegacyTargets

WrongServers(server) == LegacyTargets \ {server}

\* apply_redirection_mutations, with the four draws given.
Mutated(x, names, kind, slot, server, wild) ==
    LET wrong == WrongServers(x.server)
        to == IF server /\ wrong # {} THEN wrong ELSE {x.server}
        slots == IF wild THEN RandomI32
                 ELSE IF slot THEN WrongValidSlots(x.slot) ELSE {x.slot}
    IN  {Fault(Redirection(IF kind THEN Flip(x.kind) ELSE x.kind, s, t),
               names \cup (IF kind THEN {"wrong_kind"} ELSE {})
                     \cup (IF slot THEN {"wrong_slot"} ELSE {})
                     \cup (IF server /\ wrong # {} THEN {"wrong_server"} ELSE {})
                     \cup (IF wild THEN {"wild_slot"} ELSE {})) :
             s \in slots, t \in to}

\* With any draws.
MutatedBy(draw, x, names) ==
    UNION {Mutated(x, names, k, s, v, w) : k \in draw, s \in draw, v \in draw, w \in draw}

FakeRedirections(c) ==
    {Redirection(kind, slot, server) :
         kind \in {"MOVED", "ASK"}, server \in LegacyTargets,
         slot \in IF command[c].keys = << >> THEN Slots ELSE {command[c].keys[1]}}

\* The mixed faults for a reply, or for none in MODE RANDOM.
MixedFaults(c, reply) ==
    LET draw == Draw(config[c].probability) IN
    IF IsRedirect(reply) THEN MutatedBy(draw, reply, {})
    ELSE (IF TRUE \in draw
          THEN UNION {MutatedBy(draw, x, {"fake"}) : x \in FakeRedirections(c)} ELSE {})
         \cup (IF FALSE \in draw THEN {NoFault} ELSE {})

Legacy(c, reply) ==
    IF config[c].probability = "NEVER" \/ config[c].redirect # Off \/ topology = << >>
    THEN {NoFault}
    ELSE {IF f.applied = {} THEN NoFault ELSE f : f \in MixedFaults(c, reply)}

-----------------------------------------------------------------------------
(* Settings. *)

DefaultConfig == [mode |-> "OFF", probability |-> "NEVER", redirect |-> Off]
NoCommand == [index |-> 0, keys |-> << >>, selected |-> FALSE]

InitWith(configs) ==
    /\ topology \in Topologies
    /\ Conns \subseteq AllNodes
    /\ config \in [Conns -> configs]
    /\ stale = {}
    /\ command_ids = 0
    /\ pc = [c \in Conns |-> "idle"]
    /\ command = [c \in Conns |-> NoCommand]
    /\ executed = [c \in Conns |-> FALSE]
    /\ relay = [c \in Conns |-> Other("none")]
    /\ answer = [c \in Conns |-> Other("none")]
    /\ applied = [c \in Conns |-> {}]

Init == InitWith({DefaultConfig})

Work == <<pc, command, executed, relay, answer, applied>>

Open(c) == pc[c] = "idle" /\ c \notin stale

\* DEBUG EVIL TOPOLOGY: probability alone (OFF is 0) is the mixed form; the
\* REDIRECT form starts from the defaults, so all its settings are new.
SetTopology(c, p, f) ==
    /\ Open(c)
    /\ config' = [config EXCEPT ![c].probability = p, ![c].redirect = f]
    /\ UNCHANGED <<topology, stale, command_ids, Work>>

\* DEBUG EVIL MODE.
SetMode(c, m) ==
    /\ Open(c)
    /\ config' = [config EXCEPT ![c].mode = m]
    /\ UNCHANGED <<topology, stale, command_ids, Work>>

\* DEBUG EVIL MODE RESET keeps the topology settings; the other connections of
\* the time are closed when they send their next command.
ModeReset(c) ==
    /\ Open(c)
    /\ config' = [config EXCEPT ![c].mode = "OFF"]
    /\ command_ids' = 0
    /\ stale' = Conns \ {c}
    /\ UNCHANGED <<topology, Work>>

\* MODE RESET on a connection that is not one of Conns.
ResetElsewhere ==
    /\ command_ids' = 0
    /\ stale' = Conns
    /\ UNCHANGED <<topology, config, Work>>

\* The client of a closed connection connects again.
Reconnect(c) ==
    /\ c \in stale /\ pc[c] = "idle"
    /\ stale' = stale \ {c}
    /\ config' = [config EXCEPT ![c] = DefaultConfig]
    /\ UNCHANGED <<topology, command_ids, Work>>

-----------------------------------------------------------------------------
(* A command. *)

NextIndex == IF command_ids < MaxIndex THEN command_ids + 1 ELSE MaxIndex

StartCommand(c, keys, selected) ==
    /\ Open(c)
    /\ command' = [command EXCEPT ![c] =
                       [index |-> command_ids, keys |-> keys, selected |-> selected]]
    /\ command_ids' = NextIndex
    /\ pc' = [pc EXCEPT ![c] = "before"]
    /\ UNCHANGED <<topology, config, stale, executed, relay, answer, applied>>

\* A command on a connection that is not one of Conns.  (In Spec, StartCommand
\* of a command that is not selected uses up indexes.)
CommandElsewhere ==
    /\ command_ids' = NextIndex
    /\ UNCHANGED <<topology, config, stale, Work>>

\* The reply is decided.
Settle(c, reply, names) ==
    /\ answer' = [answer EXCEPT ![c] = reply]
    /\ applied' = [applied EXCEPT ![c] = names]
    /\ pc' = [pc EXCEPT ![c] = "done"]

\* Before forwarding: a focused fault; in MODE RANDOM a mixed fault or a
\* generated reply; otherwise the command is forwarded.
Decide(c) ==
    /\ pc[c] = "before"
    /\ \E f \in IF command[c].selected THEN Configured(c, "BEFORE") ELSE {NoFault} :
           IF f # NoFault THEN Settle(c, f.reply, f.applied)
           ELSE IF config[c].mode = "RANDOM" /\ command[c].selected
           THEN \E g \in Legacy(c, Other("none")) :
                    Settle(c, IF g = NoFault THEN Other("generated") ELSE g.reply, g.applied)
           ELSE /\ pc' = [pc EXCEPT ![c] = "forward"]
                /\ UNCHANGED <<answer, applied>>
    /\ UNCHANGED <<topology, config, stale, command_ids, command, executed, relay>>

\* What the upstream may answer, its addresses rewritten to listeners or, where
\* there is none, the reply replaced by an error.
Relays ==
    {Other("value"), Other("no_listener")}
    \cup {Redirection(kind, slot, Addr(p)) :
              kind \in {"MOVED", "ASK"}, slot \in Slots, p \in AllNodes}

Forward(c, reply) ==
    /\ pc[c] = "forward"
    /\ executed' = [executed EXCEPT ![c] = TRUE]
    /\ relay' = [relay EXCEPT ![c] = reply]
    /\ pc' = [pc EXCEPT ![c] = "after"]
    /\ UNCHANGED <<topology, config, stale, command_ids, command, answer, applied>>

\* The session with the upstream fails: the reply bypasses all faults.
Unavailable(c) ==
    /\ pc[c] = "forward"
    /\ executed' \in {executed, [executed EXCEPT ![c] = TRUE]}
    /\ Settle(c, Other("unavailable"), {})
    /\ UNCHANGED <<topology, config, stale, command_ids, command, relay>>

After(c) ==
    /\ pc[c] = "after"
    /\ \E f \in IF ~command[c].selected THEN {NoFault}
                ELSE IF config[c].redirect # Off THEN Configured(c, "AFTER")
                ELSE Legacy(c, relay[c]) :
           Settle(c, IF f = NoFault THEN relay[c] ELSE f.reply, f.applied)
    /\ UNCHANGED <<topology, config, stale, command_ids, command, executed, relay>>

\* The reply is on its way; the locals of the loop body go out of scope.
Finish(c) ==
    /\ pc[c] = "done"
    /\ pc' = [pc EXCEPT ![c] = "idle"]
    /\ command' = [command EXCEPT ![c] = NoCommand]
    /\ executed' = [executed EXCEPT ![c] = FALSE]
    /\ relay' = [relay EXCEPT ![c] = Other("none")]
    /\ answer' = [answer EXCEPT ![c] = Other("none")]
    /\ applied' = [applied EXCEPT ![c] = {}]
    /\ UNCHANGED <<topology, config, stale, command_ids>>

-----------------------------------------------------------------------------
\* Without arguments, with a key, and with two arguments of different slots.
KeyLists == {<< >>, <<1, 0>>} \cup {<<s>> : s \in Slots}

Next ==
    \/ ResetElsewhere
    \/ \E c \in Conns :
        \/ \E p \in Probabilities, f \in Redirects \cup {Off} : SetTopology(c, p, f)
        \/ \E m \in {"OFF", "RANDOM"} : SetMode(c, m)
        \/ ModeReset(c) \/ Reconnect(c)
        \/ \E keys \in KeyLists : StartCommand(c, keys, TRUE)
        \/ StartCommand(c, << >>, FALSE)
        \/ Decide(c)
        \/ \E reply \in Relays : Forward(c, reply)
        \/ Unavailable(c) \/ After(c) \/ Finish(c)

Spec == Init /\ [][Next]_vars

-----------------------------------------------------------------------------
(* Properties. *)

Replies == [what : {"redirect", "none", "value", "no_listener", "generated", "unavailable"},
            kind : {"MOVED", "ASK"}, slot : RandomI32,
            server : [port : Nat, bare : BOOLEAN]]

TypeOK ==
    /\ topology \in Topologies
    /\ \A c \in Conns : /\ config[c].mode \in {"OFF", "RANDOM"}
                        /\ config[c].redirect \in RedirectConfigs \cup {Off}
    /\ stale \subseteq Conns
    /\ command_ids \in 0..MaxIndex
    /\ pc \in [Conns -> {"idle", "before", "forward", "after", "done"}]
    /\ relay \in [Conns -> Replies]
    /\ answer \in [Conns -> Replies]

Redirected(c) == pc[c] = "done" /\ IsRedirect(answer[c])

\* A focused fault was injected.
Focused(c) == pc[c] = "done" /\ applied[c] \cap {"BEFORE", "AFTER"} # {}

\* Node p serves range i.
InRange(i, p) == \E j \in 1..Len(topology[i].nodes) : topology[i].nodes[j] = p

\* README: destinations are changed "among mapped primaries", and a literal
\* target is "the explicit exception to keeping redirects inside evilresp":
\* every other redirection names the address of a listener.
StaysLocal(c) ==
    Redirected(c) /\ ~(Focused(c) /\ config[c].redirect.target = "LITERAL")
        => \E p \in AllNodes : answer[c].server = Addr(p)

\* The redirection x is one the settings of c allow.
AsAsked(c, x) ==
    LET f == config[c].redirect
        slot == IF f.slot = "FIXED" THEN f.fixed ELSE command[c].keys[f.key]
        p == x.server.port
    IN  /\ f.kind # "RANDOM" => x.kind = f.kind
        /\ f.slot = "WRONG" => x.slot \in Slots \ {slot}
        /\ f.slot = "WILD" => x.slot \notin Slots
        /\ f.slot \notin {"WRONG", "WILD"} => x.slot = slot
        /\ f.target = "SELF" => p = c
        /\ f.target \in {"WRONG_NODE", "NEXT", "RANDOM"} => \E i \in Ranges : Primary(i) = p
        /\ f.target = "WRONG_NODE" => \A i \in Ranges : Owns(i, slot) => Primary(i) # p
        /\ f.target = "NEXT" => p # c
        /\ f.target = "REPLICA" =>
               \E i \in Ranges : Owns(i, slot) /\ InRange(i, p) /\ Primary(i) # p

\* README, the table of destinations and slots: what a focused redirection
\* names, in terms of the slot ranges.
FocusedAsAsked == \A c \in Conns : StaysLocal(c) /\ (Focused(c) => AsAsked(c, answer[c]))

ExecutedAsAsked(c) ==
    pc[c] = "done" =>
        IF "BEFORE" \in applied[c] THEN ~executed[c]
        ELSE IF config[c].mode = "RANDOM" /\ command[c].selected THEN ~executed[c]
        ELSE executed[c] \/ answer[c].what = "unavailable"

\* README: "BEFORE prevents the selected command from executing upstream",
\* AFTER "replaces any ordinary or redirection reply after execution", and
\* "RANDOM mode never forwards eligible commands".  Any other command is
\* forwarded before it is answered, unless the session fails.
ExecutionAsAsked == \A c \in Conns : ExecutedAsAsked(c)

\* A command that a redirection can always be made for, but for the cutoff.
Redirectable(c) ==
    LET f == config[c].redirect IN
    /\ command[c].selected /\ f # Off /\ config[c].probability = "ALWAYS"
    /\ f.target \in {"SELF", "RANDOM", "LITERAL"} /\ f.until # Off
    /\ f.slot = "FIXED" \/ f.key <= Len(command[c].keys)

CutoffAsAsked(c) ==
    LET f == config[c].redirect IN
    (/\ pc[c] = "done" /\ answer[c].what # "unavailable" /\ Redirectable(c)
     /\ ~(f.phase = "AFTER" /\ config[c].mode = "RANDOM"))
        => (Focused(c) <=> command[c].index < f.until)

\* README, on UNTIL 3: "indexes 0, 1, and 2 redirect; index 3 is forwarded
\* normally".  With probability 100 and a destination that is always there, the
\* commands with a key are redirected exactly below the cutoff.
CutoffExact == \A c \in Conns : CutoffAsAsked(c)

Truthful(c) ==
    pc[c] = "done" /\ ~Focused(c) =>
        /\ applied[c] = {} /\ executed[c] /\ answer[c].what # "unavailable"
               => answer[c] = relay[c]
        /\ "fake" \in applied[c] <=> (Redirected(c) /\ ~IsRedirect(relay[c]))
        /\ IsRedirect(relay[c]) /\ Redirected(c) =>
               /\ "wrong_kind" \in applied[c] <=> answer[c].kind # relay[c].kind
               /\ "wrong_server" \in applied[c] <=>
                      answer[c].server.port # relay[c].server.port
               /\ "wild_slot" \notin applied[c] =>
                      ("wrong_slot" \in applied[c] <=> answer[c].slot # relay[c].slot)

\* The mixed faults: the recorded mutations say what was changed.
MutationsTruthful == \A c \in Conns : Truthful(c)
=============================================================================
