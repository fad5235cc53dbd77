----------------------------- MODULE EvilConfig -----------------------------
(***************************************************************************)
(* The settings a client makes with DEBUG EVIL and DEBUG CHAOS on its      *)
(* connection (evil.rs, chaos.rs, and the parsers of framing.rs,           *)
(* generator.rs, exec_mutation.rs, transport.rs and topology_config.rs),   *)
(* what they let the proxy do to a reply (proxy.rs), and the process-wide  *)
(* counters of these commands (stats.rs).                                  *)
(*                                                                         *)
(* A command is its family, EVIL or CHAOS, and the words after it, in the  *)
(* upper case the parsers compare in.  A parser that returns AppResult is  *)
(* a set: empty for an error, otherwise the one result.  Probabilities are *)
(* counted in sixths of a percent, in which the preset's divisions by two  *)
(* and three are exact for whole temperatures.                             *)
(***************************************************************************)
EXTENDS Naturals, Integers, Sequences, FiniteSets

CONSTANTS
    Conns,           \* connections
    Tcp,             \* the ones whose client is connected over TCP
    Commands,        \* the DEBUG commands clients send
    Names,           \* names of ordinary commands
    Numerals,        \* the words that are numbers, with the number (of wholes)
    Targets,         \* the words that are paths of frames, with the path
    RegexMatches,    \* the regular expressions, with the names each matches
    BadRegexes,      \* words that look like a regular expression and are none
    MaxCommands      \* bound on the number of DEBUG commands

ASSUME ConfigAssumption ==
    /\ Tcp \subseteq Conns /\ IsFiniteSet(Conns)
    /\ Commands \subseteq [family : {"EVIL", "CHAOS"}, args : Seq(STRING)]
    /\ \A w \in DOMAIN Numerals : Numerals[w] \in Int /\ (w = "0" => Numerals[w] = 0)
    /\ DOMAIN RegexMatches \cap BadRegexes = {}
    /\ MaxCommands \in Nat

VARIABLES
    phase,           \* phase[c]: NEW, OPEN while it is handled, or CLOSED
    fresh,           \* the open ones accepted since the last MODE RESET
    config,          \* config[c]: the EvilConfig of connection c
    stats,           \* the counters of Stats
    history          \* every DEBUG command so far, with its outcome

vars == <<phase, fresh, config, stats, history>>

-----------------------------------------------------------------------------
(* Words and options. *)

\* An AppResult: the value when nothing is wrong.
Result(ok, value) == IF ok THEN {value} ELSE {}

Percent == 6
Full == 100 * Percent

\* parse_probability.
Probability(w) == {Percent * Numerals[v] : v \in {w} \cap DOMAIN Numerals} \cap 0..Full

Probabilities == {w \in DOMAIN Numerals : Probability(w) # {}}

\* Words that are an unsigned number (seeds, offsets, indexes).
Unsigned == {w \in DOMAIN Numerals : Numerals[w] >= 0}

\* An optional PROBABILITY at position i, the last words of a command.
OptionalProbability(a, i, otherwise) ==
    IF Len(a) = i - 1 THEN {otherwise}
    ELSE IF Len(a) = i + 1 /\ a[i] = "PROBABILITY" THEN Probability(a[i + 1])
    ELSE {}

\* The positions of the option names when they start at i.
Keys(a, i) == {k \in i..Len(a) : (k - i) % 2 = 0}

\* Pairs of an accepted option and an accepted value of it, none repeated.
WellFormed(a, i, accepts) ==
    /\ (Len(a) + 1 - i) % 2 = 0
    /\ \A k \in Keys(a, i) : /\ a[k] \in DOMAIN accepts
                             /\ a[k + 1] \in accepts[a[k]]
                             /\ \A l \in Keys(a, i) : a[l] = a[k] => l = k

Given(a, i, option) == \E k \in Keys(a, i) : a[k] = option

\* The value of an option, or what holds without it.
Value(a, i, option, otherwise) ==
    IF Given(a, i, option)
    THEN a[(CHOOSE k \in Keys(a, i) : a[k] = option) + 1]
    ELSE otherwise

ProbabilityValue(a, i, otherwise) ==
    IF Given(a, i, "PROBABILITY")
    THEN Percent * Numerals[Value(a, i, "PROBABILITY", "")]
    ELSE otherwise

-----------------------------------------------------------------------------
(* The settings. *)

Modes == {"OFF", "RANDOM", "MUTATE", "OVERFLOW"}

\* FramingConfig; the last three are those of LENGTH.
Framing(kind, p, target, corruption) ==
    [kind |-> kind, probability |-> p, target |-> target, corruption |-> corruption]

NoFraming(kind) == Framing(kind, 0, "", "")

DefaultExec == [action |-> "OFF", probability |-> Full]

DefaultTransport ==
    [truncate |-> "OFF", extra |-> "0", chunks |-> "OFF", probability |-> Full,
     fault |-> "OFF", at |-> "AFTER", duration |-> "10000"]

\* RedirectConfig; kind NONE stands for no focused redirection.
DefaultRedirect ==
    [kind |-> "MOVED", target |-> "WRONG_NODE", slot |-> "CORRECT",
     phase |-> "BEFORE", key |-> "1", until |-> "OFF"]
NoRedirect == [DefaultRedirect EXCEPT !.kind = "NONE"]

DefaultExcluded ==
    {"AUTH", "HELLO", "COMMAND", "CLIENT", "SELECT", "ASKING", "MULTI", "DISCARD",
     "SUBSCRIBE", "PSUBSCRIBE", "SSUBSCRIBE", "UNSUBSCRIBE", "QUIT"}

DefaultConfig ==
    [seed |-> "0", mode |-> "OFF", probability |-> 0,
     topology |-> 0, redirect |-> NoRedirect,
     canonicalization |-> "UNORDERED", strategy |-> "PRESERVE",
     mutations |-> "MANY", depth |-> "INNER", framing |-> NoFraming("AUTO"),
     generator |-> [protocol |-> "RESP2", corpus |-> "BOUNDARY", violations |-> "OFF"],
     exec |-> DefaultExec, transport |-> DefaultTransport,
     include |-> {}, exclude |-> DefaultExcluded]

-----------------------------------------------------------------------------
(* The parsers of the subcommands; a[1] is the subcommand. *)

\* The settings c with one of them replaced by what was parsed.
With(c, field, values) == {[c EXCEPT ![field] = v] : v \in values}

\* SEED, STRATEGY, MUTATIONS, DEPTH and CANONICALIZE: exactly one word.
OneOf(a, words) == Result(Len(a) = 2 /\ a[2] \in words, a[2])

\* Mutant: MODE RESET zeroes the probability and keeps the mode.
SetModeResetKeeps(c, a) ==
    IF a = <<"MODE", "RESET">> THEN {[c EXCEPT !.probability = 0]}
    ELSE {[c EXCEPT !.mode = a[2], !.probability = p] :
             p \in {q \in OptionalProbability(a, 3, IF a[2] = "OFF" THEN 0 ELSE Full) :
                       a[2] \in Modes}}

\* MODE RESET and MODE <mode> [PROBABILITY <p>].
SetMode(c, a) ==
    IF Len(a) < 2 THEN {}
    ELSE IF a[2] = "RESET"
    THEN Result(Len(a) = 2, [c EXCEPT !.mode = "OFF", !.probability = 0])
    ELSE {[c EXCEPT !.mode = a[2], !.probability = p] :
             p \in {q \in OptionalProbability(a, 3, IF a[2] = "OFF" THEN 0 ELSE Full) :
                       a[2] \in Modes}}

\* ExecConfig::parse.
ExecParse(a) ==
    {[action |-> a[2], probability |-> p] :
        p \in {q \in OptionalProbability(a, 3, Full) :
                  /\ Len(a) >= 2
                  /\ a[2] \in {"OFF", "RANDOM", "REMOVE", "DUPLICATE", "SWAP"}
                  /\ a[2] = "OFF" => Len(a) = 2}}

LengthOptions ==
    [PROBABILITY |-> Probabilities,
     TARGET |-> {"ANY"} \cup DOMAIN Targets,
     KIND |-> {"RANDOM", "SHORTER", "LONGER", "NEGATIVE", "BOUNDARY", "OVERFLOW"}]

\* FramingConfig::parse: options left out of LENGTH go back to their defaults.
FramingParse(a) ==
    IF Len(a) < 2 THEN {}
    ELSE IF a[2] = "LENGTH"
    THEN Result(WellFormed(a, 3, LengthOptions),
                Framing("LENGTH", ProbabilityValue(a, 3, Full),
                        LET t == Value(a, 3, "TARGET", "ANY")
                        IN  IF t = "ANY" THEN t ELSE Targets[t],
                        Value(a, 3, "KIND", "RANDOM")))
    ELSE Result(Len(a) = 2 /\ a[2] \in {"AUTO", "OFF"}, NoFraming(a[2]))

GeneratorOptions ==
    [PROTOCOL |-> {"RESP2", "RESP3"}, CORPUS |-> {"BOUNDARY", "RANDOM"},
     VIOLATIONS |-> {"ON", "OFF"}]

\* GeneratorConfig::updated: options left out keep their value.
GeneratorUpdated(g, a) ==
    Result(Len(a) > 1 /\ WellFormed(a, 2, GeneratorOptions),
           [protocol |-> Value(a, 2, "PROTOCOL", g.protocol),
            corpus |-> Value(a, 2, "CORPUS", g.corpus),
            violations |-> Value(a, 2, "VIOLATIONS", g.violations)])

\* Milliseconds a stall may last.
Durations == {w \in Unsigned : Numerals[w] \in 1..3600000}

\* A CHUNKS list is one positive offset here; Transport has the lists.
TransportOptions ==
    [TRUNCATE |-> {"OFF", "RANDOM"} \cup Unsigned,
     EXTRA |-> {w \in Unsigned : Numerals[w] <= 16},
     CHUNKS |-> {"OFF", "RANDOM"} \cup {w \in Unsigned : Numerals[w] > 0},
     PROBABILITY |-> Probabilities,
     FAULT |-> {"OFF", "CLOSE", "RESET", "STALL"},
     AT |-> {"BEFORE", "AFTER", "REPLY", "RANDOM"} \cup Unsigned,
     DURATION |-> Durations]

\* Mutant: TransportConfig::updated that forgets what FAULT excludes.
FaultExcludesNothing(t) == TRUE

\* FAULT and TRUNCATE cannot both be enabled.
FaultExcludesTruncate(t) == t.fault # "OFF" => t.truncate = "OFF"

\* TransportConfig::updated: OFF, or options over the present settings.
TransportUpdated(t, a) ==
    IF a = <<"TRANSPORT", "OFF">> THEN {DefaultTransport}
    ELSE {u \in Result(Len(a) > 1 /\ WellFormed(a, 2, TransportOptions),
                       [truncate |-> Value(a, 2, "TRUNCATE", t.truncate),
                        extra |-> Value(a, 2, "EXTRA", t.extra),
                        chunks |-> Value(a, 2, "CHUNKS", t.chunks),
                        probability |-> ProbabilityValue(a, 2, t.probability),
                        fault |-> Value(a, 2, "FAULT", t.fault),
                        at |-> Value(a, 2, "AT", t.at),
                        duration |-> Value(a, 2, "DURATION", t.duration)]) :
             FaultExcludesTruncate(u)}

\* HOST:PORT stands for every endpoint that parse_target accepts.
RedirectOptions ==
    [PROBABILITY |-> Probabilities, KIND |-> {"MOVED", "ASK", "RANDOM"},
     TARGET |-> {"WRONG_NODE", "SELF", "REPLICA", "NEXT", "RANDOM", "HOST:PORT"},
     SLOT |-> {"CORRECT", "WRONG", "WILD"} \cup {w \in Unsigned : Numerals[w] < 16384},
     PHASE |-> {"BEFORE", "AFTER"}, KEY |-> {w \in Unsigned : Numerals[w] > 0},
     UNTIL |-> {"OFF"} \cup Unsigned]

\* parse_topology: a probability, OFF, or a focused redirection.
TopologyParse(a) ==
    IF Len(a) < 2 THEN {}
    ELSE IF a[2] = "REDIRECT"
    THEN Result(WellFormed(a, 3, RedirectOptions),
                [topology |-> ProbabilityValue(a, 3, Full),
                 redirect |-> [kind |-> Value(a, 3, "KIND", DefaultRedirect.kind),
                               target |-> Value(a, 3, "TARGET", DefaultRedirect.target),
                               slot |-> Value(a, 3, "SLOT", DefaultRedirect.slot),
                               phase |-> Value(a, 3, "PHASE", DefaultRedirect.phase),
                               key |-> Value(a, 3, "KEY", DefaultRedirect.key),
                               until |-> Value(a, 3, "UNTIL", DefaultRedirect.until)]])
    ELSE {[topology |-> p, redirect |-> NoRedirect] :
             p \in {q \in IF a[2] = "OFF" THEN {0} ELSE Probability(a[2]) : Len(a) = 2}}

SetTopology(c, a) ==
    {[c EXCEPT !.topology = t.topology, !.redirect = t.redirect] : t \in TopologyParse(a)}

-----------------------------------------------------------------------------
(* Filters. *)

Reads == {"GET", "MGET", "EXISTS", "TTL", "PTTL", "HGET", "HGETALL", "HMGET", "HEXISTS",
          "LRANGE", "LLEN", "SCARD", "SDIFF", "SINTER", "SISMEMBER", "SMEMBERS",
          "SUNION", "ZCARD", "ZRANGE"}
Writes == {"SET", "MSET", "DEL", "EXPIRE", "PEXPIRE", "HSET", "HMSET", "HDEL", "LPUSH",
           "RPUSH", "LPOP", "RPOP", "SADD", "SREM", "ZADD", "ZREM"}

\* command_attributes: the names that have an attribute.
CommandAttributes(w) ==
    CASE w = "@READ" -> Reads
      [] w = "@WRITE" -> Writes
      [] w = "@STRING" -> {"GET", "MGET", "SET", "MSET"}
      [] w = "@HASH" -> {"HGET", "HGETALL", "HMGET", "HEXISTS", "HSET", "HMSET", "HDEL"}
      [] w = "@LIST" -> {"LRANGE", "LLEN", "LPUSH", "RPUSH", "LPOP", "RPOP"}
      [] w = "@SET" -> {"SCARD", "SDIFF", "SINTER", "SISMEMBER", "SMEMBERS", "SUNION",
                        "SADD", "SREM"}
      [] w = "@ZSET" -> {"ZCARD", "ZRANGE", "ZADD", "ZREM"}
      [] OTHER -> {}

\* FilterSpec::matches_command: an attribute, a regular expression, or a name.
MatchesCommand(w, name) ==
    \/ name \in CommandAttributes(w)
    \/ w \in DOMAIN RegexMatches /\ name \in RegexMatches[w]
    \/ w = name

\* compile_filters: one word that does not compile rejects the list.
CompileFilters(a) ==
    LET words == {a[i] : i \in 2..Len(a)}
    IN  Result(words \cap BadRegexes = {}, words)

\* should_mutate_command.
ShouldMutate(c, name) ==
    /\ c.include # {} => \E w \in c.include : MatchesCommand(w, name)
    /\ \A w \in c.exclude : ~MatchesCommand(w, name)

-----------------------------------------------------------------------------
(* The commands. *)

\* EvilConfig::apply_debug_command.
ApplyDebugCommand(c, a) ==
    IF a = << >> THEN {}
    ELSE CASE a[1] = "SEED" -> With(c, "seed", OneOf(a, Unsigned))
           [] a[1] = "MODE" -> SetMode(c, a)
           [] a[1] = "EXEC" -> With(c, "exec", ExecParse(a))
           [] a[1] = "TRANSPORT" -> With(c, "transport", TransportUpdated(c.transport, a))
           [] a[1] = "GENERATOR" -> With(c, "generator", GeneratorUpdated(c.generator, a))
           [] a[1] = "FRAMING" -> With(c, "framing", FramingParse(a))
           [] a[1] = "STRATEGY" -> With(c, "strategy", OneOf(a, {"PRESERVE", "REPLACE"}))
           [] a[1] = "MUTATIONS" -> With(c, "mutations", OneOf(a, {"ONE", "MANY"}))
           [] a[1] = "DEPTH" -> With(c, "depth", OneOf(a, {"ANY", "INNER"}))
           [] a[1] = "CANONICALIZE" ->
                 With(c, "canonicalization", OneOf(a, {"ALL", "UNORDERED", "NONE"}))
           [] a[1] = "TOPOLOGY" -> SetTopology(c, a)
           [] a[1] \in {"HELP", "STATUS"} -> Result(Len(a) = 1, c)
           [] a[1] = "INCLUDE" -> With(c, "include", CompileFilters(a))
           [] a[1] = "EXCLUDE" -> With(c, "exclude", CompileFilters(a))
           [] OTHER -> {}

Max0(n) == IF n > 0 THEN n ELSE 0

ChaosOptions == [SEED |-> Unsigned, HASH |-> {"BLAKE3", "TLSH"}]

\* Settings of the preset of temperature t (in sixths of a percent): some are
\* switched on beyond a percentage.
Beyond(t, percentage, on, off) == IF t > percentage * Percent THEN on ELSE off

PresetFraming(t) ==
    Beyond(t, 50, Framing("LENGTH", 2 * (t - 50 * Percent), "ANY", "RANDOM"), NoFraming("OFF"))

PresetExec(t) ==
    Beyond(t, 25, [action |-> "RANDOM", probability |-> (t - 25 * Percent) \div 3], DefaultExec)

PresetTopology(t) == Max0(t - 50 * Percent) \div 2

PresetTransport(u, t) ==
    Beyond(t, 75, [u EXCEPT !.truncate = "RANDOM", !.chunks = "RANDOM",
                            !.probability = t - 75 * Percent], u)

\* The preset, over settings c that have the default transport settings.
Expanded(c, t) ==
    [c EXCEPT
        !.mode = Beyond(t, 0, "MUTATE", "OFF"), !.probability = t,
        !.strategy = Beyond(t, 50, "REPLACE", "PRESERVE"),
        !.mutations = Beyond(t, 25, "MANY", "ONE"), !.depth = "INNER",
        !.framing = PresetFraming(t), !.exec = PresetExec(t),
        !.redirect = NoRedirect, !.topology = PresetTopology(t),
        !.generator.corpus = "BOUNDARY", !.generator.violations = Beyond(t, 75, "ON", "OFF"),
        !.transport = PresetTransport(@, t)]

\* Mutant: a preset over the transport settings there are.
PresetKeepsTransport(c, t) == Expanded(c, t)

Preset(c, t) == Expanded([c EXCEPT !.transport = DefaultTransport], t)

\* chaos::apply, staged: an expansion that is not accepted changes nothing.
ChaosApply(c, a) ==
    IF a = << >> THEN {}
    ELSE {[d EXCEPT !.seed = Value(a, 2, "SEED", c.seed)] :
             d \in {e \in {Preset(c, t) : t \in Probability(a[1])} :
                       /\ WellFormed(a, 2, ChaosOptions)
                       /\ FaultExcludesTruncate(e.transport)}}

RequiresTcp(c) == c.transport.fault = "RESET"

\* Mutant: a refused FAULT RESET stays in the settings.
RestoredNot(next, c) == next

\* apply_debug_evil puts the transport settings back, and only them.
Restored(next, c) == [next EXCEPT !.transport = c.transport]

\* The settings a command asks for.
Requested(c, cmd) ==
    IF cmd.family = "EVIL" THEN ApplyDebugCommand(c, cmd.args) ELSE ChaosApply(c, cmd.args)

\* Only apply_debug_evil looks at the transport of the client.
Refused(conn, cmd, next) == cmd.family = "EVIL" /\ RequiresTcp(next) /\ conn \notin Tcp

\* apply_debug_evil and apply_debug_chaos: whether the command is accepted,
\* and the settings after it.
Outcome(conn, cmd) ==
    LET c == config[conn]
        next == CHOOSE d \in Requested(c, cmd) : TRUE
    IN  IF Requested(c, cmd) = {} THEN [ok |-> FALSE, config |-> c]
        ELSE IF Refused(conn, cmd, next) THEN [ok |-> FALSE, config |-> Restored(next, c)]
        ELSE [ok |-> TRUE, config |-> next]

IsReset(cmd) == cmd.family = "EVIL" /\ cmd.args = <<"MODE", "RESET">>

\* What an accepted command is to the counters.
IsStatus(cmd) == cmd.family = "EVIL" /\ cmd.args = <<"STATUS">>
IsHelp(cmd) == cmd.family = "EVIL" /\ cmd.args = <<"HELP">>
SelectsMode(cmd) == cmd.family = "EVIL" /\ cmd.args[1] = "MODE" /\ ~IsReset(cmd)

NoStats ==
    [clients_total |-> 0, clients_active |-> 0, evil_updates |-> 0,
     evil_status_reads |-> 0, evil_rejected |-> 0, evil_resets |-> 0,
     modes |-> [m \in Modes |-> 0]]

Counted(s, cmd, o) ==
    IF ~o.ok THEN [s EXCEPT !.evil_rejected = @ + 1]
    ELSE IF IsStatus(cmd) THEN [s EXCEPT !.evil_status_reads = @ + 1]
    ELSE IF IsHelp(cmd) THEN s
    ELSE [s EXCEPT !.evil_updates = @ + 1,
                   !.evil_resets = IF IsReset(cmd) THEN @ + 1 ELSE @,
                   !.modes[o.config.mode] = IF SelectsMode(cmd) THEN @ + 1 ELSE @]

-----------------------------------------------------------------------------
Init ==
    /\ phase = [c \in Conns |-> "NEW"]
    /\ fresh = {}
    /\ config = [c \in Conns |-> DefaultConfig]
    /\ stats = NoStats
    /\ history = << >>

\* A client connects, with settings of its own.
Connect(c) ==
    /\ phase[c] = "NEW"
    /\ phase' = [phase EXCEPT ![c] = "OPEN"] /\ fresh' = fresh \cup {c}
    /\ config' = [config EXCEPT ![c] = DefaultConfig]
    /\ stats' = [stats EXCEPT !.clients_total = @ + 1, !.clients_active = @ + 1]
    /\ UNCHANGED history

\* The connection's task ends, for whatever reason.
Disconnect(c) ==
    /\ phase[c] = "OPEN"
    /\ phase' = [phase EXCEPT ![c] = "CLOSED"] /\ fresh' = fresh \ {c}
    /\ stats' = [stats EXCEPT !.clients_active = @ - 1]
    /\ UNCHANGED <<config, history>>

\* A DEBUG EVIL or DEBUG CHAOS command; a stale connection reads no more.
Debug(c, cmd) ==
    /\ c \in fresh
    /\ Len(history) < MaxCommands
    /\ LET o == Outcome(c, cmd)
       IN  /\ config' = [config EXCEPT ![c] = o.config]
           /\ stats' = Counted(stats, cmd, o)
           /\ history' = Append(history, [conn |-> c, cmd |-> cmd, ok |-> o.ok])
           /\ fresh' = IF o.ok /\ IsReset(cmd) THEN {c} ELSE fresh
    /\ UNCHANGED phase

Next ==
    \E c \in Conns :
        \/ Connect(c)
        \/ Disconnect(c)
        \/ \E cmd \in Commands : Debug(c, cmd)

Spec == Init /\ [][Next]_vars

-----------------------------------------------------------------------------
(* What the settings let the proxy do to the reply of a command. *)

TransportEnabled(t) ==
    t.fault # "OFF" \/ t.truncate # "OFF" \/ t.extra # "0" \/ t.chunks # "OFF"

\* The fault families that may touch the reply, in cluster mode.  A
\* probability of zero never fires; mode RANDOM has none.
Touches(c, name) ==
    {f \in {"RANDOM", "MUTATE", "EXEC", "LENGTH", "TOPOLOGY", "TRANSPORT"} :
        /\ ShouldMutate(c, name)
        /\ CASE f = "RANDOM" -> c.mode = "RANDOM"
             [] f = "MUTATE" -> c.mode \in {"MUTATE", "OVERFLOW"} /\ c.probability > 0
             [] f = "EXEC" -> /\ c.mode \in {"MUTATE", "OVERFLOW"} /\ name = "EXEC"
                              /\ c.exec.action # "OFF" /\ c.exec.probability > 0
             [] f = "LENGTH" -> /\ c.mode \in {"MUTATE", "OVERFLOW"}
                                /\ c.framing.kind = "LENGTH" /\ c.framing.probability > 0
             [] f = "TOPOLOGY" -> c.topology > 0
             [] f = "TRANSPORT" -> TransportEnabled(c.transport) /\ c.transport.probability > 0}
-----------------------------------------------------------------------------
(* Properties. *)

\* The last of the commands S that the connection had accepted, as a set:
\* empty without any.
Last(c, S) ==
    LET at == {i \in 1..Len(history) :
                  history[i].conn = c /\ history[i].ok /\ history[i].cmd \in S}
    IN  {history[i].cmd : i \in {i \in at : \A j \in at : j <= i}}

Chaos == {cmd \in Commands : cmd.family = "CHAOS"}
Evil(word) ==
    {cmd \in Commands : cmd.family = "EVIL" /\ cmd.args # << >> /\ cmd.args[1] = word}
Changes == {cmd \in Commands : ~IsStatus(cmd) /\ ~IsHelp(cmd)}

\* The connection's last change of its settings.
LastChange(c) == Last(c, Changes)

\* The settings stay within their types: every probability, those the preset
\* computes included, is one parse_probability accepts.
TypeOK ==
    /\ fresh \subseteq {c \in Conns : phase[c] = "OPEN"}
    /\ \A c \in Conns :
         /\ config[c].mode \in Modes
         /\ {config[c].probability, config[c].topology, config[c].exec.probability,
             config[c].framing.probability, config[c].transport.probability}
               \subseteq 0..Full
         /\ config[c].generator \in [protocol : {"RESP2", "RESP3"},
                                      corpus : {"BOUNDARY", "RANDOM"}, violations : {"ON", "OFF"}]

\* Whatever the sequence of commands, the transport settings are ones a plan
\* can be made of: no FAULT together with TRUNCATE (TransportConfig::updated
\* checks one command at a time), and no TCP reset on a Unix client, which
\* only apply_debug_evil checks and apply_debug_chaos does not.
TransportServable ==
    \A c \in Conns : /\ config[c].transport.fault # "OFF" => config[c].transport.truncate = "OFF"
                     /\ config[c].transport.fault = "RESET" => c \in Tcp

\* README.md:355-356: "invalid input leaves all configuration unchanged", for
\* every command and the settings of every connection.
RejectedChangesNothing ==
    [][Len(history') > Len(history) /\ ~history'[Len(history')].ok
          => config' = config /\ fresh' = fresh]_vars

\* README.md:315-316: DEBUG CHAOS "replaces the previous fault settings".  Two
\* connections whose last change is the same preset, with the same seed and
\* the same of the settings it preserves, have the same settings, whatever
\* was set before.
PresetForgets ==
    \A c, d \in Conns :
        /\ LastChange(c) = LastChange(d) /\ LastChange(c) \cap Chaos # {}
        /\ \A f \in {"seed", "include", "exclude", "canonicalization"} :
              config[c][f] = config[d][f]
        /\ config[c].generator.protocol = config[d].generator.protocol
        => config[c] = config[d]

\* The fault families README.md:323-331 lists for a temperature.
Band(t) ==
    (IF t > 0 THEN {"MUTATE"} ELSE {}) \cup (IF t > 25 THEN {"EXEC"} ELSE {})
    \cup (IF t > 50 THEN {"LENGTH", "TOPOLOGY"} ELSE {})
    \cup (IF t > 75 THEN {"TRANSPORT"} ELSE {})

\* Right after a preset only the families of its band touch any reply, and
\* "the preset never enables stalls, TCP resets, or external redirect
\* targets" (README.md:338): at temperature zero nothing does.
PresetWithinBand ==
    \A c \in Conns : \A cmd \in LastChange(c) \cap Chaos :
        /\ \A n \in Names : Touches(config[c], n) \subseteq Band(Numerals[cmd.args[1]])
        /\ config[c].transport.fault = "OFF" /\ config[c].redirect = NoRedirect

\* What DEBUG CHAOS promises: nothing of the settings before it is left, and
\* nothing beyond its band is switched on.
PresetReplaces == PresetForgets /\ PresetWithinBand

Quieting ==
    {[family |-> "EVIL", args |-> a] :
        a \in {<<"MODE", "RESET">>, <<"MODE", "OFF">>, <<"TOPOLOGY", "OFF">>,
               <<"TOPOLOGY", "0">>, <<"TRANSPORT", "OFF">>}}

\* README.md:938-945: MODE RESET disables the RESP faults and leaves the
\* others; "to disable the independent faults too, send DEBUG EVIL TOPOLOGY 0
\* and DEBUG EVIL TRANSPORT OFF".  A connection on which every family was
\* last switched off, in whatever order, has its replies left alone.
QuietWhenSwitchedOff ==
    \A c \in Conns :
        (\A word \in {"MODE", "TOPOLOGY", "TRANSPORT"} :
            Last(c, Chaos \cup Evil(word)) \subseteq Quieting)
        => \A n \in Names : Touches(config[c], n) = {}

\* How many of the commands S were accepted.
Accepted(S) == Cardinality({i \in 1..Len(history) : history[i].ok /\ history[i].cmd \in S})

Word2(cmd) == IF Len(cmd.args) > 1 THEN cmd.args[2] ELSE ""

\* The counters say what README.md:166-177 says they count, over all
\* connections and also for those that ended.
StatsMatchHistory ==
    /\ stats.evil_status_reads = Accepted(Evil("STATUS"))
    /\ stats.evil_updates = Accepted(Changes)
    /\ stats.evil_rejected = Cardinality({i \in 1..Len(history) : ~history[i].ok})
    /\ stats.evil_resets = Accepted({cmd \in Commands : IsReset(cmd)})
    /\ \A m \in Modes : stats.modes[m] = Accepted({cmd \in Evil("MODE") : Word2(cmd) = m})
    /\ stats.clients_active = Cardinality({c \in Conns : phase[c] = "OPEN"})
    /\ stats.clients_total = Cardinality({c \in Conns : phase[c] # "NEW"})

\* As long as a client leaves the exclude list alone, no setting and no
\* preset touches the commands a client needs to get started and to stay in
\* step (DEFAULT_EXCLUDED_COMMANDS), also when it names them to INCLUDE.
DefaultExcludedUntouched ==
    \A c \in Conns :
        Last(c, Evil("EXCLUDE")) = {}
        => \A n \in Names \cap DefaultExcluded : Touches(config[c], n) = {}

\* The replies that are left alone: those of excluded commands under any
\* settings, and all of them once every family was switched off.
RepliesLeftAlone == QuietWhenSwitchedOff /\ DefaultExcludedUntouched

\* What every DEBUG command did is accounted for: a rejected one changed no
\* setting of any connection, and each is counted as what it was.
CommandsAccounted == RejectedChangesNothing /\ []StatsMatchHistory
=============================================================================
