-------------------------- MODULE EvilConfig_proofs --------------------------
(***************************************************************************)
(* The settings of DEBUG EVIL and DEBUG CHAOS after any sequence of        *)
(* commands of any number of clients, over any vocabulary of numbers,      *)
(* paths and regular expressions.                                          *)
(*                                                                         *)
(* The invariant ties the settings of a connection to the last commands it *)
(* had accepted, one family of settings at a time.  TransportServable is   *)
(* needed for all of it: apply_debug_evil refuses any command that leaves  *)
(* a client that is not on TCP with FAULT RESET, and puts only the         *)
(* transport settings back.  That this undoes the whole command holds      *)
(* because no other command meets such settings.                           *)
(***************************************************************************)
EXTENDS EvilConfig, FiniteSetTheorems, TLAPS

Fields ==
    {"seed", "mode", "probability", "topology", "redirect", "canonicalization",
     "strategy", "mutations", "depth", "framing", "generator", "exec", "transport",
     "include", "exclude"}

GeneratorFields == {"protocol", "corpus", "violations"}

\* What has the fields of an EvilConfig.
Shaped(k) ==
    /\ DOMAIN k = Fields /\ k = [f \in Fields |-> k[f]]
    /\ DOMAIN k.generator = GeneratorFields
    /\ k.generator = [f \in GeneratorFields |-> k.generator[f]]

-----------------------------------------------------------------------------
(* What the commands do to the settings. *)

\* A setting that is replaced leaves the others as they are.
LEMMA Replaced ==
    ASSUME NEW k, Shaped(k), NEW field \in Fields \ {"generator"}, NEW values,
           NEW d \in With(k, field, values)
    PROVE  /\ Shaped(d) /\ d[field] \in values
           /\ \A f \in Fields \ {field} : d[f] = k[f]
           /\ d = [k EXCEPT ![field] = d[field]]
<1>1. PICK v \in values : d = [k EXCEPT ![field] = v]
  BY DEF With
<1>2. DOMAIN d = Fields /\ d[field] = v /\ \A f \in Fields \ {field} : d[f] = k[f]
  BY <1>1 DEF Shaped
<1>3. d = [f \in Fields |-> d[f]]
  BY <1>1, <1>2 DEF Shaped
<1>4. "generator" \in Fields \ {field}
  BY DEF Fields
<1>5. d.generator = k.generator
  BY <1>2, <1>4
<1> QED
  BY <1>1, <1>2, <1>3, <1>5 DEF Shaped

\* The same for the settings of the generator.
LEMMA GeneratorReplaced ==
    ASSUME NEW k, Shaped(k), NEW a, NEW d \in With(k, "generator", GeneratorUpdated(k.generator, a))
    PROVE  Shaped(d) /\ \A f \in Fields \ {"generator"} : d[f] = k[f]
<1>1. PICK v \in GeneratorUpdated(k.generator, a) : d = [k EXCEPT !["generator"] = v]
  BY DEF With
<1>2. /\ DOMAIN d = Fields /\ d["generator"] = v
      /\ \A f \in Fields \ {"generator"} : d[f] = k[f]
  BY <1>1 DEF Shaped, Fields
<1>3. d = [f \in Fields |-> d[f]]
  BY <1>1, <1>2 DEF Shaped
<1>4. PICK p, q, r : v = [protocol |-> p, corpus |-> q, violations |-> r]
  BY DEF GeneratorUpdated, Result
<1>5. DOMAIN v = GeneratorFields /\ v = [f \in GeneratorFields |-> v[f]]
  BY <1>4 DEF GeneratorFields
<1> QED
  BY <1>2, <1>3, <1>5 DEF Shaped

\* MODE sets the mode and the probability.
LEMMA ModeSet ==
    ASSUME NEW k, Shaped(k), NEW a \in Seq(STRING), NEW d \in SetMode(k, a)
    PROVE  /\ Shaped(d) /\ \A f \in Fields \ {"mode", "probability"} : d[f] = k[f]
           /\ Len(a) > 1
           /\ a[2] # "RESET" => d.mode = a[2] /\ a[2] \in Modes
           /\ a[2] = "RESET" => d.mode = "OFF" /\ Len(a) = 2
<1>1. PICK m, p : /\ d = [k EXCEPT !.mode = m, !.probability = p]
                  /\ a[2] # "RESET" => m = a[2] /\ a[2] \in Modes
                  /\ a[2] = "RESET" => m = "OFF" /\ Len(a) = 2
                  /\ Len(a) > 1
  <2>0. Len(a) > 1
    <3>1. ~(Len(a) < 2)
      BY DEF SetMode
    <3> QED
      BY <3>1
  <2>1. CASE a[2] = "RESET"
    BY <2>0, <2>1 DEF SetMode, Result
  <2>2. CASE a[2] # "RESET"
    <3>1. PICK p \in OptionalProbability(a, 3, IF a[2] = "OFF" THEN 0 ELSE Full) :
             a[2] \in Modes /\ d = [k EXCEPT !.mode = a[2], !.probability = p]
      BY <2>0, <2>2 DEF SetMode
    <3> QED
      BY <2>0, <2>2, <3>1
  <2> QED
    BY <2>1, <2>2
<1>2. /\ DOMAIN d = Fields /\ d.mode = m
      /\ \A f \in Fields \ {"mode", "probability"} : d[f] = k[f]
  BY <1>1 DEF Shaped, Fields
<1>3. d = [f \in Fields |-> d[f]]
  BY <1>1, <1>2 DEF Shaped
<1>4. d.generator = k.generator
  BY <1>2 DEF Fields
<1> QED
  BY <1>1, <1>2, <1>3, <1>4 DEF Shaped

\* TOPOLOGY sets the probability of its faults and the focused redirection.
LEMMA TopologySet ==
    ASSUME NEW k, Shaped(k), NEW a, NEW d \in SetTopology(k, a)
    PROVE  /\ Shaped(d) /\ \A f \in Fields \ {"topology", "redirect"} : d[f] = k[f]
           /\ \E t \in TopologyParse(a) : d.topology = t.topology
<1>1. PICK t \in TopologyParse(a) : d = [k EXCEPT !.topology = t.topology, !.redirect = t.redirect]
  BY DEF SetTopology
<1>2. /\ DOMAIN d = Fields /\ d.topology = t.topology
      /\ \A f \in Fields \ {"topology", "redirect"} : d[f] = k[f]
  BY <1>1 DEF Shaped, Fields
<1>3. d = [f \in Fields |-> d[f]]
  BY <1>1, <1>2 DEF Shaped
<1>4. d.generator = k.generator
  BY <1>2 DEF Fields
<1> QED
  BY <1>1, <1>2, <1>3, <1>4 DEF Shaped

\* A DEBUG EVIL command changes the settings its first word names.
LEMMA Applied ==
    ASSUME NEW k, Shaped(k), NEW a \in Seq(STRING), NEW d \in ApplyDebugCommand(k, a)
    PROVE  /\ Shaped(d) /\ a # << >>
           /\ a[1] # "MODE" => d.mode = k.mode
           /\ a[1] # "TOPOLOGY" => d.topology = k.topology
           /\ a[1] # "TRANSPORT" => d.transport = k.transport
           /\ a[1] # "EXCLUDE" => d.exclude = k.exclude
           /\ a[1] = "MODE" => d \in SetMode(k, a)
           /\ a[1] = "TOPOLOGY" => d \in SetTopology(k, a)
           /\ a[1] = "TRANSPORT" => /\ d.transport \in TransportUpdated(k.transport, a)
                                    /\ d = [k EXCEPT !["transport"] = d.transport]
           /\ a[1] \in {"HELP", "STATUS"} => d = k /\ Len(a) = 1
<1>0. a # << >>
  BY DEF ApplyDebugCommand
<1> DEFINE Alone(field) == \A f \in Fields \ {field} : d[f] = k[f]
<1>1. CASE a[1] \in {"SEED", "EXEC", "FRAMING", "STRATEGY", "MUTATIONS", "DEPTH",
                     "CANONICALIZE", "INCLUDE"}
  <2>1. PICK field \in {"seed", "exec", "framing", "strategy", "mutations", "depth",
                        "canonicalization", "include"} : \E values : d \in With(k, field, values)
    BY <1>0, <1>1 DEF ApplyDebugCommand
  <2>2. field \in Fields \ {"generator"}
    BY DEF Fields
  <2>3. Shaped(d) /\ \A f \in Fields \ {field} : d[f] = k[f]
    BY <2>1, <2>2, Replaced
  <2>4. {"mode", "topology", "transport", "exclude"} \subseteq Fields \ {field}
    BY DEF Fields
  <2> QED
    BY <1>0, <1>1, <2>3, <2>4
<1>2. CASE a[1] = "MODE"
  <2>1. d \in SetMode(k, a)
    BY <1>0, <1>2 DEF ApplyDebugCommand
  <2>2. Shaped(d) /\ \A f \in Fields \ {"mode", "probability"} : d[f] = k[f]
    BY <2>1, ModeSet
  <2>3. {"topology", "transport", "exclude"} \subseteq Fields \ {"mode", "probability"}
    BY DEF Fields
  <2> QED
    BY <1>0, <1>2, <2>1, <2>2, <2>3
<1>3. CASE a[1] = "TOPOLOGY"
  <2>1. d \in SetTopology(k, a)
    BY <1>0, <1>3 DEF ApplyDebugCommand
  <2>2. Shaped(d) /\ \A f \in Fields \ {"topology", "redirect"} : d[f] = k[f]
    BY <2>1, TopologySet
  <2>3. {"mode", "transport", "exclude"} \subseteq Fields \ {"topology", "redirect"}
    BY DEF Fields
  <2> QED
    BY <1>0, <1>3, <2>1, <2>2, <2>3
<1>4. CASE a[1] = "TRANSPORT"
  <2>1. d \in With(k, "transport", TransportUpdated(k.transport, a))
    BY <1>0, <1>4 DEF ApplyDebugCommand
  <2>2. "transport" \in Fields \ {"generator"}
    BY DEF Fields
  <2>3. /\ Shaped(d) /\ d["transport"] \in TransportUpdated(k.transport, a)
        /\ \A f \in Fields \ {"transport"} : d[f] = k[f]
        /\ d = [k EXCEPT !["transport"] = d["transport"]]
    BY <2>1, <2>2, Replaced
  <2>4. {"mode", "topology", "exclude"} \subseteq Fields \ {"transport"}
    BY DEF Fields
  <2> QED
    BY <1>0, <1>4, <2>3, <2>4
<1>5. CASE a[1] = "EXCLUDE"
  <2>1. d \in With(k, "exclude", CompileFilters(a))
    BY <1>0, <1>5 DEF ApplyDebugCommand
  <2>2. "exclude" \in Fields \ {"generator"}
    BY DEF Fields
  <2>3. Shaped(d) /\ \A f \in Fields \ {"exclude"} : d[f] = k[f]
    BY <2>1, <2>2, Replaced
  <2>4. {"mode", "topology", "transport"} \subseteq Fields \ {"exclude"}
    BY DEF Fields
  <2> QED
    BY <1>0, <1>5, <2>3, <2>4
<1>6. CASE a[1] = "GENERATOR"
  <2>1. d \in With(k, "generator", GeneratorUpdated(k.generator, a))
    BY <1>0, <1>6 DEF ApplyDebugCommand
  <2>2. Shaped(d) /\ \A f \in Fields \ {"generator"} : d[f] = k[f]
    BY <2>1, GeneratorReplaced
  <2>3. {"mode", "topology", "transport", "exclude"} \subseteq Fields \ {"generator"}
    BY DEF Fields
  <2> QED
    BY <1>0, <1>6, <2>2, <2>3
<1>7. CASE a[1] \in {"HELP", "STATUS"}
  <2>1. d = k /\ Len(a) = 1
    BY <1>0, <1>7 DEF ApplyDebugCommand, Result
  <2> QED
    BY <1>0, <1>7, <2>1
<1> QED
  <2>1. a[1] \in {"SEED", "EXEC", "FRAMING", "STRATEGY", "MUTATIONS", "DEPTH", "CANONICALIZE",
                  "INCLUDE", "MODE", "TOPOLOGY", "TRANSPORT", "EXCLUDE", "GENERATOR",
                  "HELP", "STATUS"}
    BY <1>0 DEF ApplyDebugCommand
  <2> QED
    BY <1>1, <1>2, <1>3, <1>4, <1>5, <1>6, <1>7, <2>1

\* TRANSPORT never asks for what FAULT excludes.
LEMMA TransportAsked ==
    ASSUME NEW t, NEW a, NEW u \in TransportUpdated(t, a)
    PROVE  FaultExcludesTruncate(u)
<1>1. CASE u = DefaultTransport
  BY <1>1 DEF FaultExcludesTruncate, DefaultTransport
<1> QED
  BY <1>1 DEF TransportUpdated

\* What a preset of temperature t makes of the settings.
PresetSettings(d, t) ==
    /\ d.mode = Beyond(t, 0, "MUTATE", "OFF") /\ d.probability = t
    /\ d.strategy = Beyond(t, 50, "REPLACE", "PRESERVE")
    /\ d.mutations = Beyond(t, 25, "MANY", "ONE") /\ d.depth = "INNER"
    /\ d.framing = PresetFraming(t) /\ d.exec = PresetExec(t)
    /\ d.redirect = NoRedirect /\ d.topology = PresetTopology(t)
    /\ d.generator.corpus = "BOUNDARY"
    /\ d.generator.violations = Beyond(t, 75, "ON", "OFF")
    /\ d.transport = PresetTransport(DefaultTransport, t)

\* The preset over default transport settings: well shaped, within its band,
\* and the exclude list kept.
LEMMA ExpandedSettings ==
    ASSUME NEW k, Shaped(k), k.transport = DefaultTransport, NEW t
    PROVE  Shaped(Expanded(k, t)) /\ PresetSettings(Expanded(k, t), t)
           /\ Expanded(k, t).exclude = k.exclude
           /\ Expanded(k, t).generator.protocol = k.generator.protocol
<1> DEFINE d == Expanded(k, t)
<1>1. DOMAIN d = Fields
  BY DEF Expanded, Shaped
<1>2. d = [f \in Fields |-> d[f]]
  <2> DEFINE mode == Beyond(t, 0, "MUTATE", "OFF")
             strategy == Beyond(t, 50, "REPLACE", "PRESERVE")
             mutations == Beyond(t, 25, "MANY", "ONE")
             violations == Beyond(t, 75, "ON", "OFF")
             transport == PresetTransport(k.transport, t)
  <2>1. d = [k EXCEPT !.mode = mode, !.probability = t, !.strategy = strategy,
                      !.mutations = mutations, !.depth = "INNER",
                      !.framing = PresetFraming(t), !.exec = PresetExec(t),
                      !.redirect = NoRedirect, !.topology = PresetTopology(t),
                      !.generator.corpus = "BOUNDARY", !.generator.violations = violations,
                      !.transport = transport]
    BY DEF Expanded
  <2> HIDE DEF d, mode, strategy, mutations, violations, transport
  <2> QED
    BY <1>1, <2>1
<1>3. d.generator = [k.generator EXCEPT !.corpus = "BOUNDARY",
                                        !.violations = Beyond(t, 75, "ON", "OFF")]
  BY DEF Expanded, Shaped, Fields
<1>4. /\ DOMAIN d.generator = GeneratorFields
      /\ d.generator = [f \in GeneratorFields |-> d.generator[f]]
      /\ d.generator.corpus = "BOUNDARY"
      /\ d.generator.violations = Beyond(t, 75, "ON", "OFF")
      /\ d.generator.protocol = k.generator.protocol
  <2> HIDE DEF d
  <2> QED
    BY <1>3 DEF Shaped, GeneratorFields
<1>5. /\ d.mode = Beyond(t, 0, "MUTATE", "OFF") /\ d.probability = t
      /\ d.strategy = Beyond(t, 50, "REPLACE", "PRESERVE")
      /\ d.mutations = Beyond(t, 25, "MANY", "ONE") /\ d.depth = "INNER"
      /\ d.framing = PresetFraming(t) /\ d.exec = PresetExec(t)
      /\ d.redirect = NoRedirect /\ d.topology = PresetTopology(t)
      /\ d.transport = PresetTransport(DefaultTransport, t) /\ d.exclude = k.exclude
  BY DEF Expanded, Shaped, Fields
<1> HIDE DEF d
<1> QED
  BY <1>1, <1>2, <1>4, <1>5 DEF PresetSettings, Shaped, d

\* DEBUG CHAOS makes the settings of its preset, whatever was set before.
LEMMA ChaosApplied ==
    ASSUME NEW k, Shaped(k), NEW a \in Seq(STRING), NEW d \in ChaosApply(k, a)
    PROVE  /\ a # << >> /\ a[1] \in DOMAIN Numerals
           /\ Shaped(d) /\ PresetSettings(d, Percent * Numerals[a[1]])
           /\ d.exclude = k.exclude /\ d.generator.protocol = k.generator.protocol
           /\ Percent * Numerals[a[1]] \in 0..Full
<1>1. a # << >>
  BY DEF ChaosApply
<1>2. PICK t \in Probability(a[1]) : d = [Preset(k, t) EXCEPT !.seed = Value(a, 2, "SEED", k.seed)]
  BY <1>1 DEF ChaosApply
<1>3. a[1] \in DOMAIN Numerals /\ t = Percent * Numerals[a[1]] /\ t \in 0..Full
  BY <1>2 DEF Probability
<1>4. PICK j : j = [k EXCEPT !.transport = DefaultTransport]
  OBVIOUS
<1>5. Shaped(j) /\ j.transport = DefaultTransport /\ j.exclude = k.exclude
      /\ j.generator = k.generator
  <2>1. /\ DOMAIN j = Fields /\ j = [f \in Fields |-> j[f]] /\ j.exclude = k.exclude
        /\ j.transport = DefaultTransport /\ j.generator = k.generator
    BY <1>4 DEF Shaped, Fields
  <2> QED
    BY <2>1 DEF Shaped
<1>6. PICK e : e = Preset(k, t)
  OBVIOUS
<1>7. /\ Shaped(e) /\ PresetSettings(e, t) /\ e.exclude = k.exclude
      /\ e.generator.protocol = k.generator.protocol
  BY <1>4, <1>5, <1>6, ExpandedSettings DEF Preset
<1>8. d = [e EXCEPT !.seed = Value(a, 2, "SEED", k.seed)]
  BY <1>2, <1>6
<1>9. /\ DOMAIN d = Fields /\ d = [f \in Fields |-> d[f]]
      /\ \A f \in Fields \ {"seed"} : d[f] = e[f]
  BY <1>7, <1>8 DEF Shaped, Fields
<1>10. /\ d.mode = e.mode /\ d.probability = e.probability /\ d.strategy = e.strategy
       /\ d.mutations = e.mutations /\ d.depth = e.depth /\ d.framing = e.framing
       /\ d.exec = e.exec /\ d.redirect = e.redirect /\ d.topology = e.topology
       /\ d.generator = e.generator /\ d.transport = e.transport /\ d.exclude = e.exclude
  BY <1>9 DEF Fields
<1>11. Shaped(d)
  BY <1>7, <1>9, <1>10 DEF Shaped
<1>12. PresetSettings(d, t)
  BY <1>7, <1>10 DEF PresetSettings
<1> QED
  BY <1>1, <1>3, <1>7, <1>10, <1>11, <1>12

\* A preset switches on no fault and no focused redirection.
LEMMA PresetServable ==
    ASSUME NEW d, NEW t, PresetSettings(d, t)
    PROVE  d.transport.fault = "OFF" /\ d.redirect = NoRedirect
BY DEF PresetSettings, PresetTransport, Beyond, DefaultTransport

-----------------------------------------------------------------------------
(* The outcome of a command. *)

\* What a command is made of.
LEMMA CommandParts ==
    ASSUME NEW cmd \in Commands
    PROVE  cmd.family \in {"EVIL", "CHAOS"} /\ cmd.args \in Seq(STRING)
BY ConfigAssumption

\* A command is rejected and leaves the settings, is refused and has the
\* transport settings put back, or is accepted.
LEMMA OutcomeCases ==
    ASSUME NEW c, NEW cmd
    PROVE  \/ Outcome(c, cmd) = [ok |-> FALSE, config |-> config[c]]
           \/ \E d \in Requested(config[c], cmd) :
                \/ /\ Refused(c, cmd, d)
                   /\ Outcome(c, cmd) = [ok |-> FALSE, config |-> Restored(d, config[c])]
                \/ /\ ~Refused(c, cmd, d)
                   /\ Outcome(c, cmd) = [ok |-> TRUE, config |-> d]
<1>1. CASE Requested(config[c], cmd) = {}
  BY <1>1 DEF Outcome
<1>2. CASE Requested(config[c], cmd) # {}
  <2>1. PICK d \in Requested(config[c], cmd) : d = CHOOSE e \in Requested(config[c], cmd) : TRUE
    BY <1>2
  <2> QED
    BY <1>2, <2>1 DEF Outcome
<1> QED
  BY <1>1, <1>2

\* The settings connection c may have, as far as its transport goes.
Servable(k, c) ==
    /\ k.transport.fault # "OFF" => k.transport.truncate = "OFF"
    /\ k.transport.fault = "RESET" => c \in Tcp

\* A rejected command leaves the settings as they are: what is refused was a
\* TRANSPORT command, which changes nothing besides.
LEMMA RejectedKeeps ==
    ASSUME NEW c, NEW cmd \in Commands, Shaped(config[c]), Servable(config[c], c),
           ~Outcome(c, cmd).ok
    PROVE  Outcome(c, cmd).config = config[c]
<1>1. CASE Outcome(c, cmd) = [ok |-> FALSE, config |-> config[c]]
  BY <1>1
<1>2. ASSUME NEW d \in Requested(config[c], cmd), Refused(c, cmd, d),
             Outcome(c, cmd) = [ok |-> FALSE, config |-> Restored(d, config[c])]
      PROVE  Outcome(c, cmd).config = config[c]
  <2>1. d \in ApplyDebugCommand(config[c], cmd.args) /\ cmd.args \in Seq(STRING)
    BY <1>2, CommandParts DEF Refused, Requested
  <2>2. d.transport # config[c].transport
    BY <1>2 DEF Refused, RequiresTcp, Servable
  <2>3. cmd.args[1] = "TRANSPORT"
    BY <2>1, <2>2, Applied
  <2>4. d = [config[c] EXCEPT !["transport"] = d.transport]
    BY <2>1, <2>3, Applied
  <2>5. PICK k : k = config[c] /\ Shaped(k)
    OBVIOUS
  <2>6. PICK v : v = d.transport
    OBVIOUS
  <2>7. [[k EXCEPT !["transport"] = v] EXCEPT !.transport = k.transport] = k
    BY <2>5 DEF Shaped, Fields
  <2>8. Restored(d, config[c]) = config[c]
    BY <2>4, <2>5, <2>6, <2>7 DEF Restored
  <2> QED
    BY <1>2, <2>8
<1> QED
  BY <1>1, <1>2, OutcomeCases

\* An accepted command leaves settings that can be served, and each family as
\* the command says.
LEMMA AcceptedSets ==
    ASSUME NEW c, NEW cmd \in Commands, Shaped(config[c]), Servable(config[c], c),
           Outcome(c, cmd).ok, NEW d, d = Outcome(c, cmd).config
    PROVE  /\ Shaped(d) /\ Servable(d, c) /\ cmd.args # << >>
           /\ cmd \in Chaos => /\ cmd.args[1] \in DOMAIN Numerals
                               /\ PresetSettings(d, Percent * Numerals[cmd.args[1]])
                               /\ d.exclude = config[c].exclude
           /\ cmd \notin Chaos => d \in ApplyDebugCommand(config[c], cmd.args)
<1>1. d \in Requested(config[c], cmd) /\ ~Refused(c, cmd, d)
  BY OutcomeCases
<1>2. cmd.family \in {"EVIL", "CHAOS"} /\ cmd.args \in Seq(STRING)
  BY CommandParts
<1>3. CASE cmd.family = "CHAOS"
  <2>1. d \in ChaosApply(config[c], cmd.args) /\ cmd \in Chaos
    BY <1>1, <1>3 DEF Requested, Chaos
  <2>2. /\ Shaped(d) /\ PresetSettings(d, Percent * Numerals[cmd.args[1]])
        /\ cmd.args # << >> /\ cmd.args[1] \in DOMAIN Numerals
        /\ d.exclude = config[c].exclude
    BY <1>2, <2>1, ChaosApplied
  <2>3. Servable(d, c)
    BY <2>2, PresetServable DEF Servable
  <2> QED
    BY <2>1, <2>2, <2>3
<1>4. CASE cmd.family = "EVIL"
  <2>1. d \in ApplyDebugCommand(config[c], cmd.args) /\ cmd \notin Chaos
    BY <1>1, <1>4 DEF Requested, Chaos
  <2>2. /\ Shaped(d) /\ cmd.args # << >>
        /\ cmd.args[1] # "TRANSPORT" => d.transport = config[c].transport
        /\ cmd.args[1] = "TRANSPORT" => d.transport \in TransportUpdated(config[c].transport, cmd.args)
    BY <1>2, <2>1, Applied
  <2>3. d.transport.fault # "OFF" => d.transport.truncate = "OFF"
    BY <2>2, TransportAsked DEF Servable, FaultExcludesTruncate
  <2>4. d.transport.fault = "RESET" => c \in Tcp
    BY <1>1, <1>4 DEF Refused, RequiresTcp
  <2> QED
    BY <2>1, <2>2, <2>3, <2>4 DEF Servable
<1> QED
  BY <1>2, <1>3, <1>4

-----------------------------------------------------------------------------
(* The commands a connection had accepted. *)

Entries == [conn : Conns, cmd : Commands, ok : BOOLEAN]

\* Last, of a given history.
LastIn(h, c, S) ==
    LET at == {i \in 1..Len(h) : h[i].conn = c /\ h[i].ok /\ h[i].cmd \in S}
    IN  {h[i].cmd : i \in {i \in at : \A j \in at : j <= i}}

\* A command accepted is the last one of every set it is in, and no other
\* command is the last of anything new.
LEMMA LastAppended ==
    ASSUME NEW h \in Seq(Entries), NEW e \in Entries, NEW c, NEW S
    PROVE  LastIn(Append(h, e), c, S) =
               IF e.conn = c /\ e.ok /\ e.cmd \in S THEN {e.cmd} ELSE LastIn(h, c, S)
<1> DEFINE g == Append(h, e)
           old == {i \in 1..Len(h) : h[i].conn = c /\ h[i].ok /\ h[i].cmd \in S}
           new == {i \in 1..Len(g) : g[i].conn = c /\ g[i].ok /\ g[i].cmd \in S}
<1>1. /\ Len(h) \in Nat /\ Len(g) = Len(h) + 1 /\ g[Len(h) + 1] = e
      /\ \A i \in 1..Len(h) : g[i] = h[i]
  OBVIOUS
<1> HIDE DEF g
<1>2. 1..Len(g) = (1..Len(h)) \cup {Len(h) + 1}
  BY <1>1
<1>3. CASE e.conn = c /\ e.ok /\ e.cmd \in S
  <2>1. Len(h) + 1 \in new
    BY <1>1, <1>2, <1>3
  <2>2. \A i \in new : i \in Nat /\ i <= Len(h) + 1
    BY <1>1
  <2>3. {i \in new : \A j \in new : j <= i} = {Len(h) + 1}
    BY <1>1, <2>1, <2>2
  <2> HIDE DEF new
  <2>4. {g[i].cmd : i \in {i \in new : \A j \in new : j <= i}} = {e.cmd}
    BY <1>1, <2>3
  <2> QED
    BY <1>3, <2>4 DEF LastIn, g, new
<1>4. CASE ~(e.conn = c /\ e.ok /\ e.cmd \in S)
  <2>1. new = old
    BY <1>1, <1>2, <1>4
  <2>2. \A i \in old : g[i] = h[i]
    BY <1>1
  <2> HIDE DEF new, old
  <2>3. {g[i].cmd : i \in {i \in new : \A j \in new : j <= i}}
            = {h[i].cmd : i \in {i \in old : \A j \in old : j <= i}}
    BY <2>1, <2>2
  <2> QED
    BY <1>4, <2>3 DEF LastIn, g, new, old
<1> QED
  BY <1>3, <1>4

\* The settings k of connection c are those of the commands it had accepted
\* in the history h.
Agrees(k, h, c) ==
    /\ LastIn(h, c, Chaos \cup Evil("MODE")) \subseteq Quieting => k.mode = "OFF"
    /\ LastIn(h, c, Chaos \cup Evil("TOPOLOGY")) \subseteq Quieting => k.topology = 0
    /\ LastIn(h, c, Chaos \cup Evil("TRANSPORT")) \subseteq Quieting
          => k.transport = DefaultTransport
    /\ LastIn(h, c, Evil("EXCLUDE")) = {} => k.exclude = DefaultExcluded
    /\ \A cmd \in LastIn(h, c, Changes) \cap Chaos :
          /\ cmd.args[1] \in DOMAIN Numerals
          /\ PresetSettings(k, Percent * Numerals[cmd.args[1]])

\* A command that switches a family off is one of DEBUG EVIL, with two words.
LEMMA QuietingWords ==
    ASSUME NEW cmd \in Quieting
    PROVE  /\ cmd.family = "EVIL"
           /\ cmd.args[1] = "MODE" => cmd.args[2] \in {"RESET", "OFF"}
           /\ cmd.args[1] = "TOPOLOGY" => cmd.args[2] \in {"OFF", "0"}
           /\ cmd.args[1] = "TRANSPORT" => cmd.args = <<"TRANSPORT", "OFF">>
<1>1. PICK a : /\ \/ a = <<"MODE", "RESET">> \/ a = <<"MODE", "OFF">>
                  \/ a = <<"TOPOLOGY", "OFF">> \/ a = <<"TOPOLOGY", "0">>
                  \/ a = <<"TRANSPORT", "OFF">>
               /\ cmd = [family |-> "EVIL", args |-> a]
  BY Zenon DEF Quieting
<1>2. a = cmd.args /\ cmd.family = "EVIL"
  BY <1>1
<1>3. CASE a = <<"MODE", "RESET">>
  BY <1>2, <1>3
<1>4. CASE a = <<"MODE", "OFF">>
  BY <1>2, <1>4
<1>5. CASE a = <<"TOPOLOGY", "OFF">>
  BY <1>2, <1>5
<1>6. CASE a = <<"TOPOLOGY", "0">>
  BY <1>2, <1>6
<1>7. CASE a = <<"TRANSPORT", "OFF">>
  BY <1>2, <1>7
<1> QED
  BY <1>1, <1>3, <1>4, <1>5, <1>6, <1>7

\* TOPOLOGY OFF and TOPOLOGY 0 ask for a probability of zero.
LEMMA TopologyZero ==
    ASSUME NEW a, a[2] \in {"OFF", "0"}, NEW t \in TopologyParse(a)
    PROVE  t.topology = 0
<1>1. a[2] # "REDIRECT"
  OBVIOUS
<1>2. PICK p \in IF a[2] = "OFF" THEN {0} ELSE Probability(a[2]) :
         t = [topology |-> p, redirect |-> NoRedirect]
  BY <1>1 DEF TopologyParse
<1>3. ASSUME a[2] # "OFF" PROVE p = 0
  <2>1. "0" \in DOMAIN Numerals /\ p = Percent * Numerals["0"]
    BY <1>2, <1>3 DEF Probability
  <2>2. Numerals["0"] = 0
    BY <2>1, ConfigAssumption
  <2> QED
    BY <2>1, <2>2 DEF Percent
<1> QED
  BY <1>2, <1>3

\* The settings agree with the history also after an accepted command.
LEMMA AcceptedAgrees ==
    ASSUME NEW c \in Conns, NEW cmd \in Commands, NEW h \in Seq(Entries),
           Shaped(config[c]), Servable(config[c], c), Agrees(config[c], h, c),
           Outcome(c, cmd).ok, NEW d, d = Outcome(c, cmd).config
    PROVE  Agrees(d, Append(h, [conn |-> c, cmd |-> cmd, ok |-> TRUE]), c)
<1> DEFINE e == [conn |-> c, cmd |-> cmd, ok |-> TRUE]
           g == Append(h, e)
           k == config[c]
<1>1. e \in Entries
  BY DEF Entries
<1>2. ASSUME NEW S PROVE LastIn(g, c, S) = IF cmd \in S THEN {cmd} ELSE LastIn(h, c, S)
  <2>1. e.conn = c /\ e.ok /\ e.cmd = cmd
    OBVIOUS
  <2> HIDE DEF e
  <2> QED
    BY <1>1, <2>1, LastAppended
<1> HIDE DEF g
<1>3. /\ cmd.args # << >>
      /\ cmd \in Chaos => /\ cmd.args[1] \in DOMAIN Numerals
                          /\ PresetSettings(d, Percent * Numerals[cmd.args[1]])
                          /\ d.exclude = k.exclude
      /\ cmd \notin Chaos => d \in ApplyDebugCommand(k, cmd.args)
  BY AcceptedSets
<1>4. cmd.args \in Seq(STRING) /\ cmd.family \in {"EVIL", "CHAOS"}
  BY CommandParts
<1>5. /\ cmd \in Chaos <=> cmd.family = "CHAOS"
      /\ \A word : cmd \in Evil(word) <=> cmd.family = "EVIL" /\ cmd.args[1] = word
  BY <1>3 DEF Chaos, Evil
<1>6. cmd.family = "EVIL" =>
        /\ cmd.args[1] # "MODE" => d.mode = k.mode
        /\ cmd.args[1] # "TOPOLOGY" => d.topology = k.topology
        /\ cmd.args[1] # "TRANSPORT" => d.transport = k.transport
        /\ cmd.args[1] # "EXCLUDE" => d.exclude = k.exclude
        /\ cmd.args[1] = "MODE" => d \in SetMode(k, cmd.args)
        /\ cmd.args[1] = "TOPOLOGY" => d \in SetTopology(k, cmd.args)
        /\ cmd.args[1] = "TRANSPORT" => d.transport \in TransportUpdated(k.transport, cmd.args)
        /\ cmd.args[1] \in {"HELP", "STATUS"} => d = k /\ Len(cmd.args) = 1
  BY <1>3, <1>4, <1>5, Applied
<1>7. ASSUME LastIn(g, c, Chaos \cup Evil("MODE")) \subseteq Quieting PROVE d.mode = "OFF"
  <2>1. CASE cmd \in Chaos \cup Evil("MODE")
    <3>1. cmd \in Quieting
      BY <1>2, <1>7, <2>1
    <3>2. cmd.family = "EVIL" /\ cmd.args[1] = "MODE" /\ cmd.args[2] \in {"RESET", "OFF"}
      BY <1>5, <2>1, <3>1, QuietingWords
    <3> QED
      BY <1>4, <1>6, <3>2, ModeSet
  <2>2. CASE cmd \notin Chaos \cup Evil("MODE")
    BY <1>2, <1>4, <1>5, <1>6, <1>7, <2>2 DEF Agrees
  <2> QED
    BY <2>1, <2>2
<1>8. ASSUME LastIn(g, c, Chaos \cup Evil("TOPOLOGY")) \subseteq Quieting PROVE d.topology = 0
  <2>1. CASE cmd \in Chaos \cup Evil("TOPOLOGY")
    <3>1. cmd \in Quieting
      BY <1>2, <1>8, <2>1
    <3>2. cmd.family = "EVIL" /\ cmd.args[1] = "TOPOLOGY" /\ cmd.args[2] \in {"OFF", "0"}
      BY <1>5, <2>1, <3>1, QuietingWords
    <3> QED
      BY <1>6, <3>2, TopologySet, TopologyZero
  <2>2. CASE cmd \notin Chaos \cup Evil("TOPOLOGY")
    BY <1>2, <1>4, <1>5, <1>6, <1>8, <2>2 DEF Agrees
  <2> QED
    BY <2>1, <2>2
<1>9. ASSUME LastIn(g, c, Chaos \cup Evil("TRANSPORT")) \subseteq Quieting
      PROVE  d.transport = DefaultTransport
  <2>1. CASE cmd \in Chaos \cup Evil("TRANSPORT")
    <3>1. cmd \in Quieting
      BY <1>2, <1>9, <2>1
    <3>2. cmd.family = "EVIL" /\ cmd.args[1] = "TRANSPORT" /\ cmd.args = <<"TRANSPORT", "OFF">>
      BY <1>5, <2>1, <3>1, QuietingWords
    <3> QED
      BY <1>6, <3>2 DEF TransportUpdated
  <2>2. CASE cmd \notin Chaos \cup Evil("TRANSPORT")
    BY <1>2, <1>4, <1>5, <1>6, <1>9, <2>2 DEF Agrees
  <2> QED
    BY <2>1, <2>2
<1>10. ASSUME LastIn(g, c, Evil("EXCLUDE")) = {} PROVE d.exclude = DefaultExcluded
  <2>1. cmd \notin Evil("EXCLUDE") /\ LastIn(h, c, Evil("EXCLUDE")) = {}
    BY <1>2, <1>10
  <2>2. d.exclude = k.exclude
    BY <1>3, <1>4, <1>5, <1>6, <2>1
  <2> QED
    BY <2>1, <2>2 DEF Agrees
<1>11. ASSUME NEW b \in LastIn(g, c, Changes) \cap Chaos
       PROVE  /\ b.args[1] \in DOMAIN Numerals
              /\ PresetSettings(d, Percent * Numerals[b.args[1]])
  <2>1. CASE cmd \in Changes
    <3>1. b = cmd
      BY <1>2, <2>1
    <3> QED
      BY <1>3, <3>1
  <2>2. CASE cmd \notin Changes
    <3>1. cmd.family = "EVIL" /\ (cmd.args = <<"STATUS">> \/ cmd.args = <<"HELP">>)
      BY <2>2 DEF Changes, IsStatus, IsHelp
    <3>2. cmd.args[1] \in {"HELP", "STATUS"}
      BY <3>1
    <3>3. d = k /\ b \in LastIn(h, c, Changes) \cap Chaos
      BY <1>2, <1>6, <2>2, <3>1, <3>2
    <3> QED
      BY <3>3 DEF Agrees
  <2> QED
    BY <2>1, <2>2
<1> QED
  BY <1>7, <1>8, <1>9, <1>10, <1>11 DEF Agrees, g

-----------------------------------------------------------------------------
(* The invariant. *)

ConnInv(c) ==
    /\ Shaped(config[c]) /\ Servable(config[c], c) /\ Agrees(config[c], history, c)
    /\ phase[c] = "NEW" => config[c] = DefaultConfig

IInv ==
    /\ phase \in [Conns -> {"NEW", "OPEN", "CLOSED"}]
    /\ fresh \subseteq {c \in Conns : phase[c] = "OPEN"}
    /\ DOMAIN config = Conns /\ config = [c \in Conns |-> config[c]]
    /\ history \in Seq(Entries)
    /\ \A c \in Conns : ConnInv(c)

\* The settings of a new connection are well shaped.
LEMMA DefaultShaped == Shaped(DefaultConfig)
BY DEF DefaultConfig, Shaped, Fields, GeneratorFields

\* The invariant holds before any connection.
LEMMA InitIInv == Init => IInv
<1> SUFFICES ASSUME Init PROVE IInv
  OBVIOUS
<1>1. /\ phase \in [Conns -> {"NEW", "OPEN", "CLOSED"}] /\ fresh = {} /\ history = << >>
      /\ DOMAIN config = Conns /\ config = [c \in Conns |-> config[c]]
      /\ \A c \in Conns : config[c] = DefaultConfig
  BY DEF Init
<1>2. ASSUME NEW c \in Conns PROVE ConnInv(c)
  <2>1. \A S : LastIn(history, c, S) = {}
    BY <1>1 DEF LastIn
  <2>2. /\ DefaultConfig.mode = "OFF" /\ DefaultConfig.topology = 0
        /\ DefaultConfig.transport = DefaultTransport /\ DefaultConfig.exclude = DefaultExcluded
    BY DEF DefaultConfig
  <2>3. Servable(DefaultConfig, c)
    BY <2>2 DEF Servable, DefaultTransport
  <2>4. Agrees(DefaultConfig, history, c)
    BY <2>1, <2>2 DEF Agrees
  <2> QED
    BY <1>1, <2>3, <2>4, DefaultShaped DEF ConnInv
<1> QED
  BY <1>1, <1>2 DEF IInv

\* A client that connects has the settings every connection starts with.
LEMMA ConnectKeeps ==
    ASSUME IInv, NEW c \in Conns, Connect(c)
    PROVE  config' = config /\ history' = history
<1>1. config[c] = DefaultConfig
  BY DEF IInv, ConnInv, Connect
<1> QED
  BY <1>1 DEF IInv, Connect

\* What a command does, in one place.
LEMMA DebugStep ==
    ASSUME IInv, NEW c \in Conns, NEW cmd \in Commands, Debug(c, cmd)
    PROVE  LET o == Outcome(c, cmd)
           IN  /\ o.ok \in BOOLEAN
               /\ config' = [config EXCEPT ![c] = o.config]
               /\ history' = Append(history, [conn |-> c, cmd |-> cmd, ok |-> o.ok])
               /\ [conn |-> c, cmd |-> cmd, ok |-> o.ok] \in Entries
               /\ fresh' = IF o.ok /\ IsReset(cmd) THEN {c} ELSE fresh
               /\ phase' = phase /\ phase[c] = "OPEN"
               /\ ~o.ok => o.config = config[c] /\ config' = config /\ fresh' = fresh
<1> DEFINE o == Outcome(c, cmd)
<1>1. o.ok \in BOOLEAN
  <2>1. PICK x : o = [ok |-> FALSE, config |-> x] \/ o = [ok |-> TRUE, config |-> x]
    BY OutcomeCases
  <2>2. o.ok = FALSE \/ o.ok = TRUE
    BY <2>1
  <2> QED
    BY <2>2, Zenon
<1>2. /\ config' = [config EXCEPT ![c] = o.config]
      /\ history' = Append(history, [conn |-> c, cmd |-> cmd, ok |-> o.ok])
      /\ fresh' = IF o.ok /\ IsReset(cmd) THEN {c} ELSE fresh
      /\ phase' = phase /\ phase[c] = "OPEN"
  BY DEF Debug, IInv
<1>3. ~o.ok => o.config = config[c]
  BY RejectedKeeps DEF IInv, ConnInv
<1> HIDE DEF o
<1>4. ~o.ok => config' = config
  BY <1>2, <1>3 DEF IInv
<1>5. [conn |-> c, cmd |-> cmd, ok |-> o.ok] \in Entries
  BY <1>1 DEF Entries
<1> QED
  BY <1>1, <1>2, <1>3, <1>4, <1>5 DEF o

\* Every step keeps the invariant.
LEMMA NextIInv == IInv /\ [Next]_vars => IInv'
<1> SUFFICES ASSUME IInv, [Next]_vars PROVE IInv'
  OBVIOUS
<1>1. ASSUME NEW c \in Conns, Connect(c) PROVE IInv'
  <2>1. config' = config /\ history' = history
    BY <1>1, ConnectKeeps
  <2>2. /\ phase' = [phase EXCEPT ![c] = "OPEN"] /\ fresh' = fresh \cup {c}
    BY <1>1 DEF Connect
  <2>3. ASSUME NEW d \in Conns PROVE ConnInv(d)'
    BY <2>1, <2>2, <2>3 DEF IInv, ConnInv
  <2> QED
    BY <2>1, <2>2, <2>3 DEF IInv
<1>2. ASSUME NEW c \in Conns, Disconnect(c) PROVE IInv'
  <2>1. /\ config' = config /\ history' = history
        /\ phase' = [phase EXCEPT ![c] = "CLOSED"] /\ fresh' = fresh \ {c}
    BY <1>2 DEF Disconnect
  <2>2. ASSUME NEW d \in Conns PROVE ConnInv(d)'
    BY <2>1, <2>2 DEF IInv, ConnInv
  <2> QED
    BY <2>1, <2>2 DEF IInv
<1>3. ASSUME NEW c \in Conns, NEW cmd \in Commands, Debug(c, cmd) PROVE IInv'
  <2> DEFINE o == Outcome(c, cmd)
             e == [conn |-> c, cmd |-> cmd, ok |-> o.ok]
  <2>1. /\ o.ok \in BOOLEAN /\ e \in Entries
        /\ config' = [config EXCEPT ![c] = o.config] /\ history' = Append(history, e)
        /\ fresh' = IF o.ok /\ IsReset(cmd) THEN {c} ELSE fresh
        /\ phase' = phase /\ phase[c] = "OPEN"
        /\ ~o.ok => o.config = config[c]
    BY <1>3, DebugStep
  <2>2. /\ DOMAIN config' = Conns /\ config' = [d \in Conns |-> config'[d]]
        /\ config'[c] = o.config /\ \A d \in Conns \ {c} : config'[d] = config[d]
    <3> HIDE DEF o
    <3> QED
      BY <2>1 DEF IInv
  <2>3. history \in Seq(Entries) /\ history' \in Seq(Entries)
    <3> HIDE DEF e
    <3> QED
      BY <2>1 DEF IInv
  <2>4. ConnInv(c)'
    <3>0. Shaped(config[c]) /\ Servable(config[c], c) /\ Agrees(config[c], history, c)
      BY DEF IInv, ConnInv
    <3>1. CASE o.ok
      <4>1. Shaped(o.config) /\ Servable(o.config, c)
        BY <3>0, <3>1, AcceptedSets
      <4>2. e = [conn |-> c, cmd |-> cmd, ok |-> TRUE]
        BY <2>1, <3>1
      <4>3. Agrees(o.config, Append(history, [conn |-> c, cmd |-> cmd, ok |-> TRUE]), c)
        BY <2>3, <3>0, <3>1, AcceptedAgrees
      <4> HIDE DEF o, e
      <4> QED
        BY <2>1, <2>2, <4>1, <4>2, <4>3 DEF ConnInv, Servable, Shaped
    <3>2. CASE ~o.ok
      <4>1. e.ok = o.ok
        OBVIOUS
      <4> HIDE DEF o, e
      <4>2. \A S : LastIn(history', c, S) = LastIn(history, c, S)
        BY <2>1, <2>3, <3>2, <4>1, LastAppended
      <4>3. Agrees(config[c], history', c)
        BY <3>0, <4>2 DEF Agrees
      <4> QED
        BY <2>1, <2>2, <3>0, <3>2, <4>3 DEF ConnInv, Servable, Shaped
    <3> QED
      BY <3>1, <3>2
  <2>5. ASSUME NEW d \in Conns \ {c} PROVE ConnInv(d)'
    <3>0. e.conn = c
      OBVIOUS
    <3> HIDE DEF o, e
    <3>1. \A S : LastIn(history', d, S) = LastIn(history, d, S)
      BY <2>1, <2>3, <3>0, LastAppended
    <3>2. ConnInv(d) /\ config'[d] = config[d] /\ phase' = phase
      BY <2>1, <2>2 DEF IInv
    <3>3. Agrees(config[d], history', d)
      BY <3>1, <3>2 DEF ConnInv, Agrees
    <3> QED
      BY <3>2, <3>3 DEF ConnInv, Servable, Shaped
  <2> HIDE DEF o, e
  <2>6. fresh' \subseteq {d \in Conns : phase'[d] = "OPEN"}
    BY <2>1 DEF IInv
  <2> QED
    BY <2>1, <2>2, <2>3, <2>4, <2>5, <2>6 DEF IInv
<1>4. CASE UNCHANGED vars
  <2>1. UNCHANGED <<phase, fresh, config, history>>
    BY <1>4 DEF vars
  <2>2. ASSUME NEW d \in Conns PROVE ConnInv(d)'
    BY <2>1, <2>2 DEF IInv, ConnInv
  <2> QED
    BY <2>1, <2>2 DEF IInv
<1> QED
  BY <1>1, <1>2, <1>3, <1>4 DEF Next

-----------------------------------------------------------------------------
(* What follows from it. *)

\* After any sequence of commands the transport settings are ones a plan can
\* be made of: no FAULT with TRUNCATE, no TCP reset on a Unix client.
THEOREM TransportStaysServable == Spec => []TransportServable
<1>1. IInv => TransportServable
  BY DEF IInv, ConnInv, Servable, TransportServable
<1> QED
  BY <1>1, InitIInv, NextIInv, PTL DEF Spec

\* Settings that are off touch no reply.
LEMMA QuietTouches ==
    ASSUME NEW k, k.mode = "OFF", k.topology = 0, k.transport = DefaultTransport, NEW n
    PROVE  Touches(k, n) = {}
<1>1. ~TransportEnabled(k.transport)
  BY DEF TransportEnabled, DefaultTransport
<1>2. ASSUME NEW f \in Touches(k, n) PROVE FALSE
  <2>1. f \in {"RANDOM", "MUTATE", "EXEC", "LENGTH", "TOPOLOGY", "TRANSPORT"}
    BY <1>2 DEF Touches
  <2>2. CASE f \in {"RANDOM", "MUTATE", "EXEC", "LENGTH"}
    BY <1>2, <2>2 DEF Touches
  <2>3. CASE f = "TOPOLOGY"
    BY <1>2, <2>3 DEF Touches
  <2>4. CASE f = "TRANSPORT"
    BY <1>1, <1>2, <2>4 DEF Touches
  <2> QED
    BY <2>1, <2>2, <2>3, <2>4
<1> QED
  BY <1>2

\* A name on the exclude list is never touched, whatever the settings.
LEMMA ExcludedTouches ==
    ASSUME NEW k, NEW n \in k.exclude
    PROVE  Touches(k, n) = {}
<1>1. ~ShouldMutate(k, n)
  BY DEF ShouldMutate, MatchesCommand
<1> QED
  BY <1>1 DEF Touches

\* A connection on which every family of faults was last switched off has its
\* replies left alone, and no setting touches a command that is excluded from
\* the start as long as the client leaves the exclude list alone.
THEOREM QuietRepliesLeftAlone == Spec => []RepliesLeftAlone
<1>1. IInv => RepliesLeftAlone
  <2> SUFFICES ASSUME IInv PROVE RepliesLeftAlone
    OBVIOUS
  <2>1. \A c, S : Last(c, S) = LastIn(history, c, S)
    BY DEF Last, LastIn
  <2>2. QuietWhenSwitchedOff
    <3> SUFFICES ASSUME NEW c \in Conns, NEW n \in Names,
                        \A word \in {"MODE", "TOPOLOGY", "TRANSPORT"} :
                            Last(c, Chaos \cup Evil(word)) \subseteq Quieting
                 PROVE  Touches(config[c], n) = {}
      BY DEF QuietWhenSwitchedOff
    <3>1. Agrees(config[c], history, c)
      BY DEF IInv, ConnInv
    <3>2. /\ LastIn(history, c, Chaos \cup Evil("MODE")) \subseteq Quieting
          /\ LastIn(history, c, Chaos \cup Evil("TOPOLOGY")) \subseteq Quieting
          /\ LastIn(history, c, Chaos \cup Evil("TRANSPORT")) \subseteq Quieting
      BY <2>1
    <3> QED
      BY <3>1, <3>2, QuietTouches DEF Agrees
  <2>3. DefaultExcludedUntouched
    BY <2>1, ExcludedTouches DEF DefaultExcludedUntouched, IInv, ConnInv, Agrees
  <2> QED
    BY <2>2, <2>3 DEF RepliesLeftAlone
<1> QED
  BY <1>1, InitIInv, NextIInv, PTL DEF Spec

\* Two settings of the same preset that agree in what a preset leaves alone
\* are the same.
LEMMA SamePreset ==
    ASSUME NEW j, NEW k, NEW t, Shaped(j), Shaped(k), PresetSettings(j, t), PresetSettings(k, t),
           j.seed = k.seed, j.include = k.include, j.exclude = k.exclude,
           j.canonicalization = k.canonicalization, j.generator.protocol = k.generator.protocol
    PROVE  j = k
<1>1. j.generator = k.generator
  <2>1. \A f \in GeneratorFields : j.generator[f] = k.generator[f]
    BY DEF PresetSettings, GeneratorFields
  <2> QED
    BY <2>1 DEF Shaped
<1>2. \A f \in Fields : j[f] = k[f]
  BY <1>1 DEF PresetSettings, Fields
<1> QED
  BY <1>2 DEF Shaped

\* A preset touches replies with the faults of its band only.
LEMMA PresetBand ==
    ASSUME NEW k, NEW x \in Int, PresetSettings(k, Percent * x), NEW n
    PROVE  Touches(k, n) \subseteq Band(x)
<1> DEFINE t == Percent * x
<1>1. /\ \A y, z : Beyond(t, 0, y, z) = IF x > 0 THEN y ELSE z
      /\ \A y, z : Beyond(t, 25, y, z) = IF x > 25 THEN y ELSE z
      /\ \A y, z : Beyond(t, 50, y, z) = IF x > 50 THEN y ELSE z
      /\ \A y, z : Beyond(t, 75, y, z) = IF x > 75 THEN y ELSE z
  BY DEF Beyond, Percent
<1>2. PresetTopology(t) > 0 => x > 50
  BY DEF PresetTopology, Max0, Percent
<1> HIDE DEF t
<1>3. PresetSettings(k, t)
  BY DEF t
<1>4. k.mode \in {"MUTATE", "OFF"} /\ (k.mode = "MUTATE" => x > 0)
  BY <1>1, <1>3 DEF PresetSettings
<1>5. k.exec.action # "OFF" => x > 25
  BY <1>1, <1>3 DEF PresetSettings, PresetExec, DefaultExec
<1>6. k.framing.kind = "LENGTH" => x > 50
  <2>1. ~(x > 50) => k.framing = NoFraming("OFF")
    BY <1>1, <1>3 DEF PresetSettings, PresetFraming
  <2>2. NoFraming("OFF").kind = "OFF"
    BY DEF NoFraming, Framing
  <2> QED
    BY <2>1, <2>2
<1>7. k.topology > 0 => x > 50
  BY <1>2, <1>3 DEF PresetSettings
<1>8. TransportEnabled(k.transport) => x > 75
  BY <1>1, <1>3 DEF PresetSettings, PresetTransport, TransportEnabled, DefaultTransport
<1>9. ASSUME NEW f \in Touches(k, n) PROVE f \in Band(x)
  <2>1. f \in {"RANDOM", "MUTATE", "EXEC", "LENGTH", "TOPOLOGY", "TRANSPORT"}
    BY <1>9 DEF Touches
  <2>2. CASE f = "RANDOM"
    BY <1>4, <1>9, <2>2 DEF Touches
  <2>3. CASE f = "MUTATE"
    BY <1>4, <1>9, <2>3 DEF Touches, Band
  <2>4. CASE f = "EXEC"
    BY <1>5, <1>9, <2>4 DEF Touches, Band
  <2>5. CASE f = "LENGTH"
    BY <1>6, <1>9, <2>5 DEF Touches, Band
  <2>6. CASE f = "TOPOLOGY"
    BY <1>7, <1>9, <2>6 DEF Touches, Band
  <2>7. CASE f = "TRANSPORT"
    BY <1>8, <1>9, <2>7 DEF Touches, Band
  <2> QED
    BY <2>1, <2>2, <2>3, <2>4, <2>5, <2>6, <2>7
<1> QED
  BY <1>9

\* Right after a DEBUG CHAOS nothing of the fault settings before it is left,
\* and nothing beyond the band of its temperature is switched on.
THEOREM PresetsReplace == Spec => []PresetReplaces
<1>1. IInv => PresetReplaces
  <2> SUFFICES ASSUME IInv PROVE PresetReplaces
    OBVIOUS
  <2>1. \A c : LastChange(c) = LastIn(history, c, Changes)
    BY DEF LastChange, Last, LastIn
  <2>2. ASSUME NEW c \in Conns, NEW cmd \in LastChange(c) \cap Chaos
        PROVE  /\ Shaped(config[c]) /\ Numerals[cmd.args[1]] \in Int
               /\ PresetSettings(config[c], Percent * Numerals[cmd.args[1]])
    <3>1. /\ cmd.args[1] \in DOMAIN Numerals /\ Shaped(config[c])
          /\ PresetSettings(config[c], Percent * Numerals[cmd.args[1]])
      BY <2>1, <2>2 DEF IInv, ConnInv, Agrees
    <3> QED
      BY <3>1, ConfigAssumption
  <2>3. PresetForgets
    <3> SUFFICES ASSUME NEW c \in Conns, NEW d \in Conns, LastChange(c) = LastChange(d),
                        LastChange(c) \cap Chaos # {},
                        \A f \in {"seed", "include", "exclude", "canonicalization"} :
                            config[c][f] = config[d][f],
                        config[c].generator.protocol = config[d].generator.protocol
                 PROVE  config[c] = config[d]
      BY DEF PresetForgets
    <3>1. PICK cmd : cmd \in LastChange(c) \cap Chaos /\ cmd \in LastChange(d) \cap Chaos
      OBVIOUS
    <3>2. PICK t : t = Percent * Numerals[cmd.args[1]]
      OBVIOUS
    <3>3. /\ Shaped(config[c]) /\ PresetSettings(config[c], t)
          /\ Shaped(config[d]) /\ PresetSettings(config[d], t)
      BY <2>2, <3>1, <3>2
    <3> QED
      BY <3>3, SamePreset
  <2>4. PresetWithinBand
    BY <2>2, PresetBand, PresetServable DEF PresetWithinBand
  <2> QED
    BY <2>3, <2>4 DEF PresetReplaces
<1> QED
  BY <1>1, InitIInv, NextIInv, PTL DEF Spec

-----------------------------------------------------------------------------
(* The counters. *)

AcceptedIn(h, S) == {i \in 1..Len(h) : h[i].ok /\ h[i].cmd \in S}
RejectedIn(h) == {i \in 1..Len(h) : ~h[i].ok}

\* One more command is one more of those it is among.
LEMMA CountAppended ==
    ASSUME NEW h \in Seq(Entries), NEW e \in Entries, NEW S
    PROVE  /\ Cardinality(AcceptedIn(h, S)) \in Nat
           /\ Cardinality(AcceptedIn(Append(h, e), S)) =
                  Cardinality(AcceptedIn(h, S)) + (IF e.ok /\ e.cmd \in S THEN 1 ELSE 0)
           /\ Cardinality(RejectedIn(h)) \in Nat
           /\ Cardinality(RejectedIn(Append(h, e))) =
                  Cardinality(RejectedIn(h)) + (IF e.ok THEN 0 ELSE 1)
<1> DEFINE g == Append(h, e)
<1>1. /\ Len(h) \in Nat /\ Len(g) = Len(h) + 1 /\ g[Len(h) + 1] = e
      /\ \A i \in 1..Len(h) : g[i] = h[i]
  OBVIOUS
<1> HIDE DEF g
<1>2. 1..Len(g) = (1..Len(h)) \cup {Len(h) + 1} /\ Len(h) + 1 \notin 1..Len(h)
  BY <1>1
<1>3. IsFiniteSet(1..Len(h))
  BY <1>1, FS_Interval
<1>4. /\ IsFiniteSet(AcceptedIn(h, S)) /\ IsFiniteSet(RejectedIn(h))
      /\ Len(h) + 1 \notin AcceptedIn(h, S) /\ Len(h) + 1 \notin RejectedIn(h)
  <2>1. AcceptedIn(h, S) \subseteq 1..Len(h) /\ RejectedIn(h) \subseteq 1..Len(h)
    BY DEF AcceptedIn, RejectedIn
  <2> QED
    BY <1>2, <1>3, <2>1, FS_Subset
<1>5. Cardinality(AcceptedIn(h, S)) \in Nat /\ Cardinality(RejectedIn(h)) \in Nat
  BY <1>4, FS_CardinalityType
<1>6. AcceptedIn(g, S) = IF e.ok /\ e.cmd \in S THEN AcceptedIn(h, S) \cup {Len(h) + 1}
                                                ELSE AcceptedIn(h, S)
  BY <1>1, <1>2 DEF AcceptedIn
<1>7. RejectedIn(g) = IF e.ok THEN RejectedIn(h) ELSE RejectedIn(h) \cup {Len(h) + 1}
  BY <1>1, <1>2 DEF RejectedIn
<1>8. /\ Cardinality(AcceptedIn(h, S) \cup {Len(h) + 1}) = Cardinality(AcceptedIn(h, S)) + 1
      /\ Cardinality(RejectedIn(h) \cup {Len(h) + 1}) = Cardinality(RejectedIn(h)) + 1
  BY <1>4, FS_AddElement
<1> QED
  BY <1>5, <1>6, <1>7, <1>8 DEF g

StatsRecords ==
    [clients_total : Nat, clients_active : Nat, evil_updates : Nat, evil_status_reads : Nat,
     evil_rejected : Nat, evil_resets : Nat, modes : [Modes -> Nat]]

\* The commands that select mode m.
Selecting(m) == {cmd \in Evil("MODE") : Word2(cmd) = m}
Resets == {cmd \in Commands : IsReset(cmd)}

Opened == {c \in Conns : phase[c] = "OPEN"}
Arrived == {c \in Conns : phase[c] # "NEW"}

\* The counters of s are those of the history h.
Matches(s, h) ==
    /\ s.evil_status_reads = Cardinality(AcceptedIn(h, Evil("STATUS")))
    /\ s.evil_updates = Cardinality(AcceptedIn(h, Changes))
    /\ s.evil_rejected = Cardinality(RejectedIn(h))
    /\ s.evil_resets = Cardinality(AcceptedIn(h, Resets))
    /\ \A m \in Modes : s.modes[m] = Cardinality(AcceptedIn(h, Selecting(m)))

StatsInv ==
    /\ stats \in StatsRecords /\ Matches(stats, history)
    /\ stats.clients_active = Cardinality(Opened)
    /\ stats.clients_total = Cardinality(Arrived)

\* Nothing has been counted at the start.
LEMMA InitStatsInv == Init => StatsInv
<1> SUFFICES ASSUME Init PROVE StatsInv
  OBVIOUS
<1>1. stats = NoStats /\ history = << >> /\ Opened = {} /\ Arrived = {}
  BY DEF Init, Opened, Arrived
<1>2. \A S : AcceptedIn(<< >>, S) = {}
  BY DEF AcceptedIn
<1>3. RejectedIn(<< >>) = {} /\ Cardinality({}) = 0
  BY FS_EmptySet DEF RejectedIn
<1>4. stats \in StatsRecords
  BY <1>1 DEF NoStats, StatsRecords
<1>5. Matches(NoStats, << >>)
  BY <1>2, <1>3 DEF Matches, NoStats
<1> QED
  BY <1>1, <1>3, <1>4, <1>5 DEF StatsInv, NoStats

\* The commands the counters tell apart are told by their words.
LEMMA Words ==
    ASSUME NEW a \in Seq(STRING)
    PROVE  /\ a = <<"STATUS">> <=> Len(a) = 1 /\ a[1] = "STATUS"
           /\ a = <<"HELP">> <=> Len(a) = 1 /\ a[1] = "HELP"
           /\ a = <<"MODE", "RESET">> <=> Len(a) = 2 /\ a[1] = "MODE" /\ a[2] = "RESET"
<1>1. a = <<"STATUS">> <=> Len(a) = 1 /\ a[1] = "STATUS"
  <2>1. ASSUME Len(a) = 1, a[1] = "STATUS" PROVE a = <<"STATUS">>
    BY <2>1
  <2> QED
    BY <2>1
<1>2. a = <<"HELP">> <=> Len(a) = 1 /\ a[1] = "HELP"
  <2>1. ASSUME Len(a) = 1, a[1] = "HELP" PROVE a = <<"HELP">>
    BY <2>1
  <2> QED
    BY <2>1
<1>3. a = <<"MODE", "RESET">> <=> Len(a) = 2 /\ a[1] = "MODE" /\ a[2] = "RESET"
  <2>1. ASSUME Len(a) = 2, a[1] = "MODE", a[2] = "RESET" PROVE a = <<"MODE", "RESET">>
    BY <2>1
  <2> QED
    BY <2>1
<1> QED
  BY <1>1, <1>2, <1>3

\* What an accepted command is to the counters and to the history is the same.
LEMMA AcceptedKinds ==
    ASSUME NEW c, NEW cmd \in Commands, Shaped(config[c]), Servable(config[c], c),
           Outcome(c, cmd).ok
    PROVE  /\ cmd \in Evil("STATUS") <=> IsStatus(cmd)
           /\ cmd \in Changes <=> ~IsStatus(cmd) /\ ~IsHelp(cmd)
           /\ cmd \in Resets <=> IsReset(cmd)
           /\ SelectsMode(cmd) => Outcome(c, cmd).config.mode \in Modes
           /\ \A m \in Modes : cmd \in Selecting(m)
                  <=> SelectsMode(cmd) /\ m = Outcome(c, cmd).config.mode
           /\ IsStatus(cmd) \/ IsHelp(cmd) => ~SelectsMode(cmd) /\ ~IsReset(cmd)
           /\ IsStatus(cmd) => ~IsHelp(cmd)
<1> DEFINE d == Outcome(c, cmd).config
<1>1. cmd.args # << >> /\ (cmd \notin Chaos => d \in ApplyDebugCommand(config[c], cmd.args))
  BY AcceptedSets
<1>2. cmd.family \in {"EVIL", "CHAOS"} /\ cmd.args \in Seq(STRING)
  BY CommandParts
<1> HIDE DEF d
<1>3. ASSUME cmd.family = "EVIL"
      PROVE  /\ cmd.args[1] \in {"HELP", "STATUS"} => Len(cmd.args) = 1
             /\ cmd.args[1] = "MODE" =>
                  /\ Len(cmd.args) > 1
                  /\ cmd.args[2] # "RESET" => d.mode = cmd.args[2] /\ cmd.args[2] \in Modes
                  /\ cmd.args[2] = "RESET" => Len(cmd.args) = 2
  <2>1. d \in ApplyDebugCommand(config[c], cmd.args)
    BY <1>1, <1>3 DEF Chaos
  <2> QED
    BY <1>2, <2>1, Applied, ModeSet
<1>4. \A word : cmd \in Evil(word) <=> cmd.family = "EVIL" /\ cmd.args[1] = word
  BY <1>1 DEF Evil
<1>5. /\ cmd.args = <<"STATUS">> <=> Len(cmd.args) = 1 /\ cmd.args[1] = "STATUS"
      /\ cmd.args = <<"HELP">> <=> Len(cmd.args) = 1 /\ cmd.args[1] = "HELP"
      /\ cmd.args = <<"MODE", "RESET">>
            <=> Len(cmd.args) = 2 /\ cmd.args[1] = "MODE" /\ cmd.args[2] = "RESET"
  BY <1>2, Words
<1>6. cmd \in Evil("STATUS") <=> IsStatus(cmd)
  BY <1>3, <1>4, <1>5 DEF IsStatus
<1>7. /\ cmd \in Changes <=> ~IsStatus(cmd) /\ ~IsHelp(cmd)
      /\ cmd \in Resets <=> IsReset(cmd)
  BY DEF Changes, Resets
<1>8. SelectsMode(cmd) <=> cmd.family = "EVIL" /\ cmd.args[1] = "MODE" /\ cmd.args[2] # "RESET"
  BY <1>3, <1>5 DEF SelectsMode, IsReset
<1>9. SelectsMode(cmd) => d.mode = cmd.args[2] /\ d.mode \in Modes
  BY <1>3, <1>8
<1>10. ASSUME NEW m \in Modes PROVE cmd \in Selecting(m) <=> SelectsMode(cmd) /\ m = d.mode
  <2>1. m # "RESET" /\ m # ""
    BY <1>10 DEF Modes
  <2>2. cmd \in Evil("MODE") => Word2(cmd) = cmd.args[2]
    BY <1>3, <1>4 DEF Word2
  <2> QED
    BY <1>3, <1>4, <1>8, <1>9, <2>1, <2>2 DEF Selecting
<1>11. /\ IsStatus(cmd) \/ IsHelp(cmd) => ~SelectsMode(cmd) /\ ~IsReset(cmd)
       /\ IsStatus(cmd) => ~IsHelp(cmd)
  BY <1>5, <1>8 DEF IsStatus, IsHelp, IsReset
<1> QED
  BY <1>6, <1>7, <1>9, <1>10, <1>11 DEF d

\* The counters match the history also after a command.
LEMMA DebugCounted ==
    ASSUME IInv, StatsInv, NEW c \in Conns, NEW cmd \in Commands, Debug(c, cmd)
    PROVE  StatsInv'
<1> DEFINE o == Outcome(c, cmd)
           e == [conn |-> c, cmd |-> cmd, ok |-> o.ok]
<1>1. /\ o.ok \in BOOLEAN /\ e \in Entries /\ history' = Append(history, e) /\ phase' = phase
  BY DebugStep
<1>2. stats' = Counted(stats, cmd, o)
  BY DEF Debug
<1>3. Shaped(config[c]) /\ Servable(config[c], c) /\ history \in Seq(Entries)
  BY DEF IInv, ConnInv
<1>4. e.ok = o.ok /\ e.cmd = cmd
  OBVIOUS
<1>5. o.ok =>
        /\ cmd \in Evil("STATUS") <=> IsStatus(cmd)
        /\ cmd \in Changes <=> ~IsStatus(cmd) /\ ~IsHelp(cmd)
        /\ cmd \in Resets <=> IsReset(cmd)
        /\ SelectsMode(cmd) => o.config.mode \in Modes
        /\ \A m \in Modes : cmd \in Selecting(m) <=> SelectsMode(cmd) /\ m = o.config.mode
        /\ IsStatus(cmd) \/ IsHelp(cmd) => ~SelectsMode(cmd) /\ ~IsReset(cmd)
        /\ IsStatus(cmd) => ~IsHelp(cmd)
  BY <1>3, AcceptedKinds
<1> HIDE DEF o, e
<1>6. \A S : /\ Cardinality(AcceptedIn(history, S)) \in Nat
             /\ Cardinality(AcceptedIn(history', S)) =
                  Cardinality(AcceptedIn(history, S)) + (IF o.ok /\ cmd \in S THEN 1 ELSE 0)
  BY <1>1, <1>3, <1>4, CountAppended
<1>7. /\ Cardinality(RejectedIn(history)) \in Nat
      /\ Cardinality(RejectedIn(history')) =
            Cardinality(RejectedIn(history)) + (IF o.ok THEN 0 ELSE 1)
  BY <1>1, <1>3, <1>4, CountAppended
<1>8. stats \in StatsRecords /\ Matches(stats, history)
  BY DEF StatsInv
<1>9. /\ Opened' = Opened /\ Arrived' = Arrived
  BY <1>1 DEF Opened, Arrived
<1>10. CASE ~o.ok
  <2>1. stats' = [stats EXCEPT !.evil_rejected = @ + 1]
    BY <1>2, <1>10 DEF Counted
  <2>2. /\ stats' \in StatsRecords /\ stats'.evil_rejected = stats.evil_rejected + 1
        /\ stats'.evil_status_reads = stats.evil_status_reads
        /\ stats'.evil_updates = stats.evil_updates /\ stats'.evil_resets = stats.evil_resets
        /\ stats'.modes = stats.modes /\ stats'.clients_active = stats.clients_active
        /\ stats'.clients_total = stats.clients_total
    BY <1>8, <2>1 DEF StatsRecords
  <2>3. Matches(stats', history')
    BY <1>6, <1>7, <1>8, <1>10, <2>2 DEF Matches
  <2> QED
    BY <1>9, <2>2, <2>3 DEF StatsInv
<1>11. CASE o.ok /\ IsStatus(cmd)
  <2>1. stats' = [stats EXCEPT !.evil_status_reads = @ + 1]
    BY <1>2, <1>11 DEF Counted
  <2>2. /\ stats' \in StatsRecords /\ stats'.evil_rejected = stats.evil_rejected
        /\ stats'.evil_status_reads = stats.evil_status_reads + 1
        /\ stats'.evil_updates = stats.evil_updates /\ stats'.evil_resets = stats.evil_resets
        /\ stats'.modes = stats.modes /\ stats'.clients_active = stats.clients_active
        /\ stats'.clients_total = stats.clients_total
    BY <1>8, <2>1 DEF StatsRecords
  <2>3. Matches(stats', history')
    BY <1>5, <1>6, <1>7, <1>8, <1>11, <2>2 DEF Matches
  <2> QED
    BY <1>9, <2>2, <2>3 DEF StatsInv
<1>12. CASE o.ok /\ IsHelp(cmd)
  <2>1. stats' = stats
    BY <1>2, <1>5, <1>12 DEF Counted
  <2>2. Matches(stats', history')
    BY <1>5, <1>6, <1>7, <1>8, <1>12, <2>1 DEF Matches
  <2> QED
    BY <1>8, <1>9, <2>1, <2>2 DEF StatsInv
<1>13. CASE o.ok /\ ~IsStatus(cmd) /\ ~IsHelp(cmd)
  <2>1. stats' = [stats EXCEPT !.evil_updates = @ + 1,
                               !.evil_resets = IF IsReset(cmd) THEN @ + 1 ELSE @,
                               !.modes[o.config.mode] = IF SelectsMode(cmd) THEN @ + 1 ELSE @]
    BY <1>2, <1>13 DEF Counted
  <2>2. PICK n \in Nat : n = stats.evil_updates + 1
    BY <1>8 DEF StatsRecords
  <2>3. PICK r \in Nat : r = IF IsReset(cmd) THEN stats.evil_resets + 1 ELSE stats.evil_resets
    BY <1>8 DEF StatsRecords
  <2>4. PICK x : x = [stats.modes EXCEPT ![o.config.mode] =
                         IF SelectsMode(cmd) THEN @ + 1 ELSE @]
    OBVIOUS
  <2>5. stats.modes \in [Modes -> Nat]
    BY <1>8 DEF StatsRecords
  <2>6. /\ x \in [Modes -> Nat]
        /\ \A m \in Modes : x[m] = stats.modes[m] + IF SelectsMode(cmd) /\ m = o.config.mode
                                                    THEN 1 ELSE 0
    <3>1. CASE SelectsMode(cmd)
      <4>1. o.config.mode \in Modes
        BY <1>5, <1>13, <3>1
      <4>2. x = [stats.modes EXCEPT ![o.config.mode] = @ + 1]
        BY <2>4, <3>1
      <4>3. PICK k \in Modes : k = o.config.mode
        BY <4>1
      <4>4. x = [stats.modes EXCEPT ![k] = @ + 1]
        BY <4>2, <4>3
      <4>5. x \in [Modes -> Nat] /\ \A m \in Modes : x[m] = stats.modes[m] + IF m = k THEN 1 ELSE 0
        BY <2>5, <4>4
      <4> QED
        BY <3>1, <4>3, <4>5
    <3>2. CASE ~SelectsMode(cmd)
      <4>1. x = [stats.modes EXCEPT ![o.config.mode] = @]
        BY <2>4, <3>2
      <4>2. x \in [Modes -> Nat] /\ \A m \in Modes : x[m] = stats.modes[m]
        BY <2>5, <4>1
      <4>3. \A m \in Modes : stats.modes[m] + 0 = stats.modes[m]
        BY <2>5
      <4> QED
        BY <3>2, <4>2, <4>3
    <3> QED
      BY <3>1, <3>2
  <2>7. stats' = [stats EXCEPT !.evil_updates = n, !.evil_resets = r, !.modes = x]
    BY <2>1, <2>2, <2>3, <2>4
  <2>8. /\ stats' \in StatsRecords /\ stats'.evil_rejected = stats.evil_rejected
        /\ stats'.evil_status_reads = stats.evil_status_reads
        /\ stats'.evil_updates = n /\ stats'.evil_resets = r
        /\ stats'.modes = x /\ stats'.clients_active = stats.clients_active
        /\ stats'.clients_total = stats.clients_total
    BY <1>8, <2>6, <2>7 DEF StatsRecords
  <2>9. Matches(stats', history')
    <3>1. \A m \in Modes : stats'.modes[m] = Cardinality(AcceptedIn(history', Selecting(m)))
      BY <1>5, <1>6, <1>8, <1>13, <2>6, <2>8 DEF Matches
    <3> QED
      BY <1>5, <1>6, <1>7, <1>8, <1>13, <2>2, <2>3, <2>8, <3>1 DEF Matches
  <2> QED
    BY <1>9, <2>8, <2>9 DEF StatsInv
<1> QED
  BY <1>1, <1>10, <1>11, <1>12, <1>13

\* Every step keeps the counters those of the history and of the connections.
LEMMA NextStatsInv == IInv /\ StatsInv /\ [Next]_vars => StatsInv'
<1> SUFFICES ASSUME IInv, StatsInv, [Next]_vars PROVE StatsInv'
  OBVIOUS
<1>0. /\ phase \in [Conns -> {"NEW", "OPEN", "CLOSED"}] /\ stats \in StatsRecords
      /\ Matches(stats, history)
  BY DEF IInv, StatsInv
<1>1. /\ IsFiniteSet(Opened) /\ IsFiniteSet(Arrived)
      /\ Cardinality(Opened) \in Nat /\ Cardinality(Arrived) \in Nat
  <2>1. Opened \subseteq Conns /\ Arrived \subseteq Conns
    BY DEF Opened, Arrived
  <2>2. IsFiniteSet(Opened) /\ IsFiniteSet(Arrived)
    BY <2>1, ConfigAssumption, FS_Subset
  <2> QED
    BY <2>2, FS_CardinalityType
<1>2. ASSUME NEW c \in Conns, Connect(c) PROVE StatsInv'
  <2>1. /\ phase[c] = "NEW" /\ phase' = [phase EXCEPT ![c] = "OPEN"] /\ history' = history
        /\ stats' = [stats EXCEPT !.clients_total = @ + 1, !.clients_active = @ + 1]
    BY <1>2 DEF Connect
  <2>2. /\ Opened' = Opened \cup {c} /\ c \notin Opened
        /\ Arrived' = Arrived \cup {c} /\ c \notin Arrived
    BY <1>0, <2>1 DEF Opened, Arrived
  <2>3. Cardinality(Opened') = Cardinality(Opened) + 1
        /\ Cardinality(Arrived') = Cardinality(Arrived) + 1
    BY <1>1, <2>2, FS_AddElement
  <2>4. PICK x \in Nat : x = stats.clients_total + 1
    BY <1>0 DEF StatsRecords
  <2>5. PICK y \in Nat : y = stats.clients_active + 1
    BY <1>0 DEF StatsRecords
  <2>6. stats' = [stats EXCEPT !.clients_total = x, !.clients_active = y]
    BY <2>1, <2>4, <2>5
  <2>7. /\ stats' \in StatsRecords /\ stats'.evil_rejected = stats.evil_rejected
        /\ stats'.evil_status_reads = stats.evil_status_reads
        /\ stats'.evil_updates = stats.evil_updates /\ stats'.evil_resets = stats.evil_resets
        /\ stats'.modes = stats.modes /\ stats'.clients_active = y /\ stats'.clients_total = x
    BY <1>0, <2>6 DEF StatsRecords
  <2>8. Matches(stats', history')
    BY <1>0, <2>1, <2>7 DEF Matches
  <2> QED
    BY <2>3, <2>4, <2>5, <2>7, <2>8 DEF StatsInv
<1>3. ASSUME NEW c \in Conns, Disconnect(c) PROVE StatsInv'
  <2>1. /\ phase[c] = "OPEN" /\ phase' = [phase EXCEPT ![c] = "CLOSED"] /\ history' = history
        /\ stats' = [stats EXCEPT !.clients_active = @ - 1]
    BY <1>3 DEF Disconnect
  <2>2. Opened' = Opened \ {c} /\ c \in Opened /\ Arrived' = Arrived
    BY <1>0, <2>1 DEF Opened, Arrived
  <2>3. Cardinality(Opened') = Cardinality(Opened) - 1 /\ Cardinality(Opened') \in Nat
    BY <1>1, <2>2, FS_RemoveElement, FS_CardinalityType
  <2>4. PICK y \in Nat : y = stats.clients_active - 1
    BY <1>1, <2>3 DEF StatsInv
  <2>5. stats' = [stats EXCEPT !.clients_active = y]
    BY <2>1, <2>4
  <2>6. /\ stats' \in StatsRecords /\ stats'.evil_rejected = stats.evil_rejected
        /\ stats'.evil_status_reads = stats.evil_status_reads
        /\ stats'.evil_updates = stats.evil_updates /\ stats'.evil_resets = stats.evil_resets
        /\ stats'.modes = stats.modes /\ stats'.clients_active = y
        /\ stats'.clients_total = stats.clients_total
    BY <1>0, <2>5 DEF StatsRecords
  <2>7. Matches(stats', history')
    BY <1>0, <2>1, <2>6 DEF Matches
  <2> QED
    BY <2>2, <2>3, <2>4, <2>6, <2>7 DEF StatsInv
<1>4. ASSUME NEW c \in Conns, NEW cmd \in Commands, Debug(c, cmd) PROVE StatsInv'
  BY <1>4, DebugCounted
<1>5. CASE UNCHANGED vars
  <2>1. UNCHANGED <<stats, history, phase>>
    BY <1>5 DEF vars
  <2>2. Opened' = Opened /\ Arrived' = Arrived
    BY <2>1 DEF Opened, Arrived
  <2> QED
    BY <2>1, <2>2 DEF StatsInv
<1> QED
  BY <1>2, <1>3, <1>4, <1>5 DEF Next

\* Every DEBUG command is accounted for: a rejected one changes no setting of
\* any connection, and the counters are those of the commands there were and
\* of the connections there are.
THEOREM CommandsStayAccounted == Spec => CommandsAccounted
<1>1. StatsInv => StatsMatchHistory
  BY DEF StatsInv, Matches, StatsMatchHistory, Accepted, AcceptedIn, RejectedIn, Resets,
         Selecting, Opened, Arrived
<1> DEFINE Rejection == Len(history') > Len(history) /\ ~history'[Len(history')].ok
           Unchanging == Rejection => config' = config /\ fresh' = fresh
<1>2. ASSUME IInv, [Next]_vars PROVE [Unchanging]_vars
  <2>1. ASSUME NEW c \in Conns, Connect(c) \/ Disconnect(c) PROVE Unchanging
    BY <2>1 DEF Connect, Disconnect, IInv
  <2>2. ASSUME NEW c \in Conns, NEW cmd \in Commands, Debug(c, cmd) PROVE Unchanging
    <3> DEFINE o == Outcome(c, cmd)
               e == [conn |-> c, cmd |-> cmd, ok |-> o.ok]
    <3>1. /\ history' = Append(history, e) /\ e \in Entries
          /\ ~o.ok => config' = config /\ fresh' = fresh
      BY <1>2, <2>2, DebugStep
    <3>2. e.ok = o.ok
      OBVIOUS
    <3> HIDE DEF e, o
    <3>3. history'[Len(history')] = e
      BY <1>2, <3>1 DEF IInv
    <3> QED
      BY <3>1, <3>2, <3>3
  <2> QED
    BY <1>2, <2>1, <2>2 DEF Next
<1>3. IInv /\ [Next]_vars => [Unchanging]_vars
  BY <1>2
<1> QED
  BY <1>1, <1>3, InitIInv, NextIInv, InitStatsInv, NextStatsInv, PTL
     DEF Spec, CommandsAccounted, RejectedChangesNothing

-----------------------------------------------------------------------------
(* The types of the settings. *)

GeneratorSettings ==
    [protocol : {"RESP2", "RESP3"}, corpus : {"BOUNDARY", "RANDOM"}, violations : {"ON", "OFF"}]

Typed(k) ==
    /\ k.mode \in Modes
    /\ k.probability \in 0..Full /\ k.topology \in 0..Full
    /\ k.exec.probability \in 0..Full /\ k.framing.probability \in 0..Full
    /\ k.transport.probability \in 0..Full
    /\ k.generator \in GeneratorSettings

\* An option that is given has a value that is accepted for it.
LEMMA ValueAccepted ==
    ASSUME NEW a, NEW i, NEW accepts, NEW option, NEW otherwise, WellFormed(a, i, accepts)
    PROVE  \/ Given(a, i, option) /\ Value(a, i, option, otherwise) \in accepts[option]
           \/ ~Given(a, i, option) /\ Value(a, i, option, otherwise) = otherwise
<1>1. CASE Given(a, i, option)
  <2>1. PICK k \in Keys(a, i) : a[k] = option /\ k = CHOOSE l \in Keys(a, i) : a[l] = option
    BY <1>1 DEF Given
  <2>2. a[k + 1] \in accepts[option]
    BY <2>1 DEF WellFormed
  <2> QED
    BY <1>1, <2>1, <2>2 DEF Value
<1>2. CASE ~Given(a, i, option)
  BY <1>2 DEF Value
<1> QED
  BY <1>1, <1>2

\* A PROBABILITY option leaves a probability.
LEMMA ProbabilityTyped ==
    ASSUME NEW a, NEW i, NEW accepts, NEW otherwise \in 0..Full,
           WellFormed(a, i, accepts), accepts["PROBABILITY"] = Probabilities
    PROVE  ProbabilityValue(a, i, otherwise) \in 0..Full
<1>1. CASE Given(a, i, "PROBABILITY")
  <2>1. PICK w \in Probabilities : w = Value(a, i, "PROBABILITY", "")
    BY <1>1, ValueAccepted
  <2>2. Percent * Numerals[w] \in 0..Full
    BY DEF Probabilities, Probability
  <2> QED
    BY <1>1, <2>1, <2>2 DEF ProbabilityValue
<1>2. CASE ~Given(a, i, "PROBABILITY")
  BY <1>2 DEF ProbabilityValue
<1> QED
  BY <1>1, <1>2

\* The same for a PROBABILITY at the end of a command.
LEMMA OptionalTyped ==
    ASSUME NEW a, NEW i, NEW otherwise \in 0..Full, NEW p \in OptionalProbability(a, i, otherwise)
    PROVE  p \in 0..Full
BY DEF OptionalProbability, Probability

\* MODE leaves a probability.
LEMMA ModeTyped ==
    ASSUME NEW k, Shaped(k), NEW a, NEW d \in SetMode(k, a)
    PROVE  d.mode \in Modes /\ d.probability \in 0..Full
<1>0. 0 \in 0..Full /\ Full \in 0..Full
  BY DEF Full, Percent
<1>1. CASE a[2] = "RESET"
  <2>1. d = [k EXCEPT !.mode = "OFF", !.probability = 0]
    BY <1>1 DEF SetMode, Result
  <2>2. d.mode = "OFF" /\ d.probability = 0
    BY <2>1 DEF Shaped, Fields
  <2> QED
    BY <1>0, <2>2 DEF Modes
<1>2. CASE a[2] # "RESET"
  <2>1. PICK p \in OptionalProbability(a, 3, IF a[2] = "OFF" THEN 0 ELSE Full) :
           a[2] \in Modes /\ d = [k EXCEPT !.mode = a[2], !.probability = p]
    BY <1>2 DEF SetMode
  <2>2. (IF a[2] = "OFF" THEN 0 ELSE Full) \in 0..Full
    BY <1>0
  <2>3. p \in 0..Full
    BY <2>2, OptionalTyped
  <2>4. d.mode = a[2] /\ d.probability = p
    BY <2>1 DEF Shaped, Fields
  <2> QED
    BY <2>1, <2>3, <2>4
<1> QED
  BY <1>1, <1>2

\* What the other parsers return has probabilities.
LEMMA ParsedTyped ==
    ASSUME NEW a
    PROVE  /\ \A x \in ExecParse(a) : x.probability \in 0..Full
           /\ \A x \in FramingParse(a) : x.probability \in 0..Full
           /\ \A x \in TopologyParse(a) : x.topology \in 0..Full
           /\ \A t : t.probability \in 0..Full =>
                 \A x \in TransportUpdated(t, a) : x.probability \in 0..Full
<1>0. 0 \in 0..Full /\ Full \in 0..Full
  BY DEF Full, Percent
<1>1. ASSUME NEW x \in ExecParse(a) PROVE x.probability \in 0..Full
  <2>1. PICK p \in OptionalProbability(a, 3, Full) : x = [action |-> a[2], probability |-> p]
    BY DEF ExecParse
  <2> QED
    BY <1>0, <2>1, OptionalTyped
<1>2. ASSUME NEW x \in FramingParse(a) PROVE x.probability \in 0..Full
  <2>1. CASE a[2] = "LENGTH"
    <3>1. PICK p, t, c : /\ x = Framing("LENGTH", p, t, c)
                         /\ p = ProbabilityValue(a, 3, Full)
                         /\ WellFormed(a, 3, LengthOptions)
      BY <2>1 DEF FramingParse, Result
    <3>2. LengthOptions["PROBABILITY"] = Probabilities
      BY DEF LengthOptions
    <3>3. p \in 0..Full
      BY <1>0, <3>1, <3>2, ProbabilityTyped
    <3> QED
      BY <3>1, <3>3 DEF Framing
  <2>2. CASE a[2] # "LENGTH"
    <3>1. x = NoFraming(a[2])
      BY <2>2 DEF FramingParse, Result
    <3> QED
      BY <1>0, <3>1 DEF NoFraming, Framing
  <2> QED
    BY <2>1, <2>2
<1>3. ASSUME NEW x \in TopologyParse(a) PROVE x.topology \in 0..Full
  <2>1. CASE a[2] = "REDIRECT"
    <3>1. PICK p, q : /\ x = [topology |-> p, redirect |-> q]
                      /\ p = ProbabilityValue(a, 3, Full)
                      /\ WellFormed(a, 3, RedirectOptions)
      BY <2>1 DEF TopologyParse, Result
    <3>2. RedirectOptions["PROBABILITY"] = Probabilities
      BY DEF RedirectOptions
    <3>3. p \in 0..Full
      BY <1>0, <3>1, <3>2, ProbabilityTyped
    <3> QED
      BY <3>1, <3>3
  <2>2. CASE a[2] # "REDIRECT"
    <3>1. PICK p \in IF a[2] = "OFF" THEN {0} ELSE Probability(a[2]) :
             x = [topology |-> p, redirect |-> NoRedirect]
      BY <2>2 DEF TopologyParse
    <3>2. p \in 0..Full
      BY <1>0, <3>1 DEF Probability
    <3> QED
      BY <3>1, <3>2
  <2> QED
    BY <2>1, <2>2
<1>4. ASSUME NEW t, t.probability \in 0..Full, NEW x \in TransportUpdated(t, a)
      PROVE  x.probability \in 0..Full
  <2>1. CASE x = DefaultTransport
    BY <1>0, <2>1 DEF DefaultTransport
  <2>2. CASE x # DefaultTransport
    <3> DEFINE p == ProbabilityValue(a, 2, t.probability)
               u == [truncate |-> Value(a, 2, "TRUNCATE", t.truncate),
                     extra |-> Value(a, 2, "EXTRA", t.extra),
                     chunks |-> Value(a, 2, "CHUNKS", t.chunks),
                     probability |-> p,
                     fault |-> Value(a, 2, "FAULT", t.fault),
                     at |-> Value(a, 2, "AT", t.at),
                     duration |-> Value(a, 2, "DURATION", t.duration)]
               ok == Len(a) > 1 /\ WellFormed(a, 2, TransportOptions)
    <3>1. x \in Result(ok, u)
      BY <2>2 DEF TransportUpdated
    <3>2. ok /\ x = u
      <4> HIDE DEF ok, u
      <4> QED
        BY <3>1 DEF Result
    <3>3. TransportOptions["PROBABILITY"] = Probabilities
      BY DEF TransportOptions
    <3>4. p \in 0..Full
      BY <1>4, <3>2, <3>3, ProbabilityTyped
    <3>5. u.probability = p
      <4> HIDE DEF p
      <4> QED
        OBVIOUS
    <3> QED
      BY <3>2, <3>4, <3>5
  <2> QED
    BY <2>1, <2>2
<1> QED
  BY <1>1, <1>2, <1>3, <1>4

\* GENERATOR leaves settings of the generator.
LEMMA GeneratorTyped ==
    ASSUME NEW g \in GeneratorSettings, NEW a, NEW x \in GeneratorUpdated(g, a)
    PROVE  x \in GeneratorSettings
<1> DEFINE p == Value(a, 2, "PROTOCOL", g.protocol)
           q == Value(a, 2, "CORPUS", g.corpus)
           v == Value(a, 2, "VIOLATIONS", g.violations)
<1>1. WellFormed(a, 2, GeneratorOptions) /\ x = [protocol |-> p, corpus |-> q, violations |-> v]
  BY DEF GeneratorUpdated, Result
<1>2. /\ GeneratorOptions["PROTOCOL"] = {"RESP2", "RESP3"}
      /\ GeneratorOptions["CORPUS"] = {"BOUNDARY", "RANDOM"}
      /\ GeneratorOptions["VIOLATIONS"] = {"ON", "OFF"}
  BY DEF GeneratorOptions
<1>3. /\ g.protocol \in {"RESP2", "RESP3"} /\ g.corpus \in {"BOUNDARY", "RANDOM"}
      /\ g.violations \in {"ON", "OFF"}
  BY DEF GeneratorSettings
<1>4. p \in {"RESP2", "RESP3"}
  BY <1>1, <1>2, <1>3, ValueAccepted
<1>5. q \in {"BOUNDARY", "RANDOM"}
  BY <1>1, <1>2, <1>3, ValueAccepted
<1>6. v \in {"ON", "OFF"}
  BY <1>1, <1>2, <1>3, ValueAccepted
<1> HIDE DEF p, q, v
<1> QED
  BY <1>1, <1>4, <1>5, <1>6 DEF GeneratorSettings

\* A DEBUG EVIL command leaves the settings typed.
LEMMA AppliedTyped ==
    ASSUME NEW k, Shaped(k), Typed(k), NEW a \in Seq(STRING), NEW d \in ApplyDebugCommand(k, a)
    PROVE  Typed(d)
<1>0. a # << >>
  BY DEF ApplyDebugCommand
<1>1. CASE a[1] \in {"SEED", "STRATEGY", "MUTATIONS", "DEPTH", "CANONICALIZE", "INCLUDE", "EXCLUDE"}
  <2>1. PICK field \in {"seed", "strategy", "mutations", "depth", "canonicalization",
                        "include", "exclude"} : \E values : d \in With(k, field, values)
    BY <1>0, <1>1 DEF ApplyDebugCommand
  <2>2. field \in Fields \ {"generator"}
    BY DEF Fields
  <2>3. \A f \in Fields \ {field} : d[f] = k[f]
    BY <2>1, <2>2, Replaced
  <2>4. {"mode", "probability", "topology", "exec", "framing", "transport", "generator"}
            \subseteq Fields \ {field}
    BY DEF Fields
  <2> QED
    BY <2>3, <2>4 DEF Typed
<1>2. CASE a[1] = "MODE"
  <2>1. d \in SetMode(k, a)
    BY <1>0, <1>2 DEF ApplyDebugCommand
  <2>2. \A f \in Fields \ {"mode", "probability"} : d[f] = k[f]
    BY <2>1, ModeSet
  <2>3. {"topology", "exec", "framing", "transport", "generator"}
            \subseteq Fields \ {"mode", "probability"}
    BY DEF Fields
  <2>4. d.mode \in Modes /\ d.probability \in 0..Full
    BY <2>1, ModeTyped
  <2> QED
    BY <2>2, <2>3, <2>4 DEF Typed
<1>3. CASE a[1] = "TOPOLOGY"
  <2>1. d \in SetTopology(k, a)
    BY <1>0, <1>3 DEF ApplyDebugCommand
  <2>2. /\ \A f \in Fields \ {"topology", "redirect"} : d[f] = k[f]
        /\ \E t \in TopologyParse(a) : d.topology = t.topology
    BY <2>1, TopologySet
  <2>3. {"mode", "probability", "exec", "framing", "transport", "generator"}
            \subseteq Fields \ {"topology", "redirect"}
    BY DEF Fields
  <2>4. d.topology \in 0..Full
    BY <2>2, ParsedTyped
  <2> QED
    BY <2>2, <2>3, <2>4 DEF Typed
<1>4. CASE a[1] = "TRANSPORT"
  <2>1. d \in With(k, "transport", TransportUpdated(k.transport, a))
    BY <1>0, <1>4 DEF ApplyDebugCommand
  <2>2. "transport" \in Fields \ {"generator"}
    BY DEF Fields
  <2>3. /\ d["transport"] \in TransportUpdated(k.transport, a)
        /\ \A f \in Fields \ {"transport"} : d[f] = k[f]
    BY <2>1, <2>2, Replaced
  <2>4. {"mode", "probability", "topology", "exec", "framing", "generator"}
            \subseteq Fields \ {"transport"}
    BY DEF Fields
  <2>5. d.transport.probability \in 0..Full
    BY <2>3, ParsedTyped DEF Typed
  <2> QED
    BY <2>3, <2>4, <2>5 DEF Typed
<1>5. CASE a[1] = "EXEC"
  <2>1. d \in With(k, "exec", ExecParse(a))
    BY <1>0, <1>5 DEF ApplyDebugCommand
  <2>2. "exec" \in Fields \ {"generator"}
    BY DEF Fields
  <2>3. d["exec"] \in ExecParse(a) /\ \A f \in Fields \ {"exec"} : d[f] = k[f]
    BY <2>1, <2>2, Replaced
  <2>4. {"mode", "probability", "topology", "framing", "transport", "generator"}
            \subseteq Fields \ {"exec"}
    BY DEF Fields
  <2>5. d.exec.probability \in 0..Full
    BY <2>3, ParsedTyped
  <2> QED
    BY <2>3, <2>4, <2>5 DEF Typed
<1>6. CASE a[1] = "FRAMING"
  <2>1. d \in With(k, "framing", FramingParse(a))
    BY <1>0, <1>6 DEF ApplyDebugCommand
  <2>2. "framing" \in Fields \ {"generator"}
    BY DEF Fields
  <2>3. d["framing"] \in FramingParse(a) /\ \A f \in Fields \ {"framing"} : d[f] = k[f]
    BY <2>1, <2>2, Replaced
  <2>4. {"mode", "probability", "topology", "exec", "transport", "generator"}
            \subseteq Fields \ {"framing"}
    BY DEF Fields
  <2>5. d.framing.probability \in 0..Full
    BY <2>3, ParsedTyped
  <2> QED
    BY <2>3, <2>4, <2>5 DEF Typed
<1>7. CASE a[1] = "GENERATOR"
  <2>1. d \in With(k, "generator", GeneratorUpdated(k.generator, a))
    BY <1>0, <1>7 DEF ApplyDebugCommand
  <2>2. \A f \in Fields \ {"generator"} : d[f] = k[f]
    BY <2>1, GeneratorReplaced
  <2>3. {"mode", "probability", "topology", "exec", "framing", "transport"}
            \subseteq Fields \ {"generator"}
    BY DEF Fields
  <2>4. PICK v \in GeneratorUpdated(k.generator, a) : d = [k EXCEPT !["generator"] = v]
    BY <2>1 DEF With
  <2>5. d.generator = v
    BY <2>4 DEF Shaped, Fields
  <2>6. d.generator \in GeneratorSettings
    BY <2>5, GeneratorTyped DEF Typed
  <2> QED
    BY <2>2, <2>3, <2>6 DEF Typed
<1>8. CASE a[1] \in {"HELP", "STATUS"}
  <2>1. d = k
    BY <1>0, <1>8 DEF ApplyDebugCommand, Result
  <2> QED
    BY <2>1
<1> QED
  <2>1. a[1] \in {"SEED", "EXEC", "FRAMING", "STRATEGY", "MUTATIONS", "DEPTH", "CANONICALIZE",
                  "INCLUDE", "MODE", "TOPOLOGY", "TRANSPORT", "EXCLUDE", "GENERATOR",
                  "HELP", "STATUS"}
    BY <1>0 DEF ApplyDebugCommand
  <2> QED
    BY <1>1, <1>2, <1>3, <1>4, <1>5, <1>6, <1>7, <1>8, <2>1

\* The probabilities a preset computes are probabilities.
LEMMA PresetTyped ==
    ASSUME NEW d, NEW t \in 0..Full, PresetSettings(d, t), Shaped(d),
           d.generator.protocol \in {"RESP2", "RESP3"}
    PROVE  Typed(d)
<1>0. Percent = 6 /\ Full = 600 /\ t \in Int
  BY DEF Full, Percent
<1>1. d.mode \in Modes
  BY DEF PresetSettings, Beyond, Modes
<1>2. d.topology \in 0..Full
  <2>1. Max0(t - 50 * Percent) \in 0..300
    BY <1>0 DEF Max0
  <2>2. PICK m \in 0..300 : m = Max0(t - 50 * Percent)
    BY <2>1
  <2>3. m \div 2 \in 0..600
    OBVIOUS
  <2> QED
    BY <1>0, <2>2, <2>3 DEF PresetSettings, PresetTopology
<1>3. d.exec.probability \in 0..Full
  <2>1. CASE t > 25 * Percent
    <3>1. PICK m \in 0..450 : m = t - 25 * Percent
      BY <1>0, <2>1
    <3>2. m \div 3 \in 0..600
      OBVIOUS
    <3>3. d.exec = [action |-> "RANDOM", probability |-> m \div 3]
      BY <2>1, <3>1 DEF PresetSettings, PresetExec, Beyond
    <3>4. PICK p \in 0..600 : p = m \div 3
      BY <3>2
    <3> QED
      BY <1>0, <3>3, <3>4
  <2>2. CASE ~(t > 25 * Percent)
    <3>1. d.exec = DefaultExec
      BY <2>2 DEF PresetSettings, PresetExec, Beyond
    <3> QED
      BY <1>0, <3>1 DEF DefaultExec
  <2> QED
    BY <2>1, <2>2
<1>4. d.framing.probability \in 0..Full
  <2>1. CASE t > 50 * Percent
    <3>1. PICK m \in 0..600 : m = 2 * (t - 50 * Percent)
      BY <1>0, <2>1
    <3>2. d.framing = Framing("LENGTH", 2 * (t - 50 * Percent), "ANY", "RANDOM")
      <4> HIDE DEF Framing
      <4> QED
        BY <2>1 DEF PresetSettings, PresetFraming, Beyond
    <3>3. \A p : Framing("LENGTH", p, "ANY", "RANDOM").probability = p
      BY DEF Framing
    <3>4. d.framing = Framing("LENGTH", m, "ANY", "RANDOM")
      BY <3>1, <3>2, Zenon
    <3> QED
      BY <1>0, <3>3, <3>4
  <2>2. CASE ~(t > 50 * Percent)
    <3>1. d.framing = NoFraming("OFF")
      BY <2>2 DEF PresetSettings, PresetFraming, Beyond
    <3>2. NoFraming("OFF").probability = 0
      BY DEF NoFraming, Framing
    <3> QED
      BY <1>0, <3>1, <3>2
  <2> QED
    BY <2>1, <2>2
<1>5. d.transport.probability \in 0..Full
  <2>1. CASE t > 75 * Percent
    <3>1. PICK m \in 0..600 : m = t - 75 * Percent
      BY <1>0, <2>1
    <3>2. d.transport = [DefaultTransport EXCEPT !.truncate = "RANDOM", !.chunks = "RANDOM",
                                                 !.probability = m]
      BY <2>1, <3>1 DEF PresetSettings, PresetTransport, Beyond
    <3>3. d.transport.probability = m
      BY <3>2 DEF DefaultTransport
    <3> QED
      BY <1>0, <3>3
  <2>2. CASE ~(t > 75 * Percent)
    <3>1. d.transport = DefaultTransport
      BY <2>2 DEF PresetSettings, PresetTransport, Beyond
    <3> QED
      BY <1>0, <3>1 DEF DefaultTransport
  <2> QED
    BY <2>1, <2>2
<1>6. d.generator \in GeneratorSettings
  <2>1. d.generator.corpus = "BOUNDARY" /\ d.generator.violations \in {"ON", "OFF"}
    BY DEF PresetSettings, Beyond
  <2>2. PICK g : g = d.generator
    OBVIOUS
  <2>3. DOMAIN g = GeneratorFields /\ g = [f \in GeneratorFields |-> g[f]]
    BY <2>2 DEF Shaped
  <2>4. g = [protocol |-> g.protocol, corpus |-> g.corpus, violations |-> g.violations]
    BY <2>3 DEF GeneratorFields
  <2> QED
    BY <2>1, <2>2, <2>4 DEF GeneratorSettings
<1> QED
  BY <1>1, <1>2, <1>3, <1>4, <1>5, <1>6 DEF Typed, PresetSettings

\* An accepted command leaves the settings typed.
LEMMA AcceptedTyped ==
    ASSUME NEW c, NEW cmd \in Commands, Shaped(config[c]), Typed(config[c]), Outcome(c, cmd).ok
    PROVE  Typed(Outcome(c, cmd).config)
<1>1. PICK d : d = Outcome(c, cmd).config /\ d \in Requested(config[c], cmd)
  BY OutcomeCases
<1>2. cmd.family \in {"EVIL", "CHAOS"} /\ cmd.args \in Seq(STRING)
  BY CommandParts
<1>3. CASE cmd.family = "EVIL"
  <2>1. d \in ApplyDebugCommand(config[c], cmd.args)
    BY <1>1, <1>3 DEF Requested
  <2> QED
    BY <1>1, <1>2, <2>1, AppliedTyped
<1>4. CASE cmd.family = "CHAOS"
  <2>1. d \in ChaosApply(config[c], cmd.args)
    BY <1>1, <1>4 DEF Requested
  <2>2. PICK t \in 0..Full : t = Percent * Numerals[cmd.args[1]]
    BY <1>2, <2>1, ChaosApplied
  <2>3. /\ Shaped(d) /\ PresetSettings(d, t)
        /\ d.generator.protocol = config[c].generator.protocol
    BY <1>2, <2>1, <2>2, ChaosApplied
  <2>4. d.generator.protocol \in {"RESP2", "RESP3"}
    BY <2>3 DEF Typed, GeneratorSettings
  <2> QED
    BY <1>1, <2>3, <2>4, PresetTyped
<1> QED
  BY <1>2, <1>3, <1>4

\* Whatever the sequence of commands, every probability in the settings, those
\* a preset computes included, is one parse_probability accepts, and the mode
\* and the generator's settings are ones there are.
THEOREM SettingsTyped == Spec => []TypeOK
<1> DEFINE AllTyped == \A c \in Conns : Typed(config[c])
<1>1. Init => AllTyped
  <2>0. 0 \in 0..Full /\ Full \in 0..Full
    BY DEF Full, Percent
  <2>1. Typed(DefaultConfig)
    <3>1. /\ DefaultConfig.mode = "OFF" /\ DefaultConfig.probability = 0
          /\ DefaultConfig.topology = 0 /\ DefaultConfig.exec = DefaultExec
          /\ DefaultConfig.framing = NoFraming("AUTO")
          /\ DefaultConfig.transport = DefaultTransport
          /\ DefaultConfig.generator
                = [protocol |-> "RESP2", corpus |-> "BOUNDARY", violations |-> "OFF"]
      BY DEF DefaultConfig
    <3>2. /\ DefaultExec.probability = Full /\ NoFraming("AUTO").probability = 0
          /\ DefaultTransport.probability = Full
      BY DEF DefaultExec, NoFraming, Framing, DefaultTransport
    <3>3. DefaultConfig.generator \in GeneratorSettings
      BY <3>1 DEF GeneratorSettings
    <3> QED
      BY <2>0, <3>1, <3>2, <3>3 DEF Typed, Modes
  <2> QED
    BY <2>1 DEF Init
<1>2. IInv /\ AllTyped /\ [Next]_vars => AllTyped'
  <2> SUFFICES ASSUME IInv, AllTyped, [Next]_vars PROVE AllTyped'
    OBVIOUS
  <2>1. ASSUME NEW c \in Conns, Connect(c) PROVE AllTyped'
    <3>1. config' = config
      BY <2>1, ConnectKeeps
    <3> QED
      BY <3>1 DEF Typed
  <2>2. ASSUME NEW c \in Conns, Disconnect(c) PROVE AllTyped'
    BY <2>2 DEF Disconnect, Typed
  <2>3. ASSUME NEW c \in Conns, NEW cmd \in Commands, Debug(c, cmd) PROVE AllTyped'
    <3> DEFINE o == Outcome(c, cmd)
    <3>1. config' = [config EXCEPT ![c] = o.config] /\ (~o.ok => config' = config)
      BY <2>3, DebugStep
    <3>2. o.ok => Typed(o.config)
      BY <2>3, AcceptedTyped DEF IInv, ConnInv
    <3> HIDE DEF o
    <3>3. \A d \in Conns : Typed(config'[d])
      BY <3>1, <3>2 DEF IInv
    <3> QED
      BY <3>3 DEF Typed
  <2>4. CASE UNCHANGED vars
    BY <2>4 DEF vars, Typed
  <2> QED
    BY <2>1, <2>2, <2>3, <2>4 DEF Next
<1>3. IInv /\ AllTyped => TypeOK
  BY DEF IInv, Typed, TypeOK, GeneratorSettings
<1> QED
  BY <1>1, <1>2, <1>3, InitIInv, NextIInv, PTL DEF Spec

=============================================================================
