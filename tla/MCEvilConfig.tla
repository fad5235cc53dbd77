---------------------------- MODULE MCEvilConfig ----------------------------
(* Small instance of EvilConfig: a TCP and a Unix client.  The commands are    *)
(* of every family of faults, accepted and rejected, the temperatures at the   *)
(* ends of the bands of the preset, and options out of range, repeated or      *)
(* without a value.                                                            *)
EXTENDS EvilConfig, TLC

MCNumerals ==
    "-1" :> -1 @@ "0" :> 0 @@ "1" :> 1 @@ "7" :> 7 @@ "17" :> 17 @@ "25" :> 25
    @@ "26" :> 26 @@ "50" :> 50 @@ "76" :> 76 @@ "100" :> 100 @@ "101" :> 101
    @@ "10000" :> 10000 @@ "16384" :> 16384

MCTargets == "ROOT.01" :> "root.1"
MCRegexMatches == "^A" :> {"AUTH"} @@ ".*" :> {"AUTH", "GET", "EXEC"}

Evils ==
    {<<"CANONICALIZE", "NONE">>, <<"MODE", "MUTATE", "PROBABILITY", "50">>,
     <<"MODE", "OVERFLOW", "PROBABILITY", "101">>, <<"MODE", "RESET">>,
     <<"EXEC", "SWAP">>, <<"FRAMING", "LENGTH", "TARGET", "ROOT.01">>,
     <<"GENERATOR", "CORPUS", "RANDOM", "PROTOCOL", "RESP3">>,
     <<"TOPOLOGY", "REDIRECT", "TARGET", "HOST:PORT", "UNTIL", "7">>, <<"TOPOLOGY", "OFF">>,
     <<"TRANSPORT", "TRUNCATE", "RANDOM">>, <<"TRANSPORT", "FAULT", "RESET", "AT", "1">>,
     <<"TRANSPORT", "EXTRA", "17">>, <<"TRANSPORT", "OFF">>,
     <<"INCLUDE", "^A", "@READ">>, <<"INCLUDE", "(">>, <<"EXCLUDE">>,
     <<"STATUS">>, <<"HELP">>}

MCCommands ==
    {[family |-> "EVIL", args |-> a] : a \in Evils}
    \cup {[family |-> "CHAOS", args |-> a] :
             a \in {<<"0">>, <<"50">>, <<"100">>, <<"76", "SEED", "1", "SEED", "1">>}}

(* Commands the sequences leave out, over the initial settings.                *)
Accepts(a) == ApplyDebugCommand(DefaultConfig, a) # {}

ASSUME ParserExamples ==
    /\ \A a \in {<<"SEED", "7">>, <<"STRATEGY", "REPLACE">>, <<"DEPTH", "ANY">>,
                 <<"TOPOLOGY", "REDIRECT", "PHASE", "AFTER">>,
                 <<"MODE", "RANDOM">>, <<"MUTATIONS", "ONE">>, <<"MODE", "OFF">>, <<"FRAMING", "AUTO">>,
                 <<"FRAMING", "LENGTH", "KIND", "OVERFLOW", "PROBABILITY", "0">>,
                 <<"EXEC", "REMOVE", "PROBABILITY", "7">>, <<"TOPOLOGY", "25">>,
                 <<"TRANSPORT", "CHUNKS", "7", "EXTRA", "0">>, <<"INCLUDE">>} : Accepts(a)
    /\ \A a \in {<< >>, <<"SHUFFLE">>, <<"SEED", "-1">>, <<"SEED">>, <<"MODE">>,
                 <<"MODE", "RESET", "7">>, <<"MODE", "OFF", "PROBABILITY">>,
                 <<"EXEC", "OFF", "PROBABILITY", "7">>, <<"FRAMING", "OFF", "TARGET", "ANY">>,
                 <<"FRAMING", "LENGTH", "KIND">>, <<"GENERATOR">>,
                 <<"GENERATOR", "CORPUS", "RANDOM", "CORPUS", "RANDOM">>,
                 <<"TOPOLOGY", "OFF", "OFF">>, <<"TOPOLOGY", "REDIRECT", "SLOT", "16384">>,
                 <<"TOPOLOGY", "REDIRECT", "TARGET", "HOST">>,
                 <<"TRANSPORT", "CHUNKS", "0">>, <<"TRANSPORT", "DURATION", "0">>, <<"STATUS", "7">>} : ~Accepts(a)
=============================================================================
