------------------------------ MODULE MCReplies ------------------------------
(* Instances of the modules about the stages of a reply: it is read from the *)
(* upstream (RespStream) and made canonical (Canonical), then values and     *)
(* lengths are mutated (ReplyFaults), with frames a generator draws          *)
(* (Generator).                                                              *)
(*                                                                           *)
(* A stage hands a frame to the next and nothing else. A behaviour is one    *)
(* stage at work, from any input out of a set, while the variables of the    *)
(* other stages stay empty: TLC then visits the sum of their states.         *)
EXTENDS Frames

VARIABLES
  stage,
  raw, pending, outcome,
  case, arrangement,
  g, stack, tree,
  reply, config, pc, frame, todo, remaining, mutations, bytes

readVars == <<raw, pending, outcome>>
orderVars == <<case, arrangement>>
generateVars == <<g, stack, tree>>
faultVars == <<reply, config, pc, frame, todo, remaining, mutations, bytes>>
vars == <<stage, readVars, orderVars, generateVars, faultVars>>

W32 == 3
W64 == 5
Txt == <<116, 120, 116, 58>>
I64Max == 15
Str(c) == Scalar("BulkString", <<c>>)
SetOf(kids) == Aggregate("Set", kids)
ArrayOf(kids) == Aggregate("Array", kids)
MapOf(kids) == Aggregate("Map", kids)
-----------------------------------------------------------------------------
(* Reading.                                                                  *)

\* '*' '%' '$' '=' ':' '#' a letter and CR: aggregates with and without pairs,
\* blobs with and without a null form, lines with each kind of content.
MCStarts == {42, 37, 36, 61, 58, 35, 97, 13}
\* "" "0" "1" "2" "-1" "+1" "t" CR and a byte that is not UTF-8, before CR; and
\* "1" without CR.
MCLines == {<<CR>>, <<48, CR>>, <<49, CR>>, <<50, CR>>, <<45, 49, CR>>,
            <<43, 49, CR>>, <<116, CR>>, <<13, CR>>, <<255, CR>>, <<49>>}

Read == INSTANCE RespStream WITH MaxFrameBytes <- 16, MaxFrameDepth <- 3,
                                 Starts <- MCStarts, Lines <- MCLines, Bodies <- {CR, LF}
-----------------------------------------------------------------------------
(* Canonical order.                                                          *)

\* Sets of sets whose members change places once they are sorted, maps with
\* repeated keys, and an ordered list in between.
Nested == ArrayOf(<<SetOf(<<SetOf(<<Str(98), Str(97)>>), Str(97), SetOf(<<Str(97), Str(99)>>)>>),
                    ArrayOf(<<Str(99), Str(98), SetOf(<<Str(98), Str(97)>>)>>)>>)
Fields == MapOf(<<Str(98), SetOf(<<Str(98), Str(97)>>), Str(97), Str(99), Str(97), Str(98)>>)
Flat == ArrayOf(<<Str(98), Str(97), Str(97), Str(99), Str(97)>>)

Single(mode, command, f) == [mode |-> mode, exec |-> FALSE, commands |-> <<command>>, reply |-> f]
MCCases ==
  {Single(mode, command, f) : mode \in {"ALL", "UNORDERED", "NONE"},
     command \in {"HGETALL", "SMEMBERS", "LRANGE"}, f \in {Nested, Fields, Flat, Str(97)}}
  \cup {[mode |-> mode, exec |-> TRUE, commands |-> commands,
         reply |-> ArrayOf(<<Flat, Fields, ArrayOf(<<Str(98), Str(97)>>)>>)] :
          mode \in {"ALL", "UNORDERED"},
          commands \in {<<"HGETALL", "HGETALL", "LRANGE">>, <<"LRANGE", "HKEYS">>}}

Order == INSTANCE Canonical WITH Cases <- MCCases, reply <- arrangement
-----------------------------------------------------------------------------
(* Generation.                                                               *)

Profile(p, c, v) == [protocol |-> p, corpus |-> c, violations |-> v]
MCProfiles == {Profile("RESP2", "BOUNDARY", FALSE), Profile("RESP2", "RANDOM", TRUE),
               Profile("RESP3", "RANDOM", FALSE), Profile("RESP3", "RANDOM", TRUE)}

\* Integers: a limit, and one that a set falls back to; a random payload with
\* the end of a line and a prefix inside, too long behind ERR and txt:.
Generate == INSTANCE GeneratedTrees WITH
  Integers64 <- {1, I64Max}, RandomTexts <- {<<97>>}, RandomBlobs <- {<<13, 10, 36>>},
  MaxBlobBytes <- 6, MaxFrameBytes <- 100, MaxFrameDepth <- 4,
  Profiles <- MCProfiles, MaxDepth <- 3, MaxItems <- 3, MaxFrames <- 4
-----------------------------------------------------------------------------
(* Faults.                                                                   *)

Reply(command, f) == [command |-> command, frame |-> f]

\* Scalars with and without a mutable value, null and empty containers, and
\* aggregates inside aggregates, among them a map with nested values.
MCReplies ==
  {Reply("GET", f) : f \in
     {Int64(0), Scalar("Boolean", <<1>>), Scalar("NullBulkString", <<>>),
      Scalar("VerbatimString", Txt), Scalar("VerbatimString", Txt \o <<97>>),
      ArrayOf(<<>>), Scalar("NullArray", <<>>),
      ArrayOf(<<Int64(I64Max), SetOf(<<Str(97)>>)>>),
      MapOf(<<Scalar("Double", Decimal(0)), ArrayOf(<<Scalar("Null", <<>>)>>)>>),
      Aggregate("Push", <<Scalar("BulkError", <<>>), Aggregate("Attribute", <<Str(98), Int64(1)>>)>>)}}
  \cup {Reply("EXEC", f) : f \in
     {ArrayOf(<<Int64(0), Int64(0)>>), ArrayOf(<<Int64(0), Str(97), Int64(0)>>),
      ArrayOf(<<>>), Scalar("NullArray", <<>>)}}

Framing(mode, probability, target, kind) ==
  [mode |-> mode, probability |-> probability, target |-> target, kind |-> kind]
NoExec == [action |-> "OFF", probability |-> 100]
Config(mode, p, strategy, count, depth, framing, exec) ==
  [mode |-> mode, probability |-> p, strategy |-> strategy, count |-> count, depth |-> depth,
   framing |-> framing, generator |-> Profile("RESP3", "RANDOM", FALSE), exec |-> exec]

\* Everything the value and length stages tell apart, and the EXEC edits with
\* one setting of the other stages.
MCConfigs ==
  {Config(m, p, s, c, d, f, NoExec) :
     m \in {"MUTATE", "OVERFLOW"}, p \in {0, 50, 100}, s \in {"PRESERVE", "REPLACE"},
     c \in {"ONE", "MANY"}, d \in {"ANY", "INNER"},
     f \in {Framing("OFF", 0, <<>>, "RANDOM"), Framing("AUTO", 0, <<>>, "RANDOM"),
            Framing("LENGTH", 100, <<>>, "RANDOM"),
            Framing("LENGTH", 50, <<<<"0", "value">>>>, "BOUNDARY"),
            Framing("LENGTH", 100, <<<<"1", "0", "key">>>>, "SHORTER")}}
  \cup {Config(m, 100, "PRESERVE", "MANY", "INNER", Framing("AUTO", 0, <<>>, "RANDOM"),
               [action |-> a, probability |-> p]) :
          m \in {"OFF", "MUTATE"}, a \in {"RANDOM", "REMOVE", "DUPLICATE", "SWAP"}, p \in {0, 50, 100}}

Faults == INSTANCE ReplyFaults WITH
  Integers64 <- {I64Max, 0}, RandomTexts <- {<<97>>}, RandomBlobs <- {<<97>>, <<>>},
  MaxBlobBytes <- 8, MaxFrameBytes <- 100, MaxFrameDepth <- 4,
  Replies <- MCReplies, Configs <- MCConfigs,
  Replacements <- {Int64(0), ArrayOf(<<Int64(0)>>)}
-----------------------------------------------------------------------------
ASSUME InstancesAssumption ==
  /\ Read!LimitsAssumption /\ Read!StreamAssumption /\ Order!CasesAssumption
  /\ Generate!CorpusAssumption /\ Generate!GeneratorAssumption /\ Faults!CorpusAssumption
  /\ Faults!I64Max = I64Max /\ Faults!Txt = Txt

NoRead == raw = <<>> /\ pending = <<>> /\ outcome = ""
NoOrder == case = <<>> /\ arrangement = <<>>
NoGenerate == g = <<>> /\ stack = <<>> /\ tree = <<>>
NoFaults == /\ reply = <<>> /\ config = <<>> /\ pc = "" /\ frame = <<>> /\ todo = <<>>
            /\ remaining = 0 /\ mutations = <<>> /\ bytes = <<>>

Init ==
  \/ stage = "READ" /\ Read!ReadInit /\ NoOrder /\ NoGenerate /\ NoFaults
  \/ stage = "ORDER" /\ Order!Init /\ NoRead /\ NoGenerate /\ NoFaults
  \/ stage = "GENERATE" /\ Generate!GenerateInit /\ NoRead /\ NoOrder /\ NoFaults
  \/ stage = "FAULTS" /\ Faults!Init /\ NoRead /\ NoOrder /\ NoGenerate

Next ==
  /\ UNCHANGED stage
  /\ \/ stage = "READ" /\ Read!ReadNext /\ UNCHANGED <<orderVars, generateVars, faultVars>>
     \/ stage = "ORDER" /\ Order!Next /\ UNCHANGED <<readVars, generateVars, faultVars>>
     \/ stage = "GENERATE" /\ Generate!GenerateNext /\ UNCHANGED <<readVars, orderVars, faultVars>>
     \/ stage = "FAULTS" /\ Faults!Next /\ UNCHANGED <<readVars, orderVars, generateVars>>

Spec == Init /\ [][Next]_vars
-----------------------------------------------------------------------------
(* Properties: those of the modules.                                         *)

(* read_raw_frame keeps its limits whatever lengths a peer advertises, ends  *)
(* a frame where parse_frame does and nowhere else, and a frame that was     *)
(* parsed can be encoded again without a change of its meaning.              *)
FramesAgree ==
  stage = "READ" => /\ Read!WithinLimits /\ Read!ParserAgrees
                    /\ Read!Delimited /\ Read!ReencodingStable

(* Replies that differ only in the order of what has no order get the same   *)
(* canonical form, hence the same faults; what has an order keeps it.        *)
CanonicalForm ==
  stage = "ORDER" => Order!OrderIrrelevant /\ Order!OrderKept /\ Order!Idempotent

(* The generator stays within its depth, count and size limits, violations   *)
(* included, within the protocol without them, repeats no member of a set,   *)
(* and whatever bytes it draws are correctly framed.                         *)
GeneratedWithinLimits ==
  stage = "GENERATE" => /\ Generate!BudgetsKept /\ Generate!ProtocolKept
                        /\ Generate!MembersDistinct /\ Generate!CorrectlyFramed

(* What was done to a reply is what the record tells: the paths of changed   *)
(* values are where the tree changed, a length fault changed the header at   *)
(* its path and nothing else, an EXEC edit gives the delivered array.        *)
RecordExact ==
  stage = "FAULTS" => /\ Faults!RecordNamesChanges /\ Faults!OnlyOneHeaderChanges
                      /\ Faults!ExecEditExact

(* What was done is what was asked for: one mutation for ONE, the types for  *)
(* PRESERVE, and correct framing unless the fault is a wrong length.         *)
FaultsAsAsked ==
  stage = "FAULTS" => /\ Faults!OneMeansOne /\ Faults!PreserveKeepsTypes
                      /\ Faults!FramedUnlessWrongLength
=============================================================================
