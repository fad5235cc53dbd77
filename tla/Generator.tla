----------------------------- MODULE Generator ------------------------------
(* GeneratorConfig::frame, src/src/generator.rs: a random reply tree, drawn  *)
(* frame by frame. `stack` is the recursion of frame_at and build: the       *)
(* aggregates that are open, from the root inwards.                          *)
EXTENDS Corpus, FiniteSetsExt

CONSTANTS
  Profiles,    \* the settings to explore
  MaxDepth,    \* MAX_DEPTH, 3 in the code
  MaxItems,    \* MAX_ITEMS, 4 in the code
  MaxFrames    \* bound of the model: frames drawn for one tree

Key(index) == Scalar("BulkString", <<107>> \o Decimal(index))

(* The keys of a map, format!("key:{index}"), are short and differ.          *)
GeneratorAssumption ==
  /\ Profiles \subseteq GeneratorConfigs
  /\ MaxDepth \in Nat \ {0} /\ MaxItems \in Nat \ {0} /\ MaxFrames \in Nat
  /\ \A i, j \in 0..(MaxItems - 1) :
       Len(Key(i).val) <= MaxBlobBytes /\ (Key(i) = Key(j) => i = j)

VARIABLES
  g,       \* the GeneratorConfig
  stack,   \* open aggregates: type, number of items drawn for it, children
  tree     \* <<>>, or the frame that frame() returned

generateVars == <<g, stack, tree>>

GenerateInit == g \in Profiles /\ stack = <<>> /\ tree = <<>>

Depth == Len(stack) + 1

Kinds(protocol) ==
  IF protocol = "RESP2"
  THEN <<"SimpleString", "SimpleError", "Integer", "BulkString",
         "NullBulkString", "NullArray", "Array">>
  ELSE <<"SimpleString", "SimpleError", "Integer", "BulkString", "Null",
         "Boolean", "Double", "BigNumber", "BulkError", "VerbatimString",
         "Array", "Map", "Set">>

(* The kinds frame_at chooses from: the last ones are aggregates and are     *)
(* left out at the deepest level.                                            *)
Available(depth) ==
  LET kinds == Kinds(g.protocol)
      aggregates == IF g.protocol = "RESP2" THEN 1 ELSE 3
  IN  {kinds[i] : i \in 1..(Len(kinds) - (IF depth = MaxDepth THEN aggregates ELSE 0))}

ScalarDraws(kind) ==
  LET vals == CASE kind = "SimpleString" -> TextDraws(g)
                [] kind = "SimpleError" -> {Err \o t : t \in TextDraws(g)}
                [] kind = "Integer" -> {<<n>> : n \in Integers64}
                [] kind = "BulkString" -> BlobDraws(g)
                [] kind = "Boolean" -> {<<0>>, <<1>>}
                [] kind = "Double" -> DoubleDraws(g, FALSE)
                [] kind = "BigNumber" -> BigNumberDraws(g, FALSE)
                [] kind = "BulkError" -> BulkErrorDraws(g)
                [] kind = "VerbatimString" -> VerbatimDraws(g)
                [] OTHER -> {<<>>}
  IN  {Scalar(kind, v) : v \in vals}

\* Mutant: side-band frames also at the deepest level.
ViolationsAnywhere(depth) ==
  {Scalar("Double", BadNumber), Scalar("BigNumber", BadBig), Scalar("VerbatimString", BadVerbatim),
   Aggregate("Push", <<Scalar("BulkString", <<109>>)>>)}
(* violation(): side-band frames only above the deepest level.               *)
Violations(depth) ==
  {Scalar("Double", BadNumber), Scalar("BigNumber", BadBig), Scalar("VerbatimString", BadVerbatim)}
  \cup (IF depth < MaxDepth
        THEN {Aggregate("Push", <<Scalar("BulkString", <<109>>)>>),
              Aggregate("Attribute", <<Scalar("SimpleString", <<109>>), Int64(1)>>)}
        ELSE {})
  \cup (IF g.protocol = "RESP2" THEN {Scalar("Boolean", <<1>>)} ELSE {})

(* The loop that keeps the members of a set apart: integers from the         *)
(* position on, until one is new.                                            *)
Distinct(members, item) ==
  IF item \notin ToSet(members) THEN item
  ELSE Int64(Min({n \in Len(members)..(2 * Len(members)) : Int64(n) \notin ToSet(members)}))

(* What a frame becomes in the aggregate it was drawn for.                   *)
AddTo(parent, frame) ==
  [parent EXCEPT !.kids =
     CASE parent.type = "Map" -> @ \o <<Key(Count(parent)), frame>>
       [] parent.type = "Set" -> Append(@, Distinct(@, frame))
       [] OTHER -> Append(@, frame)]

Deliver(open, frame) ==
  IF open = <<>> THEN stack' = <<>> /\ tree' = <<frame>>
  ELSE stack' = Append(Front(open), AddTo(Last(open), frame)) /\ UNCHANGED tree

Wanted == tree = <<>> /\ (stack # <<>> => Count(Last(stack)) < Last(stack).want)

(* Frames drawn or still to be drawn, for the bound.                         *)
Budget == 1 + FoldLeft(LAMBDA n, open : n + open.want, 0, stack)

DrawScalar ==
  /\ Wanted
  /\ \E kind \in Available(Depth) \ Aggregates : \E frame \in ScalarDraws(kind) :
       Deliver(stack, frame)
  /\ UNCHANGED g

OpenAggregate ==
  /\ Wanted
  /\ \E kind \in Available(Depth) \cap Aggregates, count \in 0..MaxItems :
       /\ Budget + count <= MaxFrames
       /\ stack' = Append(stack, [type |-> kind, want |-> count, kids |-> <<>>])
  /\ UNCHANGED <<g, tree>>

CloseAggregate ==
  /\ tree = <<>> /\ stack # <<>> /\ ~Wanted
  /\ Deliver(Front(stack), Aggregate(Last(stack).type, Last(stack).kids))
  /\ UNCHANGED g

DrawViolation ==
  /\ Wanted /\ g.violations
  /\ \E frame \in Violations(Depth) : Deliver(stack, frame)
  /\ UNCHANGED g

Finished == tree # <<>> /\ UNCHANGED generateVars

GenerateNext == DrawScalar \/ OpenAggregate \/ CloseAggregate \/ DrawViolation \/ Finished

GenerateSpec == GenerateInit /\ [][GenerateNext]_generateVars
-----------------------------------------------------------------------------
(* What holds of every frame of a tree, generated under the profile p.       *)

(* README: "four elements or pairs per aggregate, and 4097 bytes per blob    *)
(* payload", also with violations.                                           *)
FrameBounded(f) ==
  /\ Count(f) <= MaxItems
  /\ f.type \in Blobs => Len(f.val) <= MaxBlobBytes

Resp2Types == {"SimpleString", "SimpleError", "Integer", "BulkString",
               "NullBulkString", "NullArray", "Array"}

(* Without violations a frame belongs to the protocol, RESP3 has neither     *)
(* side-band frames nor RESP2 nulls, and verbatim strings have their format. *)
FrameOfProtocol(p, f) ==
  ~p.violations =>
    /\ p.protocol = "RESP2" => f.type \in Resp2Types
    /\ p.protocol = "RESP3" => f.type \notin {"Push", "Attribute"} \cup Nullable
    /\ f.type = "VerbatimString" => IsPrefix(Txt, f.val)

(* The members of a generated set and the keys of a generated map differ,    *)
(* whatever is drawn for them, the replacements of repeated members included.*)
MembersDiffer(f) ==
  /\ f.type = "Set" => IsInjective(f.kids)
  /\ f.type = "Map" => IsInjective([i \in 1..Count(f) |-> f.kids[2 * i - 1]])
=============================================================================
