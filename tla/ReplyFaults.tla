----------------------------- MODULE ReplyFaults ----------------------------
(* Faults in the content of a reply: value mutation (src/src/mutation.rs),   *)
(* length faults (framing.rs) and edits of an EXEC result (exec_mutation.rs),*)
(* in the order mutate_command_reply and mutate try them. One behaviour is   *)
(* one reply; every random draw is a choice over what may be drawn. A        *)
(* probability is 0, 100 or something between, 50.                           *)
EXTENDS Corpus, RespParser

CONSTANTS
  Replies,        \* command and canonical upstream frame
  Configs,        \* settings
  Replacements    \* frames generator.frame() may return

VARIABLES
  reply, config,
  pc,          \* start, generic, value, select, walk, framing, done
  frame,       \* the tree being mutated
  todo,        \* positions still to visit, in pre-order
  remaining,   \* weight left to skip in MUTATIONS ONE
  mutations,   \* the recorded mutations
  bytes        \* the encoded result

vars == <<reply, config, pc, frame, todo, remaining, mutations, bytes>>

Init ==
  /\ reply \in Replies /\ config \in Configs
  /\ pc = "start" /\ frame = reply.frame
  /\ todo = <<>> /\ remaining = 0 /\ mutations = <<>> /\ bytes = <<>>

Roll(probability) ==
  CASE probability = 0 -> {FALSE} [] probability = 100 -> {TRUE} [] OTHER -> BOOLEAN

(* MutationDepth::weight and scale.                                          *)
Weight(depth) == IF config.depth = "ANY" THEN 1 ELSE 2^(IF depth < 64 THEN depth ELSE 64)
Scale(probability, depth, deepest) ==
  IF config.depth = "INNER" /\ depth < deepest /\ probability = 100 THEN 50 ELSE probability

(* A position is a sequence of child numbers from 1; a path has the names    *)
(* that are recorded.                                                        *)
At(f, pos) == FoldLeft(LAMBDA a, k : a.kids[k], f, pos)
PathOf(f, pos) ==
  FoldLeft(LAMBDA path, n : path \o KidPath(At(f, SubSeq(pos, 1, n - 1)), pos[n]),
           <<>>, [n \in 1..Len(pos) |-> n])
RECURSIVE Put(_, _, _)
Put(f, pos, new) ==
  IF pos = <<>> THEN new
  ELSE [f EXCEPT !.kids[Head(pos)] = Put(@, Tail(pos), new)]

ValueMutation(path, kind) == [path |-> path, kind |-> kind, length |-> <<>>, exec |-> <<>>]

Finish(f, added) ==
  /\ pc' = "done" /\ bytes' = Encode(f)
  /\ mutations' = mutations \o added
  /\ UNCHANGED <<reply, config, frame, todo, remaining>>
-----------------------------------------------------------------------------
(* EXEC edits                                                                *)

Exec(kind, old, new, index, other) ==
  [path |-> <<>>, kind |-> kind, length |-> <<>>,
   exec |-> <<[original_count |-> Len(old), replacement_count |-> Len(new),
               index |-> index, other_index |-> other]>>]

CanSwap(items) == \E i \in DOMAIN items : items[i] # items[1]

(* The cases in which exec_mutation::mutate_reply tries an edit.             *)
ExecApplies ==
  /\ reply.command = "EXEC" /\ config.mode \in {"MUTATE", "OVERFLOW"}
  /\ config.exec.action # "OFF" /\ config.exec.probability # 0
  /\ reply.frame.type = "Array" /\ reply.frame.kids # <<>>
  /\ config.exec.action = "SWAP" => CanSwap(reply.frame.kids)

ExecActions(items) ==
  IF config.exec.action # "RANDOM" THEN {config.exec.action}
  ELSE {"REMOVE", "DUPLICATE"} \cup (IF CanSwap(items) THEN {"SWAP"} ELSE {})

Swapped(items, i, j) == [items EXCEPT ![i] = items[j], ![j] = items[i]]

Duplicated(items, i) == InsertAt(items, i + 1, items[i])

(* What an edit at item i (from 1) may give, with its record.                *)
ExecEdits(items, action, i) ==
  CASE action = "REMOVE" ->
         {[items |-> RemoveAt(items, i),
           entry |-> Exec("ExecRemove", items, RemoveAt(items, i), i - 1, <<>>)]}
    [] action = "DUPLICATE" ->
         {[items |-> Duplicated(items, i),
           entry |-> Exec("ExecDuplicate", items, Duplicated(items, i), i - 1, <<>>)]}
    [] action = "SWAP" ->
         {[items |-> Swapped(items, i, j),
           entry |-> Exec("ExecSwap", items, items, i - 1, <<j - 1>>)] :
            j \in {j \in DOMAIN items : items[j] # items[i]}}

EditExec ==
  /\ pc = "start" /\ ExecApplies /\ TRUE \in Roll(config.exec.probability)
  /\ \E action \in ExecActions(reply.frame.kids), i \in DOMAIN reply.frame.kids :
     \E edit \in ExecEdits(reply.frame.kids, action, i) :
       Finish(Aggregate("Array", edit.items), <<edit.entry>>)

(* No edit is tried, or its probability check fails.                         *)
SkipExec ==
  /\ pc = "start"
  /\ ~ExecApplies \/ FALSE \in Roll(config.exec.probability)
  /\ pc' = "generic"
  /\ UNCHANGED <<reply, config, frame, todo, remaining, mutations, bytes>>
-----------------------------------------------------------------------------
(* Length faults                                                             *)

ChooseDifferent(original, values) ==
  {IF values[i] = original THEN values[(i % Len(values)) + 1] ELSE values[i] : i \in DOMAIN values}

CorruptLength(original, kind) ==
  CASE kind = "SHORTER" -> {original - 1}
    [] kind = "LONGER" -> {original + 1}
    [] kind = "NEGATIVE" -> ChooseDifferent(original, <<-2, -3, I64Min>>)
    [] kind = "BOUNDARY" ->
         ChooseDifferent(original, <<0, 1, 2^(W32 - 1) - 1, 2^(W32 - 1), 2^W32 - 1, 2^W32,
                                     I64Max, U64Max>>)
    [] kind = "OVERFLOW" -> {I64Max + 1, U64Max + 1, I64Min - 1, 2^(2 * W64)}

LengthKinds == {"SHORTER", "LONGER", "NEGATIVE", "BOUNDARY", "OVERFLOW"}

(* select_header: the pre-order numbers, from 1, of the headers TARGET       *)
(* admits. Under TARGET ANY and DEPTH INNER the draw is a weight, and lands  *)
(* on a header (select_weighted_header).                                     *)
Headers(f, target) ==
  LET nodes == Preorder(f)
  IN  {i \in DOMAIN nodes :
         HasLength(nodes[i].frame) /\ (target = <<>> \/ target = <<nodes[i].path>>)}
SelectHeader(f, target) ==
  LET nodes == Preorder(f)
      any == Headers(f, target)
      Before(i) == FoldSet(LAMBDA j, n : n + Weight(nodes[j].depth), 0, {j \in any : j < i})
      total == FoldSet(LAMBDA j, n : n + Weight(nodes[j].depth), 0, any)
  IN  IF target # <<>> \/ config.depth = "ANY" THEN any
      ELSE {CHOOSE i \in any : Before(i) <= r /\ r < Before(i) + Weight(nodes[i].depth) :
              r \in 0..(total - 1)}

TreeDepth(f) == Max({Preorder(f)[i].depth : i \in DOMAIN Preorder(f)})

LengthFault(f, i, kind, replacement) ==
  [index |-> i - 1, replacement |-> replacement,
   entry |-> [path |-> Preorder(f)[i].path, kind |-> "WrongLength",
              length |-> <<[kind |-> kind, original |-> DeclaredLength(Preorder(f)[i].frame),
                            replacement |-> replacement]>>,
              exec |-> <<>>]]

(* mutate_length: AUTO at the root and in MANY only, LENGTH with its own     *)
(* options.                                                                  *)
AutoFaults(f) ==
  IF config.count = "ONE" \/ ~HasLength(f) THEN {}
  ELSE {IF config.mode = "OVERFLOW" THEN LengthFault(f, 1, "BOUNDARY", I64Max)
        ELSE LengthFault(f, 1, "LONGER", DeclaredLength(f) + 1)}
ExplicitFaults(f) ==
  LET kinds == IF config.framing.kind = "RANDOM" THEN LengthKinds ELSE {config.framing.kind}
  IN  UNION {UNION {{LengthFault(f, i, kind, r) :
                       r \in CorruptLength(DeclaredLength(Preorder(f)[i].frame), kind)} :
                      kind \in kinds} : i \in SelectHeader(f, config.framing.target)}

LengthFaults(f) == CASE config.framing.mode = "OFF" -> {}
                     [] config.framing.mode = "AUTO" -> AutoFaults(f)
                     [] config.framing.mode = "LENGTH" -> ExplicitFaults(f)
LengthProbability(f) ==
  IF config.framing.mode = "LENGTH" THEN config.framing.probability
  ELSE Scale(config.probability, 0, TreeDepth(f))

(* The length fault is tried first in ONE, if it is explicit, and last in    *)
(* MANY.                                                                     *)
Tries == \/ pc = "generic" /\ config.count = "ONE" /\ config.framing.mode = "LENGTH"
         \/ pc = "framing"

WrongLength ==
  /\ config.mode \in {"MUTATE", "OVERFLOW"} /\ Tries
  /\ TRUE \in Roll(LengthProbability(frame))
  /\ \E fault \in LengthFaults(frame) :
       /\ bytes' = EncodeWithLength(frame, fault.index, Decimal(fault.replacement))
       /\ mutations' = Append(mutations, fault.entry)
  /\ pc' = "done"
  /\ UNCHANGED <<reply, config, frame, todo, remaining>>

NoWrongLength ==
  /\ config.mode \in {"MUTATE", "OVERFLOW"} /\ Tries
  /\ LengthFaults(frame) = {} \/ FALSE \in Roll(LengthProbability(frame))
  /\ IF pc = "framing" THEN Finish(frame, <<>>)
     ELSE /\ pc' = "value"
          /\ UNCHANGED <<reply, config, frame, todo, remaining, mutations, bytes>>
-----------------------------------------------------------------------------
(* Value mutation                                                            *)

OverflowScalars == {"Integer", "SimpleString", "SimpleError", "Double", "BigNumber",
                    "BulkString", "BulkError", "VerbatimString"}

Eligible(f) ==
  \/ config.strategy = "REPLACE"
  \/ f.type \in OverflowScalars
  \/ f.type \in {"Boolean", "Inline"} /\ config.mode = "MUTATE"

(* mutate_one: the new frame and the recorded kind.                          *)
MutateOne(f) ==
  IF config.mode = "OVERFLOW"
  THEN (IF f.type \in OverflowScalars THEN MutateScalar(f, config.generator, TRUE)
        ELSE {Int64(I64Max)}) \X {"OverflowValue"}
  ELSE IF config.strategy = "PRESERVE"
  THEN MutateScalar(f, config.generator, FALSE) \X {"RandomValue"}
  ELSE {IF r # f THEN r ELSE IF f = Int64(0) THEN Int64(1) ELSE Int64(0) :
          r \in Replacements} \X {"RandomFrame"}

Nodes == ToSet(Preorder(reply.frame))

\* Mutant: frames that cannot be selected count as well.
EligibleWeightAll ==
  FoldLeft(LAMBDA n, node : n + Weight(node.depth), 0, Preorder(reply.frame))
EligibleWeight ==
  FoldLeft(LAMBDA n, node : IF Eligible(node.frame) THEN n + Weight(node.depth) ELSE n,
           0, Preorder(reply.frame))
EligibleMaxDepth == Max({0} \cup {n.depth : n \in {n \in Nodes : Eligible(n.frame)}})

(* mutate() for a mode that mutates nothing.                                 *)
ModeOff ==
  /\ pc = "generic" /\ config.mode \notin {"MUTATE", "OVERFLOW"}
  /\ Finish(frame, <<>>)

(* What follows the first attempt at a length fault, or is the beginning.    *)
Starting == \/ pc = "value"
            \/ pc = "generic" /\ config.mode \in {"MUTATE", "OVERFLOW"} /\ ~Tries

StartOne ==
  /\ Starting /\ config.count = "ONE"
  /\ TRUE \in Roll(config.probability) /\ EligibleWeight > 0
  /\ remaining' \in 0..(EligibleWeight - 1)
  /\ todo' = <<<<>>>> /\ pc' = "select"
  /\ UNCHANGED <<reply, config, frame, mutations, bytes>>

StartNone ==
  /\ Starting /\ config.count = "ONE"
  /\ FALSE \in Roll(config.probability) \/ EligibleWeight = 0
  /\ Finish(frame, <<>>)

StartMany ==
  /\ Starting /\ config.count = "MANY"
  /\ todo' = <<<<>>>> /\ pc' = "walk"
  /\ UNCHANGED <<reply, config, frame, remaining, mutations, bytes>>

Here == At(frame, Head(todo))
Kids == [k \in 1..Len(Here.kids) |-> Append(Head(todo), k)]

(* mutate_selected: skip the weights in front of the one that was drawn.     *)
SkipSelected ==
  /\ pc = "select" /\ todo # <<>>
  /\ Eligible(Here) => remaining >= Weight(Len(Head(todo)))
  /\ remaining' = IF Eligible(Here) THEN remaining - Weight(Len(Head(todo))) ELSE remaining
  /\ todo' = Kids \o Tail(todo)
  /\ UNCHANGED <<reply, config, pc, frame, mutations, bytes>>

(* Replace the frame at the head of todo by one of MutateOne and record it.  *)
Mutate ==
  \E new \in MutateOne(Here) :
    /\ frame' = Put(frame, Head(todo), new[1])
    /\ mutations' = Append(mutations, ValueMutation(PathOf(frame, Head(todo)), new[2]))

MutateSelected ==
  /\ pc = "select" /\ todo # <<>>
  /\ Eligible(Here) /\ remaining < Weight(Len(Head(todo)))
  /\ Mutate
  /\ todo' = <<>>
  /\ UNCHANGED <<reply, config, pc, remaining, bytes>>

(* mutate_frame: a frame that is replaced is not entered.                    *)
WalkProbability == Scale(config.probability, Len(Head(todo)), EligibleMaxDepth)

\* Mutant: the children of a mutated frame are visited too.
WalkMutateInto ==
  /\ pc = "walk" /\ todo # <<>>
  /\ Eligible(Here) /\ TRUE \in Roll(WalkProbability)
  /\ \E new \in MutateOne(Here) :
       /\ frame' = Put(frame, Head(todo), new[1])
       /\ mutations' = Append(mutations, ValueMutation(PathOf(frame, Head(todo)), new[2]))
       /\ todo' = [k \in 1..Len(new[1].kids) |-> Append(Head(todo), k)] \o Tail(todo)
  /\ UNCHANGED <<reply, config, pc, remaining, bytes>>
WalkMutate ==
  /\ pc = "walk" /\ todo # <<>>
  /\ Eligible(Here) /\ TRUE \in Roll(WalkProbability)
  /\ Mutate
  /\ todo' = Tail(todo)
  /\ UNCHANGED <<reply, config, pc, remaining, bytes>>

WalkSkip ==
  /\ pc = "walk" /\ todo # <<>>
  /\ Eligible(Here) => FALSE \in Roll(WalkProbability)
  /\ todo' = Kids \o Tail(todo)
  /\ UNCHANGED <<reply, config, pc, frame, remaining, mutations, bytes>>

Visited ==
  /\ pc \in {"select", "walk"} /\ todo = <<>>
  /\ IF pc = "select" THEN Finish(frame, <<>>)
     ELSE /\ pc' = "framing"
          /\ UNCHANGED <<reply, config, frame, todo, remaining, mutations, bytes>>

Done == pc = "done" /\ UNCHANGED vars

Next == \/ EditExec \/ SkipExec \/ ModeOff
        \/ WrongLength \/ NoWrongLength
        \/ StartOne \/ StartNone \/ StartMany
        \/ SkipSelected \/ MutateSelected \/ WalkMutate \/ WalkSkip \/ Visited
        \/ Done

Spec == Init /\ [][Next]_vars
-----------------------------------------------------------------------------
Kind(k) == {m \in ToSet(mutations) : m.kind = k}
ValueMutations == {m \in ToSet(mutations) : m.length = <<>> /\ m.exec = <<>>}
Edited == \E m \in ToSet(mutations) : m.exec # <<>>

(* README on MUTATIONS ONE: never more than one mutation, and at probability *)
(* 100 exactly one if there is an eligible frame: the weight that was drawn  *)
(* always lands on a frame, and a length fault that is not possible leaves   *)
(* its place to a value.                                                     *)
OneMeansOne ==
  pc = "done" /\ config.count = "ONE" =>
    /\ Len(mutations) <= 1
    /\ config.mode \in {"MUTATE", "OVERFLOW"} /\ config.probability = 100
       /\ (\E n \in Nodes : Eligible(n.frame)) => Len(mutations) = 1

RECURSIVE Masked(_, _, _)
Masked(f, path, paths) ==
  IF path \in paths THEN Scalar("Null", <<>>)
  ELSE [f EXCEPT !.kids = [k \in DOMAIN f.kids |->
                             Masked(f.kids[k], path \o KidPath(f, k), paths)]]
FrameAt(f, path) ==
  LET nodes == Preorder(f)
  IN  nodes[CHOOSE i \in DOMAIN nodes : nodes[i].path = path].frame

(* The recorded paths are exactly where the tree changed: each names an      *)
(* original frame that is different now, none lies inside another, and       *)
(* outside of them nothing changed (README: "Replacement subtrees are not    *)
(* recursively mutated again").                                              *)
RecordNamesChanges ==
  pc = "done" /\ ~Edited =>
    LET paths == {m.path : m \in ValueMutations}
    IN  /\ Cardinality(paths) = Cardinality({i \in DOMAIN mutations : mutations[i].length = <<>>})
        /\ \A p, q \in paths : IsPrefix(p, q) => p = q
        /\ Masked(frame, <<>>, paths) = Masked(reply.frame, <<>>, paths)
        /\ \A p \in paths :
             /\ \E n \in Nodes : n.path = p
             /\ FrameAt(frame, p) # FrameAt(reply.frame, p)

RECURSIVE Shape(_)
Shape(f) == [type |-> f.type, kids |-> [k \in DOMAIN f.kids |-> Shape(f.kids[k])]]

(* README on PRESERVE: containers and scalar types are retained, in OVERFLOW *)
(* too, whatever is drawn, and verbatim strings stay valid.                  *)
PreserveKeepsTypes ==
  pc = "done" /\ config.strategy = "PRESERVE" =>
    /\ Shape(frame) = Shape(reply.frame)
    /\ ~config.generator.violations => \A n \in ToSet(Preorder(frame)) :
         n.frame.type = "VerbatimString" => IsPrefix(Txt, n.frame.val)

(* Where the frame at a position begins among the bytes.                     *)
RECURSIVE Offset(_, _)
Offset(f, path) ==
  IF path = <<>> THEN 0
  ELSE LET k == CHOOSE k \in DOMAIN f.kids : IsPrefix(KidPath(f, k), path)
           Bytes(kids) == FoldLeft(LAMBDA n, kid : n + Len(Encode(kid)), 0, kids)
       IN  Len(Encode(f)) - Bytes(SubSeq(f.kids, k, Len(f.kids)))
           + Offset(f.kids[k], SubSeq(path, Len(KidPath(f, k)) + 1, Len(path)))

(* README on FRAMING: "Only the chosen header's decimal length changes;      *)
(* bodies, terminators, sibling frames, and other headers retain their       *)
(* encoding", the recorded path is the path of that header, and the length   *)
(* differs from the true one. The path is found by a walk of framing.rs, the *)
(* header by the counter of the encoder; they have to number frames alike.   *)
OnlyOneHeaderChanges ==
  pc = "done" => \A m \in Kind("WrongLength") :
    LET before == SubSeq(Encode(frame), 1, Offset(frame, m.path) + 1)
        old == Decimal(DeclaredLength(FrameAt(frame, m.path)))
        after == SubSeq(Encode(frame), Len(before) + Len(old) + 1, Len(Encode(frame)))
    IN  /\ HasLength(FrameAt(frame, m.path))
        /\ bytes = before \o Decimal(m.length[1].replacement) \o after
        /\ m.length[1].original = DeclaredLength(FrameAt(frame, m.path))
        /\ m.length[1].replacement # m.length[1].original

(* A reply without a length fault is well framed and is the mutated tree;    *)
(* one with a length fault is never read as the tree it was made from.       *)
FramedUnlessWrongLength ==
  pc = "done" /\ ~Edited =>
    LET result == ParseFrame(bytes)
    IN  (result.status = "ok" /\ result.frame = frame) <=> Kind("WrongLength") = {}

(* README on EXEC: the record tells how to get the delivered array from the  *)
(* canonical one, whose other results survive in their order; the edit       *)
(* changes the reply even if all results are equal, and is the only fault.   *)
ExecEditExact ==
  pc = "done" /\ Edited =>
    LET entry == mutations[1]
        detail == entry.exec[1]
        old == reply.frame.kids
        new == ParseFrame(bytes).frame.kids
        i == detail.index + 1
    IN  /\ Len(mutations) = 1 /\ ParseFrame(bytes).status = "ok"
        /\ new # old
        /\ detail.original_count = Len(old) /\ detail.replacement_count = Len(new)
        /\ \/ entry.kind = "ExecRemove"
              /\ old = SubSeq(new, 1, i - 1) \o <<old[i]>> \o SubSeq(new, i, Len(new))
           \/ entry.kind = "ExecDuplicate"
              /\ new = SubSeq(old, 1, i) \o SubSeq(old, i, Len(old))
           \/ /\ entry.kind = "ExecSwap"
              /\ \A k \in DOMAIN old :
                   new[k] = old[CASE k = i -> detail.other_index[1] + 1
                                  [] k = detail.other_index[1] + 1 -> i
                                  [] OTHER -> k]
=============================================================================
