----------------------------- MODULE Canonical ------------------------------
(* Canonicalization of replies, src/src/evil.rs. A server may return the     *)
(* members of a set, the fields of a hash or the pairs of a map in any       *)
(* order; faults are seeded with a hash of the reply, so replies that differ *)
(* only in such an order have to become the same reply first.                *)
(*                                                                           *)
(* The server (external) starts from one arrangement of a reply and swaps    *)
(* what has no order; the canonical form must not notice.                    *)
EXTENDS Frames

CONSTANT Cases   \* mode, commands and a first arrangement of the reply

VARIABLES case, reply

vars == <<case, reply>>

(* Mode of CANONICALIZE; `commands` are the names queued for an EXEC, with   *)
(* `exec` TRUE, or the one command the reply answers.                        *)
CasesAssumption ==
  \A c \in Cases : /\ c.mode \in {"ALL", "UNORDERED", "NONE"}
                   /\ c.exec \/ Len(c.commands) = 1

Init == case \in Cases /\ reply = case.reply
-----------------------------------------------------------------------------
(* sort_by_key(sort_key): by the encoded bytes.                              *)
BytesBefore(a, b) ==
  \E i \in 1..Len(b) : /\ i <= Len(a) + 1 /\ SubSeq(a, 1, i - 1) = SubSeq(b, 1, i - 1)
                       /\ i > Len(a) \/ a[i] < b[i]

SortItems(items) == SortSeq(items, LAMBDA a, b : BytesBefore(Encode(a), Encode(b)))

(* A sequence of keys and values, sorted by key and then by value; a last    *)
(* element without partner stays behind.                                     *)
PairBefore(p, q) == \/ BytesBefore(Encode(p[1]), Encode(q[1]))
                    \/ p[1] = q[1] /\ BytesBefore(Encode(p[2]), Encode(q[2]))
SortPairs(items) ==
  LET half == Len(items) \div 2
      pairs == SortSeq([i \in 1..half |-> <<items[2 * i - 1], items[2 * i]>>], PairBefore)
  IN  FlattenSeq(pairs) \o SubSeq(items, 2 * half + 1, Len(items))

(* canonicalize_all_containers: children first, since they are the sort keys.*)
\* Mutant: the items are sorted by what they were before.
RECURSIVE AllContainersLate(_)
AllContainersLate(f) ==
  IF f.type \notin Aggregates THEN f
  ELSE LET sorted == IF f.type \in PairLists THEN SortPairs(f.kids) ELSE SortItems(f.kids)
       IN  [f EXCEPT !.kids = [k \in DOMAIN sorted |-> AllContainersLate(sorted[k])]]
RECURSIVE AllContainers(_)
AllContainers(f) ==
  LET kids == [k \in DOMAIN f.kids |-> AllContainers(f.kids[k])]
  IN  CASE f.type \in Lists -> [f EXCEPT !.kids = SortItems(kids)]
        [] f.type \in PairLists -> [f EXCEPT !.kids = SortPairs(kids)]
        [] OTHER -> f

(* canonicalize_unordered_containers: arrays and pushes keep their order.    *)
RECURSIVE UnorderedContainers(_)
UnorderedContainers(f) ==
  LET kids == [k \in DOMAIN f.kids |-> UnorderedContainers(f.kids[k])]
  IN  CASE f.type \in {"Array", "Push"} -> [f EXCEPT !.kids = kids]
        [] f.type \in PairLists -> [f EXCEPT !.kids = SortPairs(kids)]
        [] f.type = "Set" -> [f EXCEPT !.kids = SortItems(kids)]
        [] OTHER -> f

UnorderedArrays == {"HKEYS", "HVALS", "SDIFF", "SINTER", "SMEMBERS", "SUNION"}

(* canonicalize_unordered_reply with canonicalize_array_items and _pairs.    *)
UnorderedReply(command, f) ==
  LET inner == UnorderedContainers(f)
  IN  CASE f.type = "Array" /\ command = "HGETALL" -> [inner EXCEPT !.kids = SortPairs(@)]
        [] f.type = "Array" /\ command \in UnorderedArrays -> [inner EXCEPT !.kids = SortItems(@)]
        [] OTHER -> inner

CanonicalizeReply(mode, command, f) ==
  CASE mode = "ALL" -> AllContainers(f)
    [] mode = "UNORDERED" -> UnorderedReply(command, f)
    [] mode = "NONE" -> f

(* canonicalize_transaction_reply: each result for the command it answers.   *)
CanonicalizeTransaction(mode, commands, f) ==
  IF f.type # "Array" THEN f
  ELSE [f EXCEPT !.kids = [k \in DOMAIN f.kids |->
          IF k > Len(commands) THEN f.kids[k]
          ELSE CanonicalizeReply(mode, commands[k], f.kids[k])]]

Canonicalize(f) ==
  IF case.exec THEN CanonicalizeTransaction(case.mode, case.commands, f)
  ELSE CanonicalizeReply(case.mode, case.commands[1], f)
-----------------------------------------------------------------------------
(* The server                                                                *)

(* The results a mode treats separately, as positions in the reply, and the  *)
(* command each answers.                                                     *)
Results == IF ~case.exec THEN {[pos |-> <<>>, command |-> case.commands[1]]}
           ELSE IF reply.type # "Array" THEN {}
           ELSE {[pos |-> <<k>>, command |-> case.commands[k]] :
                   k \in DOMAIN reply.kids \cap DOMAIN case.commands}

At(f, pos) == FoldLeft(LAMBDA a, k : a.kids[k], f, pos)
RECURSIVE Put(_, _, _)
Put(f, pos, new) ==
  IF pos = <<>> THEN new
  ELSE [f EXCEPT !.kids[Head(pos)] = Put(@, Tail(pos), new)]
RECURSIVE Positions(_)
Positions(f) == {<<>>} \cup UNION {{<<k>> \o p : p \in Positions(f.kids[k])} : k \in DOMAIN f.kids}

(* How many neighbours move together in a frame of a result: 0 if its order  *)
(* has a meaning.                                                            *)
Stride(result, f, isResult) ==
  LET array == isResult /\ f.type = "Array"
  IN  CASE case.mode = "NONE" -> 0
        [] case.mode = "ALL" /\ f.type \in Lists -> 1
        [] case.mode = "UNORDERED" /\ array /\ result.command = "HGETALL" -> 2
        [] case.mode = "UNORDERED" /\ array /\ result.command \in UnorderedArrays -> 1
        [] f.type = "Set" /\ case.mode # "NONE" -> 1
        [] f.type \in PairLists /\ case.mode # "NONE" -> 2
        [] OTHER -> 0

SwapGroups(kids, stride, i, j) ==
  [k \in DOMAIN kids |->
     LET group == ((k - 1) \div stride) + 1
         offset == (k - 1) % stride
     IN  CASE group = i -> kids[(j - 1) * stride + offset + 1]
           [] group = j -> kids[(i - 1) * stride + offset + 1]
           [] OTHER -> kids[k]]

Rearrange ==
  \E result \in Results : \E pos \in Positions(At(reply, result.pos)) :
    LET here == result.pos \o pos
        f == At(reply, here)
        stride == Stride(result, f, pos = <<>>)
    IN  /\ stride > 0
        /\ \E i, j \in 1..(Len(f.kids) \div stride) :
             /\ i < j
             /\ reply' = Put(reply, here, [f EXCEPT !.kids = SwapGroups(@, stride, i, j)])
        /\ UNCHANGED case

(* The same reply in the same order.                                         *)
Repeat == UNCHANGED vars

Next == Rearrange \/ Repeat

Spec == Init /\ [][Next]_vars
-----------------------------------------------------------------------------
(* Replies that differ only in the order of what has no order have the same  *)
(* canonical form, hence the same seed hash and the same faults.             *)
OrderIrrelevant == Canonicalize(reply) = Canonicalize(case.reply)

(* The tree with bags in the place of what the mode may reorder.             *)
RECURSIVE Forget(_, _)
Forget(f, pos) ==
  LET kids == [k \in DOMAIN f.kids |-> Forget(f.kids[k], Append(pos, k))]
      results == {r \in Results : IsPrefix(r.pos, pos)}
      stride == IF results = {} THEN 0
                ELSE LET r == CHOOSE r \in results : TRUE IN Stride(r, f, pos = r.pos)
      groups == [g \in 1..(Len(kids) \div stride) |-> SubSeq(kids, (g - 1) * stride + 1, g * stride)]
  IN  IF stride = 0 THEN <<f.type, f.val, kids>>
      ELSE <<f.type, f.val,
             [g \in ToSet(groups) |-> Cardinality({i \in DOMAIN groups : groups[i] = g})],
             SubSeq(kids, Len(groups) * stride + 1, Len(kids))>>

(* Nothing else changes: no element is lost, replaced or moved to another    *)
(* container, and what has an order keeps it (README on UNORDERED).          *)
OrderKept == Forget(Canonicalize(reply), <<>>) = Forget(reply, <<>>)

(* The canonical form is its own canonical form.                             *)
Idempotent == Canonicalize(Canonicalize(reply)) = Canonicalize(reply)
=============================================================================
