------------------------------- MODULE Frames -------------------------------
(* The encoding of RESP frames (src/src/resp.rs) and the order in which the  *)
(* encoder, framing.rs and mutation.rs visit the frames of a tree.           *)
EXTENDS FrameTypes

(* The text between the prefix and CRLF of a frame without a length.         *)
LineText(f) ==
  CASE f.type = "Integer" -> Decimal(f.val[1])
    [] f.type = "Boolean" -> IF f.val[1] = 1 THEN <<116>> ELSE <<102>>
    [] OTHER -> f.val

(* encode_into, push_line and push_blob. `acc.index` is the pre-order number *)
(* the next frame gets; the header of the frame numbered `target` shows      *)
(* `replacement` in the place of the length. What follows the header is the  *)
(* frame's own content whatever the header says.                             *)
RECURSIVE EncodeInto(_, _, _, _)
EncodeInto(f, acc, target, replacement) ==
  LET length == IF acc.index = target THEN replacement
                ELSE Decimal(DeclaredLength(f))
      head == IF f.type = "Inline" THEN f.val \o CRLF
              ELSE <<Prefix[f.type]>>
                   \o (IF HasLength(f) THEN length ELSE LineText(f)) \o CRLF
                   \o (IF f.type \in Blobs THEN f.val \o CRLF ELSE <<>>)
  IN  FoldLeft(LAMBDA a, kid : EncodeInto(kid, a, target, replacement),
               [out |-> acc.out \o head, index |-> acc.index + 1], f.kids)

EncodeWithLength(f, target, replacement) ==
  EncodeInto(f, [out |-> <<>>, index |-> 0], target, replacement).out

Encode(f) == EncodeWithLength(f, -1, <<>>)

-----------------------------------------------------------------------------
(* Frames and their paths, in the pre-order of the encoder. A path is the    *)
(* sequence of names after `root`: child positions, and "key" or "value"     *)
(* after the position of a pair (framing.rs visit, mutation.rs).             *)

PositionName == <<"0", "1", "2", "3", "4", "5", "6", "7">>

KidPath(f, k) ==
  IF f.type \in PairLists
  THEN <<PositionName[(k + 1) \div 2], IF k % 2 = 1 THEN "key" ELSE "value">>
  ELSE <<PositionName[k]>>

RECURSIVE Visit(_, _, _)
Visit(f, path, depth) ==
  <<[frame |-> f, path |-> path, depth |-> depth]>>
  \o FoldLeft(LAMBDA acc, k :
                acc \o Visit(f.kids[k], path \o KidPath(f, k), depth + 1),
              <<>>, [k \in 1..Len(f.kids) |-> k])

(* All frames of a tree with their paths and depths; element i + 1 is the    *)
(* frame the encoder numbers i.                                              *)
Preorder(f) == Visit(f, <<>>, 0)
=============================================================================
