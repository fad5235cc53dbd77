--------------------------- MODULE GeneratedTrees ---------------------------
(* The trees the generator of src/src/generator.rs returns, frame by frame   *)
(* and as bytes.                                                             *)
EXTENDS Generator, RespParser

Frames == {Preorder(tree[1])[i] : i \in DOMAIN Preorder(tree[1])}

(* README: "at most three levels (root included), four elements or pairs per *)
(* aggregate, and 4097 bytes per blob payload", also with violations: the    *)
(* nesting check of frame_at and the one of violation agree.                 *)
BudgetsKept ==
  tree # <<>> => \A n \in Frames : n.depth < MaxDepth /\ FrameBounded(n.frame)

(* Without violations every descendant belongs to the protocol, and its      *)
(* numbers are well formed.                                                  *)
ProtocolKept ==
  tree # <<>> => \A n \in Frames :
    /\ FrameOfProtocol(g, n.frame)
    /\ ~g.violations /\ n.frame.type \in {"Double", "BigNumber"} =>
         n.frame.val \notin {<<>>, BadNumber, BadBig}

(* Members and keys differ all over the tree.                                *)
MembersDistinct == tree # <<>> => \A n \in Frames : MembersDiffer(n.frame)

(* README: generated values are correctly framed, payloads with embedded     *)
(* RESP markers too: the parser finds exactly the generated tree, except     *)
(* that text may be malformed.                                               *)
CorrectlyFramed ==
  tree # <<>> => ParseFrame(Encode(tree[1])) = Parsed(tree[1], Len(Encode(tree[1])) + 1)
=============================================================================
