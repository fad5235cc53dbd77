---------------------------- MODULE RespStream ------------------------------
(* The two readings of RESP of src/src/resp.rs: `read_raw_frame` (RespReader)*)
(* finds where a frame ends, `parse_frame` (RespParser) builds the tree from *)
(* those bytes. They decide separately what a frame is and where it ends.    *)
EXTENDS RespReader, RespParser

(* What read_raw_frame returns as one frame, parse_frame takes for one       *)
(* frame: it may dislike a value, but it never finds the frame cut short,    *)
(* something behind it, a missing terminator, a bad length or other limits.  *)
ParserAgrees ==
  outcome = "done" => ParseFrame(raw).status \in {"ok", "content"}

(* The end of a frame is unique: no proper prefix of what the reader took is *)
(* a frame, so pipelined commands and replies are never split differently by *)
(* reader and parser.                                                        *)
Delimited ==
  outcome = "done" =>
    \A n \in 1..(Len(raw) - 1) : ParseFrame(SubSeq(raw, 1, n)).status # "ok"

(* Encoding a parsed frame and parsing it again gives the frame: a reply the *)
(* proxy re-encodes, unchanged, means to the client what it meant upstream.  *)
(* A frame with an Inline inside is left out: requests are forwarded as they *)
(* came, and Redis answers with none. (Re-encoded, an Inline loses the white *)
(* space in front of its words, and the first byte decides the type.)        *)
ReencodingStable ==
  outcome = "done" /\ ParseFrame(raw).status = "ok" =>
    LET frame == ParseFrame(raw).frame
        again == ParseFrame(Encode(frame))
    IN  \/ \E i \in DOMAIN Preorder(frame) : Preorder(frame)[i].frame.type = "Inline"
        \/ again.status = "ok" /\ again.frame = frame
=============================================================================
