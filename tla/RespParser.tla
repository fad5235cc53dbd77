---------------------------- MODULE RespParser ------------------------------
(* The parser of src/src/resp.rs: `parse_frame` builds the tree of a frame   *)
(* from the bytes of exactly one frame, recursively.                         *)
EXTENDS Frames, RespHeaders, FiniteSetsExt

(* A result is "ok" with a frame and the position after it, or an    *)
(* error: "content" for a well-delimited frame whose value is wrong,         *)
(* "framing" for everything a reader that found the right end has excluded.  *)

Parsed(frame, next) == [status |-> "ok", frame |-> frame, next |-> next]
ParseError(status) == [status |-> status, frame |-> Scalar("Null", <<>>), next |-> 0]

(* take_line: up to the first CR LF, searched from p.                        *)
LineEnds(s, p) == {i \in p..(Len(s) - 1) : s[i] = CR /\ s[i + 1] = LF}

(* parse_inline with shell_words: CR, LF and space separate words.           *)
IsSpace(byte) == byte \in {9, 10, 12, 13, 32}
InlineValue(first, line) ==
  LET Add(acc, b) == IF ~IsSpace(b) THEN Append(acc, b)
                     ELSE IF acc = <<>> \/ Last(acc) = 32 THEN acc
                     ELSE Append(acc, 32)
      words == FoldLeft(Add, <<>>, line)
  IN  IF \A i \in DOMAIN line : IsSpace(line[i]) THEN <<first>>
      ELSE IF Last(words) = 32 THEN Front(words) ELSE words

(* take_blob                                                                 *)
ParseBlob(s, type, p, len) ==
  LET end == p + len
  IN  IF len < 0 \/ end + 1 > Len(s) THEN ParseError("framing")
      ELSE IF s[end] # CR \/ s[end + 1] # LF THEN ParseError("framing")
      ELSE Parsed(Scalar(type, SubSeq(s, p, end - 1)), end + 2)

(* What a line without a length means for its type.                          *)
ParseLine(type, first, line, next) ==
  CASE type = "Null" ->
         IF line = <<>> THEN Parsed(Scalar("Null", <<>>), next)
         ELSE ParseError("content")
    [] type = "Boolean" ->
         IF line \in {<<116>>, <<102>>}
         THEN Parsed(Scalar("Boolean", <<IF line = <<116>> THEN 1 ELSE 0>>), next)
         ELSE ParseError("content")
    [] type = "Integer" ->
         IF ParseInt(line) = {} THEN ParseError("content")
         ELSE Parsed(Int64(CHOOSE n \in ParseInt(line) : TRUE), next)
    [] type = "Inline" -> Parsed(Scalar("Inline", InlineValue(first, line)), next)
    [] OTHER -> IF IsUtf8(line) THEN Parsed(Scalar(type, line), next)
                ELSE ParseError("content")

(* Parser::parse_frame and what it calls. ParseItems is the loop of          *)
(* read_sequence and parse_map_like, over `n` children, a map's pairs        *)
(* flattened.                                                                *)
RECURSIVE ParseAt(_, _, _), ParseItems(_, _, _, _, _)
ParseItems(s, p, depth, n, kids) ==
  IF n = 0 THEN [status |-> "ok", kids |-> kids, next |-> p]
  ELSE LET item == ParseAt(s, p, depth)
       IN  IF item.status # "ok" THEN item
           ELSE ParseItems(s, item.next, depth, n - 1, Append(kids, item.frame))

ParseAggregate(s, type, p, depth, len) ==
  LET n == IF type \in PairLists THEN 2 * len ELSE len
      items == ParseItems(s, p, depth + 1, n, <<>>)
  IN  IF len < 0 \/ len > (Len(s) - p + 1) \div (IF type \in PairLists THEN 6 ELSE 3)
      THEN ParseError("framing")
      ELSE IF items.status # "ok" THEN ParseError(items.status)
      ELSE Parsed(Aggregate(type, items.kids), items.next)

ParseAt(s, p, depth) ==
  IF depth = MaxFrameDepth \/ p > Len(s) THEN ParseError("framing")
  ELSE LET type == TypeOfPrefix(s[p])
           start == IF type = "Inline" THEN p ELSE p + 1
           ends == LineEnds(s, start)
           line == SubSeq(s, start, Min(ends) - 1)
           next == Min(ends) + 2
           len == ParseInt(line)
       IN  IF ends = {} THEN ParseError("framing")
           ELSE IF type \notin Blobs \cup Aggregates THEN ParseLine(type, s[p], line, next)
           ELSE IF len = {} THEN ParseError("framing")
           ELSE IF len = {-1} /\ NullForm(type) # type
                THEN Parsed(Scalar(NullForm(type), <<>>), next)
           ELSE LET n == CHOOSE n \in len : TRUE
                IN  IF type \in Blobs THEN ParseBlob(s, type, next, n)
                    ELSE ParseAggregate(s, type, next, depth, n)

(* parse_frame: the whole input, not too long, and nothing behind the frame. *)
ParseFrame(s) ==
  LET result == ParseAt(s, 1, 0)
  IN  IF Len(s) > MaxFrameBytes THEN ParseError("framing")
      ELSE IF result.status = "ok" /\ result.next # Len(s) + 1
           THEN ParseError("framing")
      ELSE result
=============================================================================
