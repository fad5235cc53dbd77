---------------------------- MODULE RespReader ------------------------------
(* Reading of RESP, src/src/resp.rs. `read_raw_frame` finds the end of a     *)
(* frame on the stream with a stack of counters and without building it.     *)
(*                                                                           *)
(* The peer is external: it sends any bytes out of Starts, Lines and Bodies, *)
(* and may close the connection anywhere.                                    *)
EXTENDS RespHeaders

CONSTANTS
  Starts,          \* first bytes of a frame the peer sends
  Lines,           \* what it sends up to a LF, which is left out
  Bodies           \* bytes it sends in a blob

StreamAssumption ==
  /\ Starts \subseteq 0..255 /\ Bodies \subseteq 0..255
  /\ \A line \in Lines : line \in Seq(0..255) /\ LF \notin ToSet(line)

VARIABLES
  raw,       \* the bytes read so far
  pending,   \* unread children at each nesting level
  outcome    \* "reading", or how read_raw_frame returned

readVars == <<raw, pending, outcome>>

ReadInit == raw = <<>> /\ pending = <<1>> /\ outcome = "reading"

(* parse_len: a set of at most one length, -1 for null.                      *)
LengthIn(line, nullable) ==
  {n \in ParseInt(line) : IsUtf8(line) /\ (n \in Nat \/ (nullable /\ n = -1))}

(* The stack of unread children: `pending.last_mut()`, decremented.          *)
Taken == [pending EXCEPT ![Len(pending)] = @ - 1]

(* The nesting check of read_raw_frame.                                      *)
\* Mutant: one level more.
TooDeepLenient == Len(pending) > MaxFrameDepth + 1
TooDeep == Len(pending) > MaxFrameDepth

(* A level without unread children is left; the last one ends the frame.     *)
PopLevel ==
  /\ outcome = "reading" /\ Last(pending) = 0
  /\ pending' = Front(pending)
  /\ outcome' = IF Len(pending) = 1 THEN "done" ELSE "reading"
  /\ UNCHANGED raw

Fail(reason) ==
  /\ outcome' = reason
  /\ UNCHANGED <<raw, pending>>

(* The connection ends while a frame is being read.                          *)
PeerCloses == outcome = "reading" /\ Last(pending) > 0 /\ Fail("eof")

(* The checks before the first byte of a frame is read.                      *)
Refuse ==
  /\ outcome = "reading" /\ Last(pending) > 0
  /\ TooDeep \/ Len(raw) = MaxFrameBytes
  /\ Fail("invalid")

(* What a header asks for: `children` more frames and `body` bytes, CR LF    *)
(* included; nothing if it is invalid. A null needs no bytes that are left.  *)
AsksFor(type, line) ==
  LET left == MaxFrameBytes - Len(raw) - Len(line) - 3
      per == IF type \in PairLists THEN 2 ELSE 1
      lens == LengthIn(line, NullForm(type) # type)
  IN  CASE type \in Blobs ->
             {[children |-> 0, body |-> IF n = -1 THEN 0 ELSE n + 2] :
                n \in {n \in lens : n = -1 \/ n + 2 <= left}}
        [] type \in Aggregates ->
             {[children |-> IF n = -1 THEN 0 ELSE per * n, body |-> 0] :
                n \in {n \in lens : n = -1 \/ per * n <= left \div 3}}
        [] OTHER -> {[children |-> 0, body |-> 0]}

(* One pass of the loop that reads a frame's header and, for a blob, its     *)
(* body: read_line_raw takes everything up to a LF, or up to the limit. When *)
(* the first byte was the last one allowed it reads nothing, as at the end   *)
(* of the stream.                                                            *)
ReadHeader(start, text) ==
  LET line == Front(text)
  IN  /\ outcome = "reading" /\ Last(pending) > 0
      /\ ~TooDeep /\ Len(raw) < MaxFrameBytes
      /\ \/ Len(raw) + 1 = MaxFrameBytes /\ Fail("eof")
         \/ /\ Len(raw) + 1 < MaxFrameBytes
            /\ \/ Len(raw) + Len(text) + 2 > MaxFrameBytes
               \/ text = <<>>
               \/ Last(text) # CR
               \/ AsksFor(TypeOfPrefix(start), line) = {}
            /\ Fail("invalid")
         \/ /\ Len(raw) + Len(text) + 2 <= MaxFrameBytes
            /\ text # <<>> /\ Last(text) = CR
            /\ \E ask \in AsksFor(TypeOfPrefix(start), line) :
               \E body \in [1..ask.body -> Bodies] :
                    \/ /\ body = <<>> \/ IsSuffix(CRLF, body)
                       /\ raw' = raw \o <<start>> \o line \o CRLF \o body
                       /\ pending' = IF ask.children = 0 THEN Taken
                                     ELSE Append(Taken, ask.children)
                       /\ UNCHANGED outcome
                    \/ /\ body # <<>> /\ ~IsSuffix(CRLF, body)
                       /\ Fail("invalid")

ReadSome == \E start \in Starts, text \in Lines : ReadHeader(start, text)

Returned == outcome # "reading" /\ UNCHANGED readVars

ReadNext == PopLevel \/ PeerCloses \/ Refuse \/ ReadSome \/ Returned

ReadSpec == ReadInit /\ [][ReadNext]_readVars
-----------------------------------------------------------------------------
(* The incoming limits of resp.rs:7-8 hold at every moment, whatever lengths *)
(* the peer advertises: memory and nesting stay bounded while a frame is     *)
(* still incomplete, no level waits for more children than fit into a frame, *)
(* and a peer has sent three bytes for each level it opened.                 *)
WithinLimits ==
  /\ Len(raw) <= MaxFrameBytes
  /\ Len(pending) <= MaxFrameDepth + 1
  /\ 3 * (Len(pending) - 1) <= Len(raw)
  /\ \A i \in DOMAIN pending :
       /\ pending[i] \in Nat
       /\ IF i = 1 THEN pending[i] <= 1 ELSE 3 * pending[i] <= MaxFrameBytes
=============================================================================
