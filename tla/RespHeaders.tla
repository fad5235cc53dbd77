---------------------------- MODULE RespHeaders -----------------------------
(* What the reader and the parser of src/src/resp.rs share: the limits, and  *)
(* the meaning of a first byte and of a length.                              *)
EXTENDS FrameTypes

CONSTANTS
  MaxFrameBytes,   \* MAX_FRAME_BYTES, 64 MiB in the code
  MaxFrameDepth    \* MAX_FRAME_DEPTH, 128 in the code

LimitsAssumption == MaxFrameBytes \in Nat /\ MaxFrameDepth \in Nat

NotUtf8 == 255
IsUtf8(text) == NotUtf8 \notin ToSet(text)

(* str::parse::<i64>: an optional sign and digits. The lines of the model    *)
(* are too short to overflow. The result is a set of at most one number.     *)
ParseInt(text) ==
  LET signed == text # <<>> /\ text[1] \in {43, 45}
      digits == IF signed THEN Tail(text) ELSE text
      sign == IF signed /\ text[1] = 45 THEN -1 ELSE 1
  IN  IF digits = <<>> \/ ~(ToSet(digits) \subseteq 48..57) THEN {}
      ELSE {sign * FoldLeft(LAMBDA acc, d : 10 * acc + d - 48, 0, digits)}

TypeOfPrefix(byte) ==
  IF \E t \in DOMAIN Prefix : Prefix[t] = byte
  THEN CHOOSE t \in DOMAIN Prefix \ Nullable : Prefix[t] = byte
  ELSE "Inline"

NullForm(type) == CASE type = "BulkString" -> "NullBulkString"
                    [] type = "Array" -> "NullArray"
                    [] OTHER -> type
=============================================================================
