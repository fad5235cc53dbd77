------------------------------- MODULE Corpus -------------------------------
(* The values src/src/generator.rs draws and what mutate_scalar makes of     *)
(* them. A draw is the set of values the random generator may return, so a   *)
(* weighted choice (gen_ratio) is both of its branches. Contents are short;  *)
(* what is kept is which values a draw may repeat, which are malformed, and  *)
(* the widths of integers, with W32 and W64 bits in the place of 32 and 64.  *)
EXTENDS FrameTypes

CONSTANTS
  W32, W64,      \* widths of the short and the long integers
  Integers64,    \* sample of i64 values: INTEGERS, and random ones
  RandomTexts,   \* sample of ascii()
  RandomBlobs,   \* sample of random payloads
  MaxBlobBytes   \* MAX_BLOB_BYTES

I64Max == 2^(W64 - 1) - 1
I64Min == -(2^(W64 - 1))
U64Max == 2^W64 - 1
Wrap64(n) == ((n - I64Min) % 2^W64) + I64Min

CorpusAssumption ==
  /\ 0 < W32 /\ W32 < W64
  /\ Integers64 \subseteq I64Min..I64Max
  /\ MaxBlobBytes \in Nat /\ MaxBlobBytes > 4
  /\ \A b \in RandomBlobs : b \in Seq(0..255) /\ Len(b) <= MaxBlobBytes

(* GeneratorConfig                                                           *)
GeneratorConfigs == [protocol : {"RESP2", "RESP3"},
                     corpus : {"BOUNDARY", "RANDOM"}, violations : BOOLEAN]

BadNumber == <<49, 101>>             \* 1e
BadBig == <<49, 50, 120>>            \* 12x
BadVerbatim == <<98, 97, 100>>       \* bad
Txt == <<116, 120, 116, 58>>         \* txt:
Err == <<69, 82, 82, 32>>            \* ERR and a space

(* Samples of BIG_NUMBERS, DOUBLES and the boundary texts, scaled.           *)
BigNumbers == {Decimal(0), Decimal(I64Max + 1), Decimal(U64Max + 1)}
Doubles == {Decimal(0), <<45, 48>>, <<105, 110, 102>>}   \* -0 and inf
BoundaryTexts == {<<>>, Decimal(U64Max + 1)}
(* A sample of SIZES and of the pattern CR LF NUL $ *.                       *)
BoundaryBlobs == {<<>>, CRLF \o <<0, 36, 42>>}

BoundaryDraws(g, values) == IF g.corpus = "BOUNDARY" THEN values ELSE {}
Violating(g, values) == IF g.violations THEN values ELSE {}

TextDraws(g) == RandomTexts \cup BoundaryDraws(g, BoundaryTexts)
BlobDraws(g) == RandomBlobs \cup BoundaryDraws(g, BoundaryBlobs)

DoubleDraws(g, overflow) ==
  Violating(g, {BadNumber})
  \cup (IF overflow THEN Doubles ELSE {Decimal(0), Decimal(7)} \cup BoundaryDraws(g, Doubles))

BigNumberDraws(g, overflow) ==
  Violating(g, {<<>>, BadBig})
  \cup (IF overflow THEN BigNumbers ELSE {Decimal(5), Decimal(-5)} \cup BoundaryDraws(g, BigNumbers))

Truncated(bytes) == SubSeq(bytes, 1, IF Len(bytes) > MaxBlobBytes THEN MaxBlobBytes ELSE Len(bytes))
BulkErrorDraws(g) == {Truncated(Err \o b) : b \in BlobDraws(g)}
VerbatimDraws(g) == Violating(g, {BadVerbatim}) \cup {Truncated(Txt \o b) : b \in BlobDraws(g)}
-----------------------------------------------------------------------------
(* mutate_scalar                                                             *)

DifferentNumber(next, current) ==
  IF next # current THEN next ELSE IF current = Decimal(0) THEN Decimal(1) ELSE Decimal(0)

(* next[prefix] ^= 1, with one byte appended when there is none.             *)
Flip(byte) == IF byte % 2 = 0 THEN byte + 1 ELSE byte - 1
MakeDifferent(next, current, prefix) ==
  IF next # current THEN next
  ELSE IF Len(next) <= prefix THEN Append(next, 120)
  ELSE [next EXCEPT ![prefix + 1] = Flip(@)]

OverflowTexts(current) ==
  LET values == <<Decimal(I64Max), Decimal(U64Max)>>
  IN  {IF values[i] = current THEN values[3 - i] ELSE values[i] : i \in 1..2}

MutatedInteger(value, overflow) ==
  IF overflow
  THEN {IF next # value THEN next ELSE -next - 1 : next \in {I64Max, I64Min}}
  ELSE {IF next # value THEN next ELSE Wrap64(value + 1) : next \in Integers64}

(* The contents a scalar may get.                                            *)
MutatedValues(f, g, overflow) ==
  CASE f.type = "Integer" -> {<<n>> : n \in MutatedInteger(f.val[1], overflow)}
    [] f.type \in {"SimpleString", "SimpleError"} ->
         {IF next = f.val THEN Append(next, 33) ELSE next :
            next \in IF overflow THEN OverflowTexts(f.val) ELSE TextDraws(g)}
    [] f.type = "Double" ->
         {DifferentNumber(next, f.val) : next \in DoubleDraws(g, overflow)}
    [] f.type = "BigNumber" ->
         {DifferentNumber(next, f.val) : next \in BigNumberDraws(g, overflow)}
    [] f.type = "BulkString" ->
         {MakeDifferent(next, f.val, 0) :
            next \in IF overflow THEN OverflowTexts(f.val) ELSE BlobDraws(g)}
    [] f.type = "BulkError" ->
         {MakeDifferent(next, f.val, 0) :
            next \in IF overflow THEN OverflowTexts(f.val) ELSE BulkErrorDraws(g)}
    [] f.type = "VerbatimString" ->
         {MakeDifferent(next, f.val, 4) :
            next \in IF overflow
                     THEN {Txt \o t : t \in OverflowTexts(SubSeq(f.val, 5, Len(f.val)))}
                     ELSE VerbatimDraws(g)}
    [] f.type = "Boolean" -> {<<1 - f.val[1]>>}
    [] f.type = "Inline" ->
         LET draws == {a \o <<32>> \o b : a, b \in RandomTexts}
         IN  {IF next = f.val THEN next \o <<32, 120>> ELSE next : next \in draws}
    [] OTHER -> {f.val}

MutateScalar(f, g, overflow) ==
  {[f EXCEPT !.val = v] : v \in MutatedValues(f, g, overflow)}
=============================================================================
