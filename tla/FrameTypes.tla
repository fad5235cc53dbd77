----------------------------- MODULE FrameTypes -----------------------------
(* RESP frames, src/src/resp.rs. A frame is a tree                           *)
(*   type  the variant of `Frame`; the null forms of BulkString and Array    *)
(*         are types of their own                                            *)
(*   val   a scalar's content: bytes, or <<n>> for Integer and Boolean; an   *)
(*         Inline is its words joined by one space                           *)
(*   kids  an aggregate's children; a Map or Attribute lists key, value,     *)
(*         key, value, ...                                                   *)
(* Bytes are their ASCII codes, so that encoded frames can be compared.      *)
EXTENDS Integers, SequencesExt

CR == 13
LF == 10
CRLF == <<CR, LF>>

Prefix == [SimpleString |-> 43, SimpleError |-> 45, Integer |-> 58,
           BulkString |-> 36, NullBulkString |-> 36, Array |-> 42,
           NullArray |-> 42, Null |-> 95, Boolean |-> 35, Double |-> 44,
           BigNumber |-> 40, BulkError |-> 33, VerbatimString |-> 61,
           Map |-> 37, Set |-> 126, Push |-> 62, Attribute |-> 124]

Types == DOMAIN Prefix \cup {"Inline"}
Blobs == {"BulkString", "BulkError", "VerbatimString"}
Nullable == {"NullBulkString", "NullArray"}
Lists == {"Array", "Set", "Push"}
PairLists == {"Map", "Attribute"}
Aggregates == Lists \cup PairLists

Scalar(type, val) == [type |-> type, val |-> val, kids |-> <<>>]
Aggregate(type, kids) == [type |-> type, val |-> <<>>, kids |-> kids]
Int64(n) == Scalar("Integer", <<n>>)

(* Items of a list, pairs of a map.                                          *)
Count(f) == IF f.type \in PairLists THEN Len(f.kids) \div 2 ELSE Len(f.kids)

(* Frame::declared_length: the length in the header, if the frame has one.   *)
HasLength(f) == f.type \in Blobs \cup Nullable \cup Aggregates
DeclaredLength(f) ==
  CASE f.type \in Nullable -> -1
    [] f.type \in Blobs -> Len(f.val)
    [] f.type \in Aggregates -> Count(f)

(* Numerals.                                                                 *)
Digits[n \in Nat] ==
  IF n < 10 THEN <<48 + n>> ELSE Digits[n \div 10] \o <<48 + (n % 10)>>
Decimal(n) == IF n < 0 THEN <<45>> \o Digits[-n] ELSE Digits[n]
=============================================================================
