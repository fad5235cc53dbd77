----------------------------- MODULE MCTransport -----------------------------
(* Instances of Transport for TLC. *)
EXTENDS Transport

\* Accepted lists, and one that is not increasing, has a zero, is too long.
MCOffsetLists == {<<1>>, <<1, 3>>, <<4>>, <<2, 1>>, <<0>>, <<1, 2, 3>>}
=============================================================================
