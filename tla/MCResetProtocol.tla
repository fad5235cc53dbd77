--------------------------- MODULE MCResetProtocol ---------------------------
(* Instances of ResetProtocol for TLC. *)
EXTENDS ResetProtocol
=============================================================================
