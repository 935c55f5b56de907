--------------------------- MODULE MCServerStore ---------------------------
(* Instances of ServerStore for TLC. *)
EXTENDS ServerStore
=============================================================================
