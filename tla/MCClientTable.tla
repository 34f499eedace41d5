--------------------------- MODULE MCClientTable ---------------------------
(* Small instances of ClientTable for TLC. *)
EXTENDS ClientTable
=============================================================================
