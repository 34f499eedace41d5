--------------------------- MODULE MCSacnReceiver ---------------------------
(* Small instances of SacnReceiver for TLC. *)
EXTENDS SacnReceiver
=============================================================================
