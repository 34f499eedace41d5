----------------------------- MODULE MCSettings -----------------------------
(* A byte of three bits.  Some settings have the sum 0, some the sum 0x55    *)
(* that AT+DEFAULT sets, and some sets of settings have the same sum.        *)
EXTENDS Settings
=============================================================================
