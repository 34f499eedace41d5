---------------------------- MODULE MCSamdLink ----------------------------
(* Small instances of SamdLink for TLC: the UserMain thread and the web    *)
(* server thread, given as model values in the configurations.             *)
EXTENDS SamdLink, TLC

=============================================================================
