------------------------- MODULE MCFirmwareDownload -------------------------
(* Small instances of FirmwareDownload for TLC. *)
EXTENDS FirmwareDownload
=============================================================================
