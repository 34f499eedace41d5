----------------------------- MODULE MCMainLoop -----------------------------
\* Small instances of the main loop: the values are in the .cfg files.
EXTENDS MainLoop

\* A network whose addresses include zero bytes, and a usual DHCP lease.
MCAddresses == {<<10, 0, 0, 5>>, <<192, 168, 1, 7>>}
=============================================================================
