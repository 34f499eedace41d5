------------------------- MODULE MCConstellationPage -------------------------
\* Small instances of the node pages: the values are in the .cfg files.
EXTENDS ConstellationPage
=============================================================================
