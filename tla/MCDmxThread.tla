----------------------------- MODULE MCDmxThread -----------------------------
\* Small instances of the DMX thread: the values are in the .cfg files.
EXTENDS DmxThread

\* Plain texts so far apart that mixing two ranges turns them round, and one
\* like "1e2": the script takes it for 3, the program for 1.
MCTexts == {[number |-> 1, atoi |-> 1], [number |-> 3, atoi |-> 3], [number |-> 3, atoi |-> 1]}
=============================================================================
