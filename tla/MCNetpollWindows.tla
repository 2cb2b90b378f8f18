-------------------------- MODULE MCNetpollWindows --------------------------
\* An instance of NetpollWindows for TLC.
EXTENDS NetpollWindows

CONSTANTS m1, m2, o1
=============================================================================
