----------------------------- MODULE MCPollDesc -----------------------------
\* Instances of PollDesc for TLC.
EXTENDS PollDesc, TLC
=============================================================================
