-------------------------- MODULE MCEventDeadline --------------------------
\* Instances of EventDeadline for TLC.
EXTENDS EventDeadline, TLC

\* Delays whose timeouts stay in range.  Their instants need not: they wrap
\* around, and wrap back when the time left is worked out.
Ordinary == (-3)..(MaxInt - NsPerMs + 1)

ASSUME OrdinaryInRange == Delays = Ordinary => DelaysInRange /\ DelaysFitTimeout

\* A delay of more milliseconds than a timeout holds.
Long == {25}

\* What time.Until saturates to for an instant some 292 years ago or more.
Ancient == {-MaxInt - 1}
=============================================================================
