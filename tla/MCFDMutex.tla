----------------------------- MODULE MCFDMutex -----------------------------
\* Instances of FDMutex for TLC.
EXTENDS FDMutex, TLC

GoroutineSymmetry == Permutations(Goroutines)
=============================================================================
