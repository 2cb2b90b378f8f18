----------------------------- MODULE FDLifetime -----------------------------
(***************************************************************************)
(* What internal/poll promises about the lifetime of an FD, without saying *)
(* how: who may use the handle, when it may be closed, and when it is      *)
(* destroyed.  fdMutex (module FDMutex) implements it, and the model of    *)
(* the Windows I/O paths (module FDWindows) is built on it.                *)
(***************************************************************************)
CONSTANT Goroutines

VARIABLES phase,   \* "open", "closing" (no new users), "destroyed"
          hold     \* hold[g]: the references goroutine g has on the FD

lifetimeVars == <<phase, hold>>

\* A goroutine holds the read lock, the write lock, a plain reference
\* (incref), or the reference Close took.
Dir  == {"r", "w"}
Kind == Dir \cup {"ref", "close"}

LifetimeInit ==
  /\ phase = "open"
  /\ hold = [g \in Goroutines |-> {}]

Holding(k) == {g \in Goroutines : k \in hold[g]}

\* A user may join while the FD is open; each lock admits one at a time.
Acquire(g, k) ==
  /\ phase = "open"
  /\ k \in Kind \ {"close"}
  /\ k \in Dir => Holding(k) = {}
  /\ k \notin hold[g]
  /\ hold' = [hold EXCEPT ![g] = @ \cup {k}]
  /\ UNCHANGED phase

\* Close succeeds once, and its caller keeps a reference.
StartClose(g) ==
  /\ phase = "open"
  /\ phase' = "closing"
  /\ hold' = [hold EXCEPT ![g] = @ \cup {"close"}]

Release(g, k) ==
  /\ k \in hold[g]
  /\ hold' = [hold EXCEPT ![g] = @ \ {k}]
  /\ UNCHANGED phase

\* The handle is closed once, after the last user has left.
DestroyFD ==
  /\ phase = "closing"
  /\ \A g \in Goroutines : hold[g] = {}
  /\ phase' = "destroyed"
  /\ UNCHANGED hold

LifetimeNext ==
  \/ \E g \in Goroutines, k \in Kind : Acquire(g, k) \/ Release(g, k)
  \/ \E g \in Goroutines : StartClose(g)
  \/ DestroyFD

LifetimeSpec == LifetimeInit /\ [][LifetimeNext]_lifetimeVars
=============================================================================
