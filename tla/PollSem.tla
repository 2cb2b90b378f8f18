------------------------------ MODULE PollSem ------------------------------
(***************************************************************************)
(* What the runtime poller promises internal/poll about one descriptor:    *)
(* a binary semaphore for each mode that completions set and a waiter      *)
(* consumes, deadlines that fail the waiter, and eviction that fails every *)
(* waiter for good.  runtime/netpoll.go (module PollDesc) implements it,   *)
(* and module FDWindows waits for its operations through it.               *)
(***************************************************************************)
Modes == {"r", "w"}

VARIABLES ready,     \* ready[m]: a completion nobody has consumed
          evicted,   \* pollUnblock was called
          deadline   \* deadline[m]: "none", "future" or "past"

pollVars == <<ready, evicted, deadline>>

Deadlines == {"none", "future", "past"}

PollInit ==
  /\ ready = [m \in Modes |-> FALSE]
  /\ evicted = FALSE
  /\ deadline = [m \in Modes |-> "none"]

\* A wait in mode m fails.
PollErr(m) == evicted \/ deadline[m] = "past"

PollReset(m) ==
  /\ ready' = [ready EXCEPT ![m] = FALSE]
  /\ UNCHANGED <<evicted, deadline>>

\* A wait ends by consuming a completion, or it fails and consumes nothing.
PollConsume(m) ==
  /\ ready[m]
  /\ ready' = [ready EXCEPT ![m] = FALSE]
  /\ UNCHANGED <<evicted, deadline>>

PollNotify(m) ==
  /\ ready' = [ready EXCEPT ![m] = TRUE]
  /\ UNCHANGED <<evicted, deadline>>

PollSetDeadline(S, d) ==
  /\ deadline' = IF evicted THEN deadline
                 ELSE [m \in Modes |-> IF m \in S THEN d ELSE deadline[m]]
  /\ UNCHANGED <<ready, evicted>>

\* The timer of the deadlines in S fires: one timer may serve both modes.
PollExpire(S) ==
  /\ S # {}
  /\ ~evicted
  /\ \A m \in S : deadline[m] = "future"
  /\ deadline' = [m \in Modes |-> IF m \in S THEN "past" ELSE deadline[m]]
  /\ UNCHANGED <<ready, evicted>>

PollEvict ==
  /\ ~evicted
  /\ evicted' = TRUE
  /\ UNCHANGED <<ready, deadline>>

\* The descriptor is closed and opened for another handle.
PollReuse ==
  /\ evicted
  /\ ready' = [m \in Modes |-> FALSE]
  /\ evicted' = FALSE
  /\ deadline' = [m \in Modes |-> "none"]

PollNext ==
  \/ \E m \in Modes : PollReset(m) \/ PollConsume(m) \/ PollNotify(m)
  \/ \E S \in SUBSET Modes : PollExpire(S) \/ \E d \in Deadlines : PollSetDeadline(S, d)
  \/ PollEvict \/ PollReuse

PollSemSpec == PollInit /\ [][PollNext]_pollVars
=============================================================================
