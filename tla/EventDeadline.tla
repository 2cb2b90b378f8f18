--------------------------- MODULE EventDeadline ---------------------------
(***************************************************************************)
(* internal/poll/fd_windows.go: the arithmetic of the deadlines an FD      *)
(* keeps for itself when the poller does not own its handle.               *)
(* setDeadlineNoPoller turns a delay into an instant of the runtime clock, *)
(* and every turn of waitEventIO's loop turns the instant back into the    *)
(* milliseconds WaitForMultipleObjects takes.  Instants are int64          *)
(* nanoseconds, timeouts uint32 milliseconds of which the largest means    *)
(* "for ever"; the widths are constants here.  Module FDWindows has the    *)
(* concurrency, with deadlines reduced to none, future and past.           *)
(***************************************************************************)
EXTENDS Integers

CONSTANTS MaxInt,    \* the largest int64 (2^63 - 1 in the code)
          NsPerMs,   \* nanoseconds in a millisecond (10^6)
          INFINITE,  \* the timeout that means for ever (2^32 - 1)
          Start,     \* the clock when the FD is made
          End,       \* bound on the clock
          Delays,    \* the delays SetDeadline is called with
          Setters    \* bound on the calls of SetDeadline under way at once

ASSUME WidthAssumption == MaxInt \in Nat /\ NsPerMs \in Nat \ {0} /\ INFINITE \in Nat \ {0}
ASSUME ClockAssumption == Start \in Nat /\ End \in Nat /\ Delays \subseteq Int
ASSUME SettersAssumption == Setters \in Nat

\* What keeps the arithmetic exact: the clock is an int64; no delay carries an
\* instant onto 0, which stands for no deadline; the time left of a deadline long
\* past, and of one far ahead rounded up, fit an int64.
DelaysInRange ==
  /\ Start <= End /\ End <= MaxInt
  /\ \A d \in Delays \ {0} :
       /\ -d \notin Start..End
       /\ End - Start - MaxInt - 1 <= d /\ d <= MaxInt - NsPerMs + 1

\* No delay takes more milliseconds than a timeout holds.
DelaysFitTimeout == \A d \in Delays : d <= (INFINITE - 1) * NsPerMs

VARIABLES
  now,       \* runtimeNano()
  deadline,  \* fd.readDeadline: an instant, or 0 for none
  goal,      \* the instant the caller asked for; meaningless without one
  asked,     \* whether the caller asked for a deadline
  telling,   \* how many setDeadlineNoPoller have stored and not yet signalled
  signalled, \* the deadline event
  st,        \* the operation: "idle", "turn" (of the loop), "waiting", "expired"
  forever,   \* the wait under way has no limit
  limit,     \* the instant its timeout runs out
  aim        \* the goal its timeout was worked out from

vars == <<now, deadline, goal, asked, telling, signalled, st, forever, limit, aim>>

Init ==
  /\ now = Start
  /\ deadline = 0 /\ goal = 0 /\ asked = FALSE
  /\ telling = 0 /\ signalled = FALSE
  /\ st = "idle" /\ forever = FALSE /\ limit = 0 /\ aim = 0

\* int64 arithmetic wraps around.
Int64(x) == ((x + MaxInt + 1) % (2 * (MaxInt + 1))) - (MaxInt + 1)

\* Division truncates towards zero.
Quo(a, b) == IF a >= 0 THEN a \div b ELSE -((-a) \div b)

----------------------------------------------------------------------------
\* setDeadlineNoPoller: the store.
SetDeadline(d) ==
  /\ telling < Setters
  /\ deadline' = IF d = 0 THEN 0 ELSE Int64(now + d)
  /\ asked' = (d # 0)
  /\ goal' = IF d = 0 THEN 0 ELSE now + d
  /\ telling' = telling + 1
  /\ UNCHANGED <<now, signalled, st, forever, limit, aim>>

\* Mutant: the wait under way is not told.
SetEventForgotten ==
  /\ telling > 0
  /\ telling' = telling - 1
  /\ UNCHANGED <<now, deadline, goal, asked, signalled, st, forever, limit, aim>>

\* setDeadlineNoPoller: the SetEvent that follows it.
SetEvent ==
  /\ telling > 0
  /\ telling' = telling - 1
  /\ signalled' = TRUE
  /\ UNCHANGED <<now, deadline, goal, asked, st, forever, limit, aim>>

\* deadlineTimeout
Left == Int64(deadline - now)
Passed == deadline # 0 /\ Left <= 0

\* Mutant: the timeout is rounded down.
MsRoundedDown ==
  LET ms == Quo(Left, NsPerMs)
  IN IF ms >= INFINITE THEN INFINITE - 1 ELSE ms % (INFINITE + 1)

Ms ==
  LET ms == Quo(Int64(Left + NsPerMs - 1), NsPerMs)
  IN IF ms >= INFINITE THEN INFINITE - 1 ELSE ms % (INFINITE + 1)

\* execIO's check before the operation starts.
StartIO ==
  /\ st = "idle"
  /\ st' = IF Passed THEN "expired" ELSE "turn"
  /\ UNCHANGED <<now, deadline, goal, asked, telling, signalled, forever, limit, aim>>

\* The head of waitEventIO's loop.
Turn ==
  /\ st = "turn"
  /\ IF Passed
     THEN st' = "expired" /\ UNCHANGED <<forever, limit, aim>>
     ELSE /\ st' = "waiting"
          /\ forever' = (deadline = 0)
          /\ limit' = IF deadline = 0 THEN 0 ELSE now + Ms * NsPerMs
          /\ aim' = goal
  /\ UNCHANGED <<now, deadline, goal, asked, telling, signalled>>

\* The deadline event is signalled: the deadline moved.
Moved ==
  /\ st = "waiting"
  /\ signalled
  /\ signalled' = FALSE
  /\ st' = "turn" /\ forever' = FALSE /\ limit' = 0 /\ aim' = 0
  /\ UNCHANGED <<now, deadline, goal, asked, telling>>

\* WAIT_TIMEOUT: the default case, ErrDeadlineExceeded.
TimedOut ==
  /\ st = "waiting"
  /\ ~signalled
  /\ ~forever /\ now >= limit
  /\ st' = "expired" /\ forever' = FALSE /\ limit' = 0 /\ aim' = 0
  /\ UNCHANGED <<now, deadline, goal, asked, telling, signalled>>

\* The operation completes, or the caller has its error.
Finish ==
  /\ st \in {"waiting", "expired"}
  /\ st' = "idle" /\ forever' = FALSE /\ limit' = 0 /\ aim' = 0
  /\ UNCHANGED <<now, deadline, goal, asked, telling, signalled>>

Tick ==
  /\ now < End
  /\ now' = now + 1
  /\ UNCHANGED <<deadline, goal, asked, telling, signalled, st, forever, limit, aim>>

Next ==
  \/ \E d \in Delays : SetDeadline(d)
  \/ SetEvent
  \/ StartIO \/ Turn \/ Moved \/ TimedOut \/ Finish \/ Tick

Spec == Init /\ [][Next]_vars

----------------------------------------------------------------------------
(* Properties *)

\* The clock, the deadline and the wait keep their types, and a deadline fits
\* an int64.
TypeOK ==
  /\ now \in Nat
  /\ deadline \in (-MaxInt - 1)..MaxInt
  /\ goal \in Int
  /\ asked \in BOOLEAN /\ signalled \in BOOLEAN /\ forever \in BOOLEAN
  /\ st \in {"idle", "turn", "waiting", "expired"}
  /\ limit \in Int /\ aim \in Int
  /\ telling \in 0..Setters

\* An operation fails with ErrDeadlineExceeded only when the deadline its caller
\* asked for has been reached: rounding and wrapping never end a wait early.  A
\* wait may still end at the deadline it began with while the SetDeadline that
\* moved it has stored the new one and not yet signalled, and no longer than that.
NeverEarly ==
  [][st # "expired" /\ st' = "expired" =>
       \/ asked /\ now >= goal
       \/ telling > 0 /\ st = "waiting" /\ ~forever /\ now >= aim]_vars

\* Once every SetDeadline has signalled and the signal is spent, a wait under way
\* ends within a millisecond after the deadline its caller asked for last, and has
\* no limit when there is none.
NeverLate ==
  st = "waiting" /\ ~signalled /\ telling = 0 =>
    IF asked THEN ~forever /\ (limit < goal + NsPerMs) ELSE forever
=============================================================================
