------------------------ MODULE EventDeadlineProofs ------------------------
(***************************************************************************)
(* Theorems about EventDeadline: for every width of the integers, length   *)
(* of the millisecond and clock, a deadline that is set with a delay in    *)
(* range ends a wait neither early nor late.                               *)
(***************************************************************************)
EXTENDS EventDeadline, TLAPS

\* The deadline kept is the instant asked for, wrapped around at most once, and
\* the time left of it fits an int64.
DeadlineKept ==
  IF asked
  THEN /\ deadline # 0
       /\ deadline \in {goal, goal - 2 * (MaxInt + 1)}
       /\ End - MaxInt - 1 <= goal /\ goal <= now + MaxInt - NsPerMs + 1
  ELSE deadline = 0

\* NeverLate says the same of the timeout: that of a wait under way was worked
\* out from the deadline now kept, unless the event is signalled or about to be.
IInv == TypeOK /\ now \in Start..End /\ DeadlineKept /\ NeverLate

\* While the timeouts are not clamped, the same wait does not end early.
NoShorter ==
  /\ asked => goal <= now + (INFINITE - 1) * NsPerMs
  /\ st = "waiting" /\ ~forever => aim <= limit
  /\ st = "waiting" /\ ~signalled /\ telling = 0 /\ asked => aim = goal

----------------------------------------------------------------------------
(* Arithmetic *)

\* An int64 operation whose result is in range is exact.
LEMMA Int64Exact ==
  ASSUME NEW x \in Int, -MaxInt - 1 <= x, x <= MaxInt
  PROVE  Int64(x) = x
<1>1. x + MaxInt + 1 \in Nat /\ 2 * (MaxInt + 1) \in Nat /\ x + MaxInt + 1 < 2 * (MaxInt + 1)
  BY WidthAssumption
<1>2. ASSUME NEW a \in Nat, NEW b \in Nat, a < b PROVE a % b = a
  BY <1>2
<1>3. (x + MaxInt + 1) % (2 * (MaxInt + 1)) = x + MaxInt + 1
  BY <1>1, <1>2
<1> QED
  BY <1>3, WidthAssumption DEF Int64

\* One that overflows comes out a whole range lower.
LEMMA Int64Wraps ==
  ASSUME NEW x \in Int, MaxInt < x, x <= 2 * MaxInt
  PROVE  Int64(x) = x - 2 * (MaxInt + 1)
<1>1. /\ x + MaxInt + 1 \in Nat /\ 2 * (MaxInt + 1) \in Nat
      /\ 2 * (MaxInt + 1) <= x + MaxInt + 1 /\ x + MaxInt + 1 < 2 * (2 * (MaxInt + 1))
  BY WidthAssumption
<1>2. ASSUME NEW a \in Nat, NEW b \in Nat, b <= a, a < 2 * b PROVE a % b = a - b
  BY <1>2
<1> DEFINE a == x + MaxInt + 1
           b == 2 * (MaxInt + 1)
<1>3. a % b = a - b
  <2>1. a \in Nat /\ b \in Nat /\ b <= a /\ a < 2 * b
    BY <1>1
  <2> HIDE DEF a, b
  <2> QED
    BY Zenon, <2>1, <1>2
<1> QED
  BY <1>3, WidthAssumption DEF Int64

\* One that underflows comes out a whole range higher.
LEMMA Int64WrapsUp ==
  ASSUME NEW x \in Int, x < -MaxInt - 1, -3 * (MaxInt + 1) <= x
  PROVE  Int64(x) = x + 2 * (MaxInt + 1)
<1>1. /\ x + MaxInt + 1 \in Int /\ 2 * (MaxInt + 1) \in Nat
      /\ x + MaxInt + 1 < 0 /\ -(2 * (MaxInt + 1)) <= x + MaxInt + 1
  BY WidthAssumption
<1>2. ASSUME NEW a \in Int, NEW b \in Nat, a < 0, -b <= a PROVE a % b = a + b
  BY <1>2
<1>3. (x + MaxInt + 1) % (2 * (MaxInt + 1)) = x + MaxInt + 1 + 2 * (MaxInt + 1)
  BY <1>1, <1>2
<1> QED
  BY <1>3, WidthAssumption DEF Int64

\* The time left is the time to the instant asked for, although the instant
\* kept may have wrapped around.
LEMMA LeftExact ==
  ASSUME IInv, asked
  PROVE  Left = goal - now /\ (Passed <=> goal <= now)
<1>1. /\ now \in Int /\ goal \in Int /\ deadline \in Int /\ MaxInt \in Nat /\ NsPerMs \in Nat
      /\ 0 <= now /\ now <= End /\ End \in Nat /\ 1 <= NsPerMs
  BY WidthAssumption, ClockAssumption DEF IInv, TypeOK
<1>2. /\ deadline # 0 /\ deadline \in {goal, goal - 2 * (MaxInt + 1)}
      /\ End - MaxInt - 1 <= goal /\ goal <= now + MaxInt - NsPerMs + 1
  BY DEF IInv, DeadlineKept
<1>3. /\ goal - now \in Int /\ -MaxInt - 1 <= goal - now /\ goal - now <= MaxInt
  BY <1>1, <1>2
<1>4. Int64(goal - now) = goal - now
  BY <1>3, Int64Exact
<1>5. Left = goal - now
  <2>1. CASE deadline = goal
    BY <2>1, <1>4 DEF Left
  <2>2. CASE deadline = goal - 2 * (MaxInt + 1)
    <3>1. /\ deadline - now \in Int /\ deadline - now < -MaxInt - 1
          /\ -3 * (MaxInt + 1) <= deadline - now
      BY <2>2, <1>1, <1>3
    <3>2. Int64(deadline - now) = deadline - now + 2 * (MaxInt + 1)
      BY <3>1, Int64WrapsUp
    <3> QED
      BY <3>2, <2>2, <1>1 DEF Left
  <2> QED
    BY <1>2, <2>1, <2>2
<1> QED
  BY <1>1, <1>2, <1>5 DEF Passed

----------------------------------------------------------------------------
(* The timeout *)

\* Rounding up: the quotient covers the time left, by less than a millisecond.
LEMMA RoundedUp ==
  ASSUME NEW left \in Nat \ {0}, left <= MaxInt - NsPerMs + 1,
         NEW ms, ms = Quo(Int64(left + NsPerMs - 1), NsPerMs)
  PROVE  ms \in Nat /\ left <= ms * NsPerMs /\ ms * NsPerMs < left + NsPerMs
<1>1. /\ left + NsPerMs - 1 \in Nat /\ -MaxInt - 1 <= left + NsPerMs - 1
      /\ left + NsPerMs - 1 <= MaxInt /\ NsPerMs \in Nat \ {0}
  BY WidthAssumption
<1>2. ms = (left + NsPerMs - 1) \div NsPerMs
  BY <1>1, Int64Exact DEF Quo
<1>3. ASSUME NEW a \in Nat, NEW b \in Nat \ {0}
      PROVE  a \div b \in Nat /\ b * (a \div b) <= a /\ a < b * (a \div b) + b
  BY <1>3
<1>4. ms \in Nat /\ NsPerMs * ms <= left + NsPerMs - 1 /\ left + NsPerMs - 1 < NsPerMs * ms + NsPerMs
  BY Zenon, <1>1, <1>2, <1>3
<1>5. ms * NsPerMs = NsPerMs * ms /\ NsPerMs * ms \in Int
  BY <1>1, <1>4
<1> QED
  BY <1>1, <1>4, <1>5

\* The timeout runs out less than a millisecond after the instant asked for,
\* the clamped one included.
LEMMA TimeoutShort ==
  ASSUME IInv, asked, ~Passed
  PROVE  Ms \in Nat /\ Ms * NsPerMs \in Int /\ now + Ms * NsPerMs < goal + NsPerMs
<1> DEFINE ms == Quo(Int64(Left + NsPerMs - 1), NsPerMs)
<1>1. /\ now \in Int /\ goal \in Int /\ MaxInt \in Nat /\ NsPerMs \in Nat \ {0}
      /\ INFINITE \in Nat \ {0} /\ now < goal /\ goal <= now + MaxInt - NsPerMs + 1
      /\ Left = goal - now
  BY LeftExact, WidthAssumption DEF IInv, TypeOK, DeadlineKept
<1>2. Left \in Nat \ {0} /\ Left <= MaxInt - NsPerMs + 1
  BY <1>1
<1>3. ms \in Nat /\ Left <= ms * NsPerMs /\ ms * NsPerMs < Left + NsPerMs
  BY <1>2, RoundedUp
<1>4. Ms = IF ms >= INFINITE THEN INFINITE - 1 ELSE ms % (INFINITE + 1)
  BY DEF Ms
<1> HIDE DEF ms
<1>5. Ms \in Nat /\ Ms <= ms
  <2>1. CASE ms >= INFINITE
    BY <2>1, <1>1, <1>3, <1>4
  <2>2. CASE ms < INFINITE
    <3>1. ASSUME NEW a \in Nat, NEW b \in Nat, a < b PROVE a % b = a
      BY <3>1
    <3>2. ms % (INFINITE + 1) = ms
      BY <3>1, <2>2, <1>1, <1>3
    <3> QED
      BY <3>2, <2>2, <1>1, <1>3, <1>4
  <2> QED
    BY <2>1, <2>2, <1>1, <1>3
<1>6. ASSUME NEW a \in Nat, NEW b \in Nat, NEW c \in Nat, a <= b
      PROVE  a * c <= b * c /\ a * c \in Int /\ b * c \in Int
  BY <1>6
<1>7. Ms * NsPerMs <= ms * NsPerMs /\ Ms * NsPerMs \in Int /\ ms * NsPerMs \in Int
  BY <1>1, <1>3, <1>5, <1>6
<1> QED
  BY <1>1, <1>3, <1>5, <1>7

\* It does not run out before the instant asked for when it is not clamped.
LEMMA TimeoutLong ==
  ASSUME IInv, asked, ~Passed, goal - now <= (INFINITE - 1) * NsPerMs
  PROVE  goal <= now + Ms * NsPerMs
<1> DEFINE ms == Quo(Int64(Left + NsPerMs - 1), NsPerMs)
<1>1. /\ now \in Int /\ goal \in Int /\ MaxInt \in Nat /\ NsPerMs \in Nat \ {0}
      /\ INFINITE \in Nat \ {0} /\ now < goal /\ goal <= now + MaxInt - NsPerMs + 1
      /\ Left = goal - now
  BY LeftExact, WidthAssumption DEF IInv, TypeOK, DeadlineKept
<1>2. Left \in Nat \ {0} /\ Left <= MaxInt - NsPerMs + 1
  BY <1>1
<1>3. ms \in Nat /\ Left <= ms * NsPerMs /\ ms * NsPerMs < Left + NsPerMs
  BY <1>2, RoundedUp
<1>4. Ms = IF ms >= INFINITE THEN INFINITE - 1 ELSE ms % (INFINITE + 1)
  BY DEF Ms
<1> HIDE DEF ms
<1>5. ms < INFINITE
  <2>1. ASSUME NEW a \in Nat, NEW b \in Nat, NEW c \in Nat \ {0}, a * c < b * c + c
        PROVE  a < b + 1
    BY <2>1
  <2>2. ms * NsPerMs < (INFINITE - 1) * NsPerMs + NsPerMs
    <3>1. ms * NsPerMs \in Int /\ (INFINITE - 1) * NsPerMs \in Int
      BY <1>1, <1>3
    <3> QED
      BY <1>1, <1>3, <3>1
  <2>3. INFINITE - 1 \in Nat
    BY <1>1
  <2> QED
    BY <2>1, <2>2, <2>3, <1>1, <1>3
<1>6. Ms = ms
  <2>1. ASSUME NEW a \in Nat, NEW b \in Nat, a < b PROVE a % b = a
    BY <2>1
  <2>2. ms % (INFINITE + 1) = ms
    BY <2>1, <1>1, <1>3, <1>5
  <2> QED
    BY <2>2, <1>1, <1>3, <1>4, <1>5
<1>7. ms * NsPerMs \in Int
  BY <1>1, <1>3
<1> QED
  BY <1>1, <1>3, <1>6, <1>7

----------------------------------------------------------------------------
(* Invariance *)

\* What no deadline and no timeout are stored as.
LEMMA ZeroFits == 0 \in Int /\ 0 \in (-MaxInt - 1)..MaxInt
BY WidthAssumption

\* Storing a deadline keeps the instant, wrapped around if need be, and leaves the
\* event to be signalled, so that no wait goes on with the old timeout for long.
LEMMA SetDeadlineInv ==
  ASSUME DelaysInRange, IInv, NEW d \in Delays, SetDeadline(d)
  PROVE  IInv'
<1>1. /\ now \in Int /\ d \in Int /\ MaxInt \in Nat /\ NsPerMs \in Nat \ {0}
      /\ Start \in Nat /\ End \in Nat /\ Start <= now /\ now <= End /\ End <= MaxInt
  BY WidthAssumption, ClockAssumption DEF IInv, TypeOK, DelaysInRange
<1>0. telling' \in 0..Setters /\ telling' # 0
  BY SettersAssumption DEF SetDeadline, IInv, TypeOK
<1>2. CASE d = 0
  BY Zenon, <1>0, <1>2, ZeroFits DEF SetDeadline, IInv, TypeOK, DeadlineKept, NeverLate
<1>3. CASE d # 0
  <2>1. /\ now + d # 0
        /\ End - Start - MaxInt - 1 <= d /\ d <= MaxInt - NsPerMs + 1
    BY <1>1, <1>3 DEF DelaysInRange
  <2>2. /\ deadline' = Int64(now + d) /\ asked' = TRUE /\ goal' = now + d
        /\ UNCHANGED <<now, signalled, st, forever, limit, aim>>
    BY Zenon, <1>3 DEF SetDeadline
  <2>3. /\ goal' \in Int /\ End - MaxInt - 1 <= goal' /\ goal' <= now' + MaxInt - NsPerMs + 1
        /\ goal' # 0
    BY <1>1, <2>1, <2>2
  <2>4. /\ deadline' \in (-MaxInt - 1)..MaxInt /\ deadline' # 0
        /\ deadline' \in {goal', goal' - 2 * (MaxInt + 1)}
    <3>1. CASE now + d <= MaxInt
      <4>1. now + d \in Int /\ -MaxInt - 1 <= now + d
        BY <1>1, <2>1
      <4>2. Int64(now + d) = now + d
        BY <3>1, <4>1, Int64Exact
      <4> QED
        BY <1>1, <2>1, <2>2, <3>1, <4>1, <4>2
    <3>2. CASE MaxInt < now + d
      <4> DEFINE x == now + d
      <4>1. x \in Int /\ MaxInt < x /\ x <= 2 * MaxInt
        BY <1>1, <2>1, <3>2
      <4> HIDE DEF x
      <4>2. Int64(x) = x - 2 * (MaxInt + 1)
        BY <4>1, Int64Wraps
      <4> USE DEF x
      <4> QED
        BY <1>1, <2>1, <2>2, <3>2, <4>1, <4>2
    <3> QED
      BY <1>1, <3>1, <3>2
  <2>5. TypeOK' /\ now' \in Start..End
    BY <1>0, <2>2, <2>3, <2>4 DEF IInv, TypeOK
  <2> QED
    BY <1>0, <2>2, <2>3, <2>4, <2>5 DEF IInv, DeadlineKept, NeverLate
<1> QED
  BY <1>2, <1>3

\* The head of the loop works the timeout out afresh.
LEMMA TurnInv ==
  ASSUME IInv, Turn
  PROVE  IInv'
<1>1. UNCHANGED <<now, deadline, goal, asked, telling, signalled>> /\ st = "turn"
  BY DEF Turn
<1>2. DeadlineKept' /\ now' \in Start..End
  BY <1>1 DEF IInv, DeadlineKept
<1>3. CASE Passed
  BY <1>1, <1>2, <1>3 DEF IInv, TypeOK, NeverLate, Turn
<1>4. CASE ~Passed /\ asked
  <2>1. deadline # 0 /\ now \in Int
    BY <1>4 DEF IInv, DeadlineKept, TypeOK
  <2>2. st' = "waiting" /\ forever' = FALSE /\ limit' = now + Ms * NsPerMs /\ aim' = goal
    BY Zenon, <1>4, <2>1 DEF Turn
  <2>3. limit' \in Int /\ limit' < goal + NsPerMs
    BY <1>4, <2>1, <2>2, TimeoutShort
  <2> QED
    BY Zenon, <1>1, <1>2, <1>4, <2>2, <2>3 DEF IInv, TypeOK, NeverLate
<1>5. CASE ~Passed /\ ~asked
  BY Zenon, <1>1, <1>2, <1>5, ZeroFits DEF IInv, TypeOK, NeverLate, Turn, DeadlineKept
<1> QED
  BY <1>3, <1>4, <1>5 DEF IInv, TypeOK

\* The other steps leave the deadline alone, and the clock only goes forward.
LEMMA OtherInv ==
  ASSUME IInv, SetEvent \/ StartIO \/ Moved \/ TimedOut \/ Finish \/ Tick
  PROVE  IInv'
<1>1. CASE StartIO
  BY <1>1 DEF IInv, TypeOK, DeadlineKept, NeverLate, StartIO
<1>2. CASE Moved
  BY Zenon, <1>2, ZeroFits DEF IInv, TypeOK, DeadlineKept, NeverLate, Moved
<1>3. CASE TimedOut
  BY Zenon, <1>3, ZeroFits DEF IInv, TypeOK, DeadlineKept, NeverLate, TimedOut
<1>4. CASE Finish
  BY Zenon, <1>4, ZeroFits DEF IInv, TypeOK, DeadlineKept, NeverLate, Finish
<1>5. CASE Tick
  <2>1. UNCHANGED <<deadline, goal, asked, telling, signalled, st, forever, limit, aim>>
    BY <1>5 DEF Tick
  <2>2. now' = now + 1 /\ now' \in Nat /\ now' \in Start..End
    BY <1>5, ClockAssumption DEF Tick, IInv, TypeOK
  <2>3. DeadlineKept'
    BY <2>1, <2>2, WidthAssumption, ClockAssumption DEF IInv, TypeOK, DeadlineKept
  <2> QED
    BY <2>1, <2>2, <2>3 DEF IInv, TypeOK, NeverLate
<1>6. CASE SetEvent
  <2>1. telling' \in 0..Setters
    BY <1>6, SettersAssumption DEF SetEvent, IInv, TypeOK
  <2> QED
    BY Zenon, <1>6, <2>1 DEF IInv, TypeOK, DeadlineKept, NeverLate, SetEvent
<1> QED
  BY <1>1, <1>2, <1>3, <1>4, <1>5, <1>6

\* Every step keeps the invariant.
LEMMA NextInv ==
  ASSUME DelaysInRange, IInv, [Next]_vars
  PROVE  IInv'
<1>1. CASE UNCHANGED vars
  BY <1>1 DEF vars, IInv, TypeOK, DeadlineKept, NeverLate
<1> QED
  BY <1>1, SetDeadlineInv, TurnInv, OtherInv DEF Next

\* A new FD has no deadline.
LEMMA InitInv ==
  ASSUME DelaysInRange, Init
  PROVE  IInv
<1>1. Start \in Nat /\ Start \in Start..End
  BY ClockAssumption DEF DelaysInRange
<1>2. telling \in 0..Setters
  BY SettersAssumption DEF Init
<1> QED
  BY Zenon, <1>1, <1>2, ZeroFits DEF Init, IInv, TypeOK, DeadlineKept, NeverLate

\* The invariant that the theorems below rest on.
THEOREM Invariance ==
  ASSUME DelaysInRange
  PROVE  Spec => []IInv
<1>1. Init => IInv
  BY InitInv
<1>2. IInv /\ [Next]_vars => IInv'
  BY NextInv
<1> QED
  BY <1>1, <1>2, PTL DEF Spec

\* The clock, the deadline and the wait keep their types: setDeadlineNoPoller
\* and deadlineTimeout compute only int64 values.
THEOREM TypeCorrect ==
  ASSUME DelaysInRange
  PROVE  Spec => []TypeOK
<1>1. IInv => TypeOK
  BY DEF IInv
<1> QED
  BY <1>1, Invariance, PTL

\* A wait of waitEventIO that nobody has signalled, or is about to, ends within a
\* millisecond after the deadline its caller asked for, the timeout being clamped
\* or not.
THEOREM WaitsEndInTime ==
  ASSUME DelaysInRange
  PROVE  Spec => []NeverLate
<1>1. IInv => NeverLate
  BY DEF IInv
<1> QED
  BY <1>1, Invariance, PTL

----------------------------------------------------------------------------
(* No wait ends early *)

\* Every step keeps a timeout that is not clamped from running out early.
LEMMA NextNoShorter ==
  ASSUME DelaysFitTimeout, IInv, IInv', NoShorter, [Next]_vars
  PROVE  NoShorter'
<1> DEFINE K == (INFINITE - 1) * NsPerMs
<1>1. K \in Int /\ now \in Int /\ goal \in Int
  BY WidthAssumption DEF IInv, TypeOK
<1>2. CASE \E d \in Delays : SetDeadline(d)
  <2>1. PICK d \in Delays : SetDeadline(d)
    BY <1>2
  <2>2. d \in Int /\ d <= K
    BY ClockAssumption DEF DelaysFitTimeout
  <2>3. now + d <= now + K
    BY <1>1, <2>2
  <2>4. /\ asked' = (d # 0) /\ now' = now /\ (d # 0 => goal' = now + d)
        /\ UNCHANGED <<st, forever, limit, aim>>
    BY Zenon, <2>1 DEF SetDeadline
  <2>5. telling' # 0
    BY <2>1 DEF SetDeadline, IInv, TypeOK
  <2> QED
    BY Zenon, <2>3, <2>4, <2>5 DEF NoShorter
<1>3. CASE Turn
  <2>1. asked => goal - now <= K
    <3>1. ASSUME goal <= now + K PROVE goal - now <= K
      BY <1>1, <3>1
    <3> QED
      BY Zenon, <3>1 DEF NoShorter
  <2>2. asked /\ ~Passed => goal <= now + Ms * NsPerMs
    BY Zenon, <2>1, TimeoutLong
  <2>3. asked => deadline # 0
    BY Zenon DEF IInv, DeadlineKept
  <2>4. /\ UNCHANGED <<now, goal, asked>>
        /\ st' = "waiting" => aim' = goal
        /\ asked /\ st' = "waiting" => limit' = now + Ms * NsPerMs /\ ~Passed
        /\ ~asked /\ st' = "waiting" => forever'
    <3>1. "expired" # "waiting" /\ (~asked => deadline = 0)
      BY DEF IInv, DeadlineKept
    <3> QED
      BY Zenon, <1>3, <2>3, <3>1 DEF Turn
  <2> QED
    BY Zenon, <2>2, <2>4 DEF NoShorter
<1>4. CASE StartIO \/ Moved \/ TimedOut \/ Finish
  <2>1. UNCHANGED <<now, goal, asked>> /\ st' # "waiting"
    BY <1>4 DEF StartIO, Moved, TimedOut, Finish
  <2> QED
    BY Zenon, <2>1 DEF NoShorter
<1>5. CASE Tick
  <2>1. UNCHANGED <<goal, asked, telling, signalled, st, forever, limit, aim>> /\ now' = now + 1
    BY Zenon, <1>5 DEF Tick
  <2>2. goal <= now + K => goal <= now' + K
    BY <1>1, <2>1
  <2> QED
    BY Zenon, <2>1, <2>2 DEF NoShorter
<1>6. CASE SetEvent
  BY Zenon, <1>6 DEF SetEvent, NoShorter
<1>7. CASE UNCHANGED vars
  BY Zenon, <1>7 DEF vars, NoShorter
<1> QED
  BY Zenon, <1>2, <1>3, <1>4, <1>5, <1>6, <1>7 DEF Next

\* An operation that fails with ErrDeadlineExceeded was asked to, and not before
\* the instant its caller gave, which is the one before last only while the
\* SetDeadline that moved it has yet to signal: neither the wrapping of
\* runtimeNano() + d nor the rounding to milliseconds ends a wait early.
THEOREM WaitsNotCutShort ==
  ASSUME DelaysInRange, DelaysFitTimeout
  PROVE  Spec => NeverEarly
<1>1. Init => NoShorter
  BY DEF Init, NoShorter
<1>2. IInv /\ IInv' /\ NoShorter /\ [Next]_vars => NoShorter'
  BY NextNoShorter
<1>3. IInv /\ NoShorter /\ [Next]_vars
        => [st # "expired" /\ st' = "expired" =>
              \/ asked /\ now >= goal
              \/ telling > 0 /\ st = "waiting" /\ ~forever /\ now >= aim]_vars
  <2> SUFFICES ASSUME IInv, NoShorter, Next, st # "expired", st' = "expired"
               PROVE  \/ asked /\ now >= goal
                      \/ telling > 0 /\ st = "waiting" /\ ~forever /\ now >= aim
    BY DEF vars
  <2>1. /\ now \in Int /\ goal \in Int /\ limit \in Int /\ aim \in Int
        /\ asked \in BOOLEAN /\ telling \in Nat
    BY DEF IInv, TypeOK
  <2>2. Passed => asked /\ goal <= now
    BY LeftExact DEF Passed, IInv, DeadlineKept
  <2>3. CASE StartIO \/ Turn
    BY <2>1, <2>2, <2>3 DEF StartIO, Turn
  <2>4. CASE TimedOut
    BY <2>1, <2>4 DEF TimedOut, IInv, NeverLate, NoShorter
  <2> QED
    BY <2>3, <2>4 DEF Next, SetDeadline, SetEvent, Moved, Finish, Tick
<1> QED
  BY <1>1, <1>2, <1>3, Invariance, PTL DEF Spec, NeverEarly
=============================================================================
