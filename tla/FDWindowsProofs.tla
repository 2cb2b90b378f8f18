-------------------------- MODULE FDWindowsProofs --------------------------
(***************************************************************************)
(* execIO, waitIO, waitEventIO and what Close, SetDeadline and             *)
(* DisassociateIOCP do meanwhile: the kernel is done with an operation     *)
(* before its memory and its handle go, no completion is taken for that of *)
(* another operation, every cancelled operation says why.  For any number  *)
(* of goroutines, and any handle on any of the kernels.                    *)
(*                                                                         *)
(* The invariant says which locks a goroutine has at each step (HoldOf),   *)
(* what the kernel may be doing for it there (OpOf), and, since one holder *)
(* of a lock is one operation of a mode, whose completion it is that the   *)
(* poller has (TokenOf).                                                   *)
(***************************************************************************)
EXTENDS FDWindows, TLAPS

\* Where the kernel may know of the operation.
InOp == Waiting \cup {"blocked", "result"}

Over == {"ok", "aborted"}

\* Close until it has evicted, and until it gives back its reference.
Evicting == {"interrupt", "wake", "evict"}

\* The locks and references of a goroutine.
HoldOf(g) ==
  /\ pc[g] \in {"idle", "destroywait"} => hold[g] = {}
  /\ pc[g] = "lock" => hold[g] \subseteq Needs(g) /\ hold[g] # Needs(g)
  /\ pc[g] \in InExec => hold[g] = Needs(g)
  /\ pc[g] = "unlock" => hold[g] \subseteq Modes /\ (res[g] # "nil" => hold[g] \subseteq Needs(g))
  /\ pc[g] \in Evicting \cup {"decref"} => hold[g] = {"close"} /\ Closing
  /\ pc[g] \in {"deadline", "signal", "unref"} => hold[g] = {"ref"}
  /\ pc[g] = "trylock" => hold[g] = {"r"}
  /\ pc[g] = "disassociate" => hold[g] = Modes

\* Whoever cancelled an operation has said why, or Close has.
Explained(g) == waitErr[g] # "nil" \/ ((h.kind = "pipe" \/ OffPoller) /\ Closing)

\* The operation of a goroutine.
OpOf(g) ==
  /\ pc[g] \notin InOp => io[g] = "none"
  /\ pc[g] \in Waiting => ~h.blocking /\ io[g] # "none"
  /\ pc[g] = "blocked" => h.blocking /\ io[g] # "none"
  /\ pc[g] = "result" => io[g] \in Over
  /\ ioEvent[g] => pc[g] \in Waiting /\ io[g] \in Over /\ ~associated
  /\ pc[g] \in {"cancel", "drain"} => waitErr[g] # "nil"
  /\ cancelled[g] \/ io[g] = "aborted" => Explained(g)
  /\ res[g] # "nil" => pc[g] = "unlock"
  /\ res[g] \notin {"incomplete", "aborted"}

\* The operation of mode m that is over and waits to be told.
Told(g, m) == mode[g] = m /\ pc[g] \in Waiting /\ io[g] \in Over

\* The poller has at most one completion for a mode, that of the operation that
\* waits for it.
TokenOf(m) ==
  ready[m] \/ packets[m] > 0 =>
    /\ packets[m] = IF ready[m] THEN 0 ELSE 1
    /\ associated
    /\ \E g \in Goroutines : Told(g, m)

Exclusive ==
  \A g, x \in Goroutines, m \in Modes : m \in hold[g] /\ m \in hold[x] => g = x

\* Close evicts before anything is destroyed.
Evicted == Closing /\ OnPoller => evicted \/ \E g \in Goroutines : pc[g] \in Evicting

IInv ==
  /\ TypeOK
  /\ \A g \in Goroutines : HoldOf(g) /\ OpOf(g)
  /\ \A m \in Modes : TokenOf(m)
  /\ Exclusive
  /\ Evicted
  /\ associated => ~h.blocking
  /\ phase = "destroyed" => \A g \in Goroutines : hold[g] = {}

----------------------------------------------------------------------------
(* What steps have in common *)

\* A step leaves the other goroutines alone.
Others(g) ==
  \A x \in Goroutines \ {g} :
    /\ pc'[x] = pc[x] /\ hold'[x] = hold[x] /\ mode'[x] = mode[x] /\ res'[x] = res[x]
    /\ io'[x] = io[x] /\ ioEvent'[x] = ioEvent[x]
    /\ cancelled'[x] = cancelled[x] /\ waitErr'[x] = waitErr[x]

\* A lock is taken only when it is free, a reference only while the FD is open.
Takes(g) ==
  /\ \A m \in Modes : m \in hold'[g] => m \in hold[g] \/ Holding(m) = {}
  /\ phase = "destroyed" => hold'[g] \subseteq hold[g]

\* The invariant for the other goroutines.
LEMMA OthersKept ==
  ASSUME IInv, NEW g \in Goroutines, Others(g), UNCHANGED <<h, associated>>, Closing => Closing'
  PROVE  \A x \in Goroutines \ {g} : HoldOf(x)' /\ OpOf(x)'
<1> TAKE x \in Goroutines \ {g}
<1>1. HoldOf(x) /\ OpOf(x)
  BY Zenon DEF IInv
<1>2. HoldOf(x)'
  BY Zenon, <1>1 DEF HoldOf, Others, Needs
<1>3. OpOf(x)'
  BY Zenon, <1>1 DEF OpOf, Others, Explained, OffPoller, OnPoller, EventDriven, Refused, CanDetach
<1> QED
  BY Zenon, <1>2, <1>3

\* A step of g keeps the invariant if it keeps what concerns g and the poller.
LEMMA StepInv ==
  ASSUME IInv, NEW g \in Goroutines, Others(g), Takes(g), UNCHANGED <<phase, h, associated>>,
         TypeOK', HoldOf(g)', OpOf(g)', \A m \in Modes : TokenOf(m)', Evicted'
  PROVE  IInv'
<1>1. \A x \in Goroutines : HoldOf(x)' /\ OpOf(x)'
  BY Zenon, OthersKept DEF Closing
<1>2. Exclusive'
  BY ZenonT(60) DEF IInv, Exclusive, Others, Takes, Holding
<1>3. phase' = "destroyed" => \A x \in Goroutines : hold'[x] = {}
  BY Zenon DEF IInv, Others, Takes
<1> QED
  BY Zenon, <1>1, <1>2, <1>3 DEF IInv

\* Nothing happens to the poller, and the operation that has its completion
\* there goes on waiting.
LEMMA TokensKept ==
  ASSUME IInv, NEW g \in Goroutines, Others(g), UNCHANGED <<associated, ready, packets>>,
         \A m \in Modes : Told(g, m) => Told(g, m)'
  PROVE  \A m \in Modes : TokenOf(m)'
<1> TAKE m \in Modes
<1>1. \A x \in Goroutines : Told(x, m) => Told(x, m)'
  BY Zenon DEF Others, Told
<1> QED
  BY Zenon, <1>1 DEF IInv, TokenOf

\* Close goes on until it has evicted.
LEMMA EvictedKept ==
  ASSUME IInv, NEW g \in Goroutines, Others(g), UNCHANGED <<h, phase>>, evicted => evicted',
         pc[g] \in Evicting => pc'[g] \in Evicting \/ evicted' \/ ~OnPoller
  PROVE  Evicted'
BY Zenon DEF IInv, Evicted, Others, Closing, OnPoller, EventDriven, Refused, CanDetach

\* The steps that leave the lifetime, the poller and the port alone.
Quiet == UNCHANGED <<phase, h, associated, ready, evicted, packets>>

\* Such a step keeps the invariant if it keeps what concerns its goroutine.
LEMMA QuietInv ==
  ASSUME IInv, NEW g \in Goroutines, Others(g), Takes(g), Quiet,
         TypeOK', HoldOf(g)', OpOf(g)',
         \A m \in Modes : Told(g, m) => Told(g, m)',
         pc[g] \in Evicting => pc'[g] \in Evicting
  PROVE  IInv'
BY Zenon, StepInv, TokensKept, EvictedKept DEF Quiet

----------------------------------------------------------------------------
(* execIO up to the submission *)

\* NoIO, Prepare, CheckDeadline and SubmitFails move on or give up.
LEMMA PrepareInv ==
  ASSUME IInv, NEW g \in Goroutines, NoIO(g) \/ Prepare(g) \/ CheckDeadline(g) \/ SubmitFails(g)
  PROVE  IInv'
<1>1. /\ pc[g] \in {"exec", "check", "submit"}
      /\ pc' = [pc EXCEPT ![g] = pc'[g]] /\ pc'[g] \in {"reset", "submit", "unlock"}
      /\ res' = [res EXCEPT ![g] = res'[g]] /\ res'[g] \in {res[g], "errClosing", "timeout", "failed"}
      /\ pc'[g] # "unlock" => res' = res
      /\ pinned' = [pinned EXCEPT ![g] = pinned'[g]] /\ pinned'[g] \in BOOLEAN
      /\ UNCHANGED <<lifetimeVars, pollVars, h, fdVars, evVars, mode, moved, io, ioEvent,
                     cancelled, timeout, waitErr, argVars, packets>>
  <2> USE DEF IInv, TypeOK, NoIO, Prepare, CheckDeadline, SubmitFails, Goto, Return
  <2>1. /\ pc[g] \in {"exec", "check", "submit"}
        /\ pc' = [pc EXCEPT ![g] = pc'[g]] /\ pc'[g] \in {"reset", "submit", "unlock"}
    BY Zenon
  <2>2. /\ res' = [res EXCEPT ![g] = res'[g]] /\ res'[g] \in {res[g], "errClosing", "timeout", "failed"}
        /\ pc'[g] # "unlock" => res' = res
    BY ZenonT(60) DEF PollError
  <2>3. pinned' = [pinned EXCEPT ![g] = pinned'[g]] /\ pinned'[g] \in BOOLEAN
    BY ZenonT(60) DEF opVars
  <2>4. UNCHANGED <<lifetimeVars, pollVars, h, fdVars, evVars, mode, moved, io, ioEvent,
                    cancelled, timeout, waitErr, argVars, packets>>
    BY Zenon DEF opVars
  <2> QED
    BY Zenon, <2>1, <2>2, <2>3, <2>4
<1>2. HoldOf(g) /\ OpOf(g) /\ TypeOK
  BY Zenon DEF IInv
<1>3. TypeOK'
  <2>1. pc' \in [Goroutines -> PCs]
    BY <1>1, <1>2 DEF TypeOK, PCs, InExec
  <2>2. res' \in [Goroutines -> Errors] /\ pinned' \in [Goroutines -> BOOLEAN]
    <3>1. /\ res' = [res EXCEPT ![g] = res'[g]] /\ pinned' = [pinned EXCEPT ![g] = pinned'[g]]
          /\ res'[g] \in {res[g], "errClosing", "timeout", "failed"} /\ pinned'[g] \in BOOLEAN
      BY Zenon, <1>1
    <3>2. res \in [Goroutines -> Errors] /\ pinned \in [Goroutines -> BOOLEAN]
      BY Zenon, <1>2 DEF TypeOK
    <3>3. res'[g] \in Errors
      BY Zenon, <3>1, <3>2 DEF Errors
    <3> QED
      BY Zenon, <3>1, <3>2, <3>3
  <2> QED
    BY Zenon, <1>1, <1>2, <2>1, <2>2 DEF TypeOK, lifetimeVars, pollVars, fdVars, evVars, argVars
<1>4. Others(g) /\ Takes(g) /\ Quiet
  BY ZenonT(60), <1>1, <1>2 DEF Others, Takes, Quiet, TypeOK, lifetimeVars, pollVars, fdVars
<1>5. HoldOf(g)'
  BY <1>1, <1>2 DEF HoldOf, Needs, InExec, Waiting, Evicting, lifetimeVars, TypeOK
<1>6. OpOf(g)'
  BY Zenon, <1>1, <1>2 DEF OpOf, InOp, Waiting, Over, Explained, Closing, OffPoller, OnPoller,
                    EventDriven, Refused, CanDetach, lifetimeVars, fdVars
<1>7. pc[g] \notin Waiting \cup Evicting
  BY Zenon, <1>1 DEF Waiting, Evicting
<1> QED
  BY Zenon, <1>3, <1>4, <1>5, <1>6, <1>7, QuietInv DEF Told

\* CallIO, Lock and LockFails: a worker takes the locks its operation needs.
LEMMA CallIOInv ==
  ASSUME IInv, NEW g \in Goroutines, NEW m \in Modes, CallIO(g, m)
  PROVE  IInv'
<1>1. /\ pc[g] = "idle" /\ pc' = [pc EXCEPT ![g] = "lock"] /\ mode' = [mode EXCEPT ![g] = m]
      /\ UNCHANGED <<lifetimeVars, pollVars, h, fdVars, evVars, opVars, res, argVars, packets>>
  BY Zenon DEF CallIO, Goto
<1>2. HoldOf(g) /\ OpOf(g) /\ TypeOK
  BY Zenon DEF IInv
<1>3. TypeOK'
  BY Zenon, <1>1, <1>2 DEF TypeOK, PCs, lifetimeVars, pollVars, fdVars, evVars, argVars, opVars
<1>4. Others(g) /\ Takes(g) /\ Quiet
  BY Zenon, <1>1, <1>2 DEF Others, Takes, Quiet, TypeOK, lifetimeVars, pollVars, fdVars, opVars
<1>5. HoldOf(g)'
  BY ZenonT(60), <1>1, <1>2 DEF HoldOf, Needs, InExec, Waiting, Evicting, lifetimeVars, TypeOK, Modes
<1>6. OpOf(g)'
  BY Zenon, <1>1, <1>2 DEF OpOf, InOp, Waiting, Over, Explained, Closing, OffPoller, OnPoller,
                    EventDriven, Refused, CanDetach, lifetimeVars, fdVars, opVars, TypeOK
<1>7. pc[g] \notin Waiting \cup Evicting
  BY Zenon, <1>1 DEF Waiting, Evicting
<1> QED
  BY Zenon, <1>3, <1>4, <1>5, <1>6, <1>7, QuietInv DEF Told

\* A lock is granted: nobody else has it, so the operation of its mode is g's.
LEMMA LockInv ==
  ASSUME IInv, NEW g \in Goroutines, Lock(g)
  PROVE  IInv'
<1> PICK k : k = NextLock(g)
  BY Zenon
<1>1. /\ pc[g] = "lock" /\ phase = "open" /\ Holding(k) = {} /\ k \in Modes
      /\ hold' = [hold EXCEPT ![g] = @ \cup {k}]
      /\ pc' = [pc EXCEPT ![g] = pc'[g]] /\ pc'[g] \in {"exec", "lock"}
      /\ UNCHANGED <<phase, pollVars, h, fdVars, evVars, mode, opVars, res, argVars, packets>>
  BY Zenon DEF Lock, Acquire, Goto, NextLock, Dir, Modes, IInv, TypeOK
<1>2. HoldOf(g) /\ OpOf(g) /\ TypeOK
  BY Zenon DEF IInv
<1>3. hold'[g] = hold[g] \cup {k} /\ hold[g] \subseteq Needs(g) /\ hold[g] # Needs(g)
  BY Zenon, <1>1, <1>2 DEF HoldOf, TypeOK
<1>4. k \in Needs(g)
  BY <1>2, <1>3 DEF NextLock, Needs, Modes, TypeOK
<1>5. pc'[g] = IF Needs(g) \subseteq hold'[g] THEN "exec" ELSE "lock"
  BY Zenon, <1>2 DEF Lock, Goto, TypeOK
<1>6. TypeOK'
  BY <1>1, <1>2 DEF TypeOK, PCs, InExec, Kind, Dir, Modes, pollVars, fdVars, evVars, argVars, opVars
<1>7. Others(g) /\ Takes(g) /\ Quiet
  BY Zenon, <1>1, <1>2, <1>3 DEF Others, Takes, Quiet, TypeOK, pollVars, fdVars, opVars
<1>8. Needs(g)' = Needs(g)
  BY Zenon, <1>1 DEF Needs
<1>9. HoldOf(g)'
  BY <1>1, <1>3, <1>4, <1>5, <1>8 DEF HoldOf, InExec, Waiting, Evicting
<1>10. OpOf(g)'
  BY Zenon, <1>1, <1>2 DEF OpOf, InOp, Waiting, Over, Explained, Closing, OffPoller, OnPoller,
                    EventDriven, Refused, CanDetach, fdVars, opVars, TypeOK
<1>11. pc[g] \notin Waiting \cup Evicting
  BY Zenon, <1>1 DEF Waiting, Evicting
<1> QED
  BY Zenon, <1>6, <1>7, <1>9, <1>10, <1>11, QuietInv DEF Told

\* A lock is refused because Close has begun; locks already granted stay g's.
LEMMA LockFailsInv ==
  ASSUME IInv, NEW g \in Goroutines, LockFails(g)
  PROVE  IInv'
<1>1. /\ pc[g] = "lock" /\ pc' = [pc EXCEPT ![g] = "unlock"]
      /\ res' = [res EXCEPT ![g] = "errClosing"]
      /\ UNCHANGED <<lifetimeVars, pollVars, h, fdVars, evVars, mode, opVars, argVars, packets>>
  BY Zenon DEF LockFails, Goto, Return
<1>2. HoldOf(g) /\ OpOf(g) /\ TypeOK
  BY Zenon DEF IInv
<1>3. TypeOK'
  BY Zenon, <1>1, <1>2 DEF TypeOK, PCs, Errors, lifetimeVars, pollVars, fdVars, evVars, argVars, opVars
<1>4. Others(g) /\ Takes(g) /\ Quiet
  BY Zenon, <1>1, <1>2 DEF Others, Takes, Quiet, TypeOK, lifetimeVars, pollVars, fdVars, opVars
<1>5. HoldOf(g)'
  BY ZenonT(60), <1>1, <1>2 DEF HoldOf, Needs, InExec, Waiting, Evicting, lifetimeVars, TypeOK, Modes
<1>6. OpOf(g)'
  BY Zenon, <1>1, <1>2 DEF OpOf, InOp, Waiting, Over, Explained, Closing, OffPoller, OnPoller,
                    EventDriven, Refused, CanDetach, lifetimeVars, fdVars, opVars, TypeOK
<1>7. pc[g] \notin Waiting \cup Evicting
  BY Zenon, <1>1 DEF Waiting, Evicting
<1> QED
  BY Zenon, <1>3, <1>4, <1>5, <1>6, <1>7, QuietInv DEF Told

\* Two operations of one mode are the same, and so are two holders of its lock.
LEMMA OneOperation ==
  ASSUME IInv, NEW g \in Goroutines, NEW x \in Goroutines, pc[g] \in InExec, mode[g] \in hold[x]
  PROVE  g = x
<1>1. hold[g] = Needs(g) /\ mode[g] \in Modes
  BY Zenon DEF IInv, HoldOf, TypeOK
<1>2. mode[g] \in hold[g]
  BY Zenon, <1>1 DEF Needs
<1> QED
  BY Zenon, <1>1, <1>2 DEF IInv, Exclusive

\* While an operation of a mode has yet to be over, the poller has nothing for it.
LEMMA NothingYet ==
  ASSUME IInv, NEW g \in Goroutines, pc[g] \in InExec, ~Told(g, mode[g])
  PROVE  ~ready[mode[g]] /\ packets[mode[g]] = 0 /\ mode[g] \in Modes
<1>1. TypeOK /\ mode[g] \in Modes /\ TokenOf(mode[g])
  BY Zenon DEF IInv, TypeOK
<1>2. ASSUME NEW x \in Goroutines, Told(x, mode[g])
      PROVE  FALSE
  <2>1. pc[x] \in InExec /\ mode[x] = mode[g]
    BY Zenon, <1>2 DEF Told, InExec
  <2>2. mode[x] \in hold[x]
    BY ZenonT(60), <2>1 DEF IInv, HoldOf, Needs, TypeOK
  <2>3. g = x
    BY Zenon, <2>1, <2>2, OneOperation
  <2> QED
    BY Zenon, <1>2, <2>3
<1> QED
  BY <1>1, <1>2 DEF TokenOf, TypeOK

\* pollReset finds the semaphore as it leaves it.
LEMMA ResetInv ==
  ASSUME IInv, NEW g \in Goroutines, Reset(g)
  PROVE  IInv'
<1>1. /\ pc[g] = "reset" /\ pc' = [pc EXCEPT ![g] = "check"]
      /\ UNCHANGED <<lifetimeVars, evicted, deadline, h, fdVars, evVars, mode, opVars, res, argVars,
                     packets>>
      /\ ready' = ready \/ ready' = [ready EXCEPT ![mode[g]] = FALSE]
  BY Zenon DEF Reset, Goto, PollReset, pollVars
<1>2. HoldOf(g) /\ OpOf(g) /\ TypeOK
  BY Zenon DEF IInv
<1>3. pc[g] \in InExec /\ ~Told(g, mode[g])
  BY Zenon, <1>1 DEF InExec, Told, Waiting
<1>4. ready' = ready
  <2>1. ready[mode[g]] \in BOOLEAN /\ ~ready[mode[g]]
    BY Zenon, <1>2, <1>3, NothingYet DEF TypeOK
  <2>2. [ready EXCEPT ![mode[g]] = FALSE] = ready
    BY Zenon, <1>2, <2>1, Zenon DEF TypeOK
  <2> QED
    BY Zenon, <1>1, <2>2
<1>5. TypeOK'
  BY Zenon, <1>1, <1>2, <1>4 DEF TypeOK, PCs, InExec, lifetimeVars, pollVars, fdVars, evVars, argVars, opVars
<1>6. Others(g) /\ Takes(g) /\ Quiet
  BY Zenon, <1>1, <1>2, <1>4 DEF Others, Takes, Quiet, TypeOK, lifetimeVars, pollVars, fdVars, opVars
<1>7. HoldOf(g)'
  BY Zenon, <1>1, <1>2 DEF HoldOf, Needs, InExec, Waiting, Evicting, lifetimeVars, TypeOK
<1>8. OpOf(g)'
  BY Zenon, <1>1, <1>2 DEF OpOf, InOp, Waiting, Over, Explained, Closing, OffPoller, OnPoller,
                    EventDriven, Refused, CanDetach, lifetimeVars, fdVars, opVars, TypeOK
<1>9. pc[g] \notin Waiting \cup Evicting
  BY Zenon, <1>1 DEF Waiting, Evicting
<1> QED
  BY Zenon, <1>5, <1>6, <1>7, <1>8, <1>9, QuietInv DEF Told

----------------------------------------------------------------------------
(* The kernel starts an operation and finishes it *)

\* What a completion changes.
LEMMA ReportTyped ==
  ASSUME TypeOK, NEW g \in Goroutines, Report(g)
  PROVE  /\ packets' \in [Modes -> Nat] /\ ioEvent' \in [Goroutines -> BOOLEAN]
         /\ \A x \in Goroutines \ {g} : ioEvent'[x] = ioEvent[x]
         /\ ioEvent'[g] => ~h.blocking /\ ~associated
<1>1. ByEvent \in BOOLEAN
  BY Zenon DEF ByEvent
<1> PICK b \in BOOLEAN : b = ByEvent
  BY Zenon, <1>1
<1>2. ioEvent' = [ioEvent EXCEPT ![g] = b]
  BY Zenon DEF Report
<1>3. ioEvent \in [Goroutines -> BOOLEAN] /\ packets \in [Modes -> Nat] /\ mode[g] \in Modes
  BY Zenon DEF TypeOK
<1>4. ioEvent' \in [Goroutines -> BOOLEAN]
  BY Zenon, <1>2, <1>3
<1>5. (\A x \in Goroutines \ {g} : ioEvent'[x] = ioEvent[x]) /\ ioEvent'[g] = b
  BY Zenon, <1>2, <1>3
<1>6. packets' \in [Modes -> Nat]
  BY <1>3 DEF Report
<1> QED
  BY Zenon, <1>4, <1>5, <1>6 DEF ByEvent

\* What a completion leaves on the port, or in the event, is that operation's.
LEMMA ReportTokens ==
  ASSUME IInv, NEW g \in Goroutines, pc[g] \in InExec, ~Told(g, mode[g]), Others(g), Report(g),
         UNCHANGED <<associated, ready>>, io'[g] \in Over, mode'[g] = mode[g],
         associated => pc'[g] \in Waiting
  PROVE  \A m \in Modes : TokenOf(m)'
<1>1. TypeOK /\ ~ready[mode[g]] /\ packets[mode[g]] = 0 /\ mode[g] \in Modes
  BY Zenon, NothingYet DEF IInv
<1> TAKE m \in Modes
<1>2. CASE m = mode[g] /\ associated
  <2>1. packets'[m] = 1 /\ Told(g, m)'
    BY <1>1, <1>2 DEF Report, TypeOK, Told
  <2> QED
    BY Zenon, <1>1, <1>2, <2>1 DEF TokenOf
<1>3. CASE ~(m = mode[g] /\ associated)
  <2>1. packets'[m] = packets[m]
    BY Zenon, <1>1, <1>3 DEF Report, TypeOK
  <2>2. CASE associated
    <3>1. \A x \in Goroutines : Told(x, m) => Told(x, m)'
      BY Zenon, <1>3, <2>2 DEF Others, Told
    <3> QED
      BY Zenon, <2>1, <3>1 DEF IInv, TokenOf
  <2>3. CASE ~associated
    BY Zenon, <2>1, <2>3 DEF IInv, TokenOf
  <2> QED
    BY Zenon, <2>2, <2>3
<1> QED
  BY Zenon, <1>2, <1>3

\* SubmitCompletes: the goroutine waits exactly when the kernel reports.
LEMMA SubmitCompletesInv ==
  ASSUME IInv, NEW g \in Goroutines, SubmitCompletes(g)
  PROVE  IInv'
<1>1. /\ pc[g] = "submit" /\ ~h.blocking
      /\ io' = [io EXCEPT ![g] = "ok"]
      /\ pc' = [pc EXCEPT ![g] = IF SkipOnSuccess THEN "result" ELSE "wait"]
      /\ IF SkipOnSuccess THEN Silent ELSE Report(g)
      /\ UNCHANGED <<lifetimeVars, pollVars, h, fdVars, evVars, mode, pinned, moved,
                     cancelled, timeout, waitErr, res, argVars>>
  BY Zenon DEF SubmitCompletes, WaitOnSuccess, Goto
<1>2. HoldOf(g) /\ OpOf(g) /\ TypeOK
  BY Zenon DEF IInv
<1>3. pc[g] \in InExec /\ ~Told(g, mode[g])
  BY Zenon, <1>1 DEF InExec, Told, Waiting
<1>4. /\ packets' \in [Modes -> Nat] /\ ioEvent' \in [Goroutines -> BOOLEAN]
      /\ \A x \in Goroutines \ {g} : ioEvent'[x] = ioEvent[x]
      /\ ioEvent'[g] => ~SkipOnSuccess /\ ~associated
  BY Zenon, <1>1, <1>2, ReportTyped DEF Silent, TypeOK, OpOf, Waiting
<1>5. TypeOK'
  BY Zenon, <1>1, <1>2, <1>4 DEF TypeOK, PCs, InExec, Waiting, lifetimeVars, pollVars, fdVars, evVars, argVars
<1>6. Others(g) /\ Takes(g) /\ UNCHANGED <<phase, h, associated, evicted, ready>>
  BY Zenon, <1>1, <1>2, <1>4 DEF Others, Takes, TypeOK, lifetimeVars, pollVars, fdVars
<1>7. HoldOf(g)'
  BY Zenon, <1>1, <1>2 DEF HoldOf, Needs, InExec, Waiting, Evicting, lifetimeVars, TypeOK
<1>8. OpOf(g)'
  BY Zenon, <1>1, <1>2, <1>4 DEF OpOf, InOp, Waiting, Over, Explained, Closing, OffPoller, OnPoller,
                    EventDriven, Refused, CanDetach, lifetimeVars, fdVars, TypeOK
<1>9. \A m \in Modes : TokenOf(m)'
  <2>1. CASE SkipOnSuccess
    <3>1. \A m \in Modes : ~Told(g, m)
      BY Zenon, <1>1 DEF Told, Waiting
    <3> QED
      BY Zenon, <1>1, <1>6, <2>1, <3>1, TokensKept DEF Silent
  <2>2. CASE ~SkipOnSuccess
    <3>1. io'[g] \in Over /\ pc'[g] \in Waiting /\ mode'[g] = mode[g]
      BY Zenon, <1>1, <1>2, <2>2 DEF Over, Waiting, TypeOK
    <3> QED
      BY Zenon, <1>1, <1>3, <1>6, <2>2, <3>1, ReportTokens
  <2> QED
    BY Zenon, <2>1, <2>2
<1>10. Evicted'
  <2>1. pc[g] \notin Evicting
    BY Zenon, <1>1 DEF Evicting
  <2> QED
    BY Zenon, <1>6, <2>1, EvictedKept
<1> QED
  BY Zenon, <1>5, <1>6, <1>7, <1>8, <1>9, <1>10, StepInv

\* SubmitPends.
LEMMA SubmitPendsInv ==
  ASSUME IInv, NEW g \in Goroutines, SubmitPends(g)
  PROVE  IInv'
<1>1. /\ pc[g] = "submit" /\ io' = [io EXCEPT ![g] = "pending"]
      /\ pc' = [pc EXCEPT ![g] = IF h.blocking THEN "blocked" ELSE "wait"]
      /\ UNCHANGED <<lifetimeVars, pollVars, h, fdVars, evVars, mode, pinned, moved, ioEvent,
                     cancelled, timeout, waitErr, res, argVars, packets>>
  BY Zenon DEF SubmitPends, Goto
<1>2. HoldOf(g) /\ OpOf(g) /\ TypeOK
  BY Zenon DEF IInv
<1>3. TypeOK'
  BY Zenon, <1>1, <1>2 DEF TypeOK, PCs, InExec, Waiting, lifetimeVars, pollVars, fdVars, evVars, argVars
<1>4. Others(g) /\ Takes(g) /\ Quiet
  BY Zenon, <1>1, <1>2 DEF Others, Takes, Quiet, TypeOK, lifetimeVars, pollVars, fdVars
<1>5. HoldOf(g)'
  BY Zenon, <1>1, <1>2 DEF HoldOf, Needs, InExec, Waiting, Evicting, lifetimeVars, TypeOK
<1>6. OpOf(g)'
  BY Zenon, <1>1, <1>2 DEF OpOf, InOp, Waiting, Over, Explained, Closing, OffPoller, OnPoller,
                    EventDriven, Refused, CanDetach, lifetimeVars, fdVars, TypeOK
<1>7. pc[g] \notin Waiting \cup Evicting
  BY Zenon, <1>1 DEF Waiting, Evicting
<1> QED
  BY Zenon, <1>3, <1>4, <1>5, <1>6, <1>7, QuietInv DEF Told

\* The kernel never forgets the completion of a datagram: canSkipCompletionPortOnSuccess
\* leaves skipping off where a truncated one would be forgotten.
LEMMA TruncationReported ==
  ASSUME NEW g \in Goroutines, IoTruncates(g)
  PROVE  Report(g)
BY Zenon DEF IoTruncates, SkipOnSuccess, CanSkip

\* IoCompletes, IoTruncates and IoAborts.
LEMMA KernelFinishesInv ==
  ASSUME IInv, NEW g \in Goroutines, IoCompletes(g) \/ IoTruncates(g) \/ IoAborts(g)
  PROVE  IInv'
<1>1. /\ io[g] = "pending" /\ Report(g)
      /\ io' = [io EXCEPT ![g] = io'[g]] /\ io'[g] \in Over
      /\ io'[g] = "aborted" => cancelled[g]
      /\ UNCHANGED <<lifetimeVars, pollVars, h, fdVars, evVars, pc, mode, pinned, moved,
                     cancelled, timeout, waitErr, res, argVars>>
  BY Zenon, TruncationReported DEF IoCompletes, IoTruncates, IoAborts, IInv, TypeOK, Over
<1>2. HoldOf(g) /\ OpOf(g) /\ TypeOK /\ (associated => ~h.blocking)
  BY Zenon DEF IInv
<1>3. pc[g] \in Waiting \cup {"blocked"} /\ pc[g] \in InExec /\ ~Told(g, mode[g])
  BY Zenon, <1>1, <1>2 DEF OpOf, InOp, Over, InExec, Told
<1>4. /\ packets' \in [Modes -> Nat] /\ ioEvent' \in [Goroutines -> BOOLEAN]
      /\ \A x \in Goroutines \ {g} : ioEvent'[x] = ioEvent[x]
      /\ ioEvent'[g] => ~h.blocking /\ ~associated
  BY Zenon, <1>1, <1>2, ReportTyped
<1>5. TypeOK'
  <2>1. io' \in [Goroutines -> {"none", "pending", "ok", "aborted"}]
    BY Zenon, <1>1, <1>2 DEF TypeOK, Over
  <2> QED
    BY Zenon, <1>1, <1>2, <1>4, <2>1 DEF TypeOK, lifetimeVars, pollVars, fdVars, evVars, argVars
<1>6. Others(g) /\ Takes(g) /\ UNCHANGED <<phase, h, associated, evicted, ready>>
  BY Zenon, <1>1, <1>2, <1>4 DEF Others, Takes, TypeOK, lifetimeVars, pollVars, fdVars
<1>7. HoldOf(g)'
  BY Zenon, <1>1, <1>2 DEF HoldOf, Needs, Closing, lifetimeVars
<1>8. OpOf(g)'
  BY Zenon, <1>1, <1>2, <1>3, <1>4 DEF OpOf, InOp, Waiting, Over, Explained, Closing, OffPoller, OnPoller,
                    EventDriven, Refused, CanDetach, lifetimeVars, fdVars, TypeOK
<1>9. associated => pc'[g] \in Waiting
  BY Zenon, <1>1, <1>2, <1>3 DEF OpOf
<1>10. \A m \in Modes : TokenOf(m)'
  BY Zenon, <1>1, <1>3, <1>6, <1>9, ReportTokens
<1>11. Evicted'
  BY Zenon, <1>1, <1>6, EvictedKept
<1> QED
  BY Zenon, <1>5, <1>6, <1>7, <1>8, <1>10, <1>11, StepInv

----------------------------------------------------------------------------
(* Waiting for an operation, and its result *)

\* Unblocked and EventSignalled: the operation is over, and no completion of it
\* is with the poller.
LEMMA EventSignalledInv ==
  ASSUME IInv, NEW g \in Goroutines, Unblocked(g) \/ EventSignalled(g)
  PROVE  IInv'
<1>1. HoldOf(g) /\ OpOf(g) /\ TypeOK /\ (associated => ~h.blocking)
  BY Zenon DEF IInv
<1>2. /\ pc[g] \in Waiting \cup {"blocked"} /\ pc' = [pc EXCEPT ![g] = "result"]
      /\ io[g] \in Over /\ ~associated
      /\ ioEvent' = [ioEvent EXCEPT ![g] = FALSE]
      /\ UNCHANGED <<lifetimeVars, pollVars, h, fdVars, evVars, mode, pinned, moved, io,
                     cancelled, timeout, waitErr, res, argVars, packets>>
  <2>1. CASE Unblocked(g)
    <3>1. ioEvent[g] = FALSE
      BY Zenon, <1>1, <2>1 DEF Unblocked, OpOf, Waiting, TypeOK
    <3>2. [ioEvent EXCEPT ![g] = FALSE] = ioEvent
      BY Zenon, <1>1, <3>1, Zenon DEF TypeOK
    <3>3. io[g] \in Over /\ ~associated
      BY Zenon, <1>1, <2>1 DEF Unblocked, OpOf, TypeOK, Over
    <3> QED
      BY Zenon, <2>1, <3>2, <3>3 DEF Unblocked, Goto, opVars
  <2>2. CASE EventSignalled(g)
    BY Zenon, <1>1, <2>2 DEF EventSignalled, Goto, OpOf, Waiting
  <2> QED
    BY Zenon, <2>1, <2>2
<1>3. TypeOK'
  BY Zenon, <1>1, <1>2 DEF TypeOK, PCs, InExec, lifetimeVars, pollVars, fdVars, evVars, argVars
<1>4. Others(g) /\ Takes(g) /\ Quiet
  BY Zenon, <1>1, <1>2 DEF Others, Takes, Quiet, TypeOK, lifetimeVars, pollVars, fdVars
<1>5. HoldOf(g)'
  BY Zenon, <1>1, <1>2 DEF HoldOf, Needs, InExec, Waiting, Evicting, lifetimeVars, TypeOK
<1>6. OpOf(g)'
  BY Zenon, <1>1, <1>2 DEF OpOf, InOp, Waiting, Over, Explained, Closing, OffPoller, OnPoller,
                    EventDriven, Refused, CanDetach, lifetimeVars, fdVars, TypeOK
<1>7. \A m \in Modes : TokenOf(m)'
  BY Zenon, <1>2, <1>4 DEF IInv, TokenOf, Quiet
<1>8. Evicted'
  <2>1. pc[g] \notin Evicting
    BY Zenon, <1>2 DEF Evicting, Waiting
  <2> QED
    BY Zenon, <1>4, <2>1, EvictedKept DEF Quiet
<1> QED
  BY Zenon, <1>3, <1>4, <1>5, <1>6, <1>7, <1>8, StepInv DEF Quiet

\* The completion a wait on the poller consumes is that of its own operation.
LEMMA OwnCompletion ==
  ASSUME IInv, NEW g \in Goroutines, pc[g] \in Waiting, ready[mode[g]]
  PROVE  Told(g, mode[g]) /\ packets[mode[g]] = 0 /\ mode[g] \in Modes
<1>1. mode[g] \in Modes /\ TokenOf(mode[g]) /\ pc[g] \in InExec
  BY Zenon DEF IInv, TypeOK, InExec
<1>2. PICK x \in Goroutines : Told(x, mode[g])
  BY Zenon, <1>1 DEF TokenOf
<1>3. pc[x] \in InExec /\ mode[x] = mode[g]
  BY Zenon, <1>2 DEF Told, InExec
<1>4. mode[x] \in hold[x]
  BY <1>3 DEF IInv, HoldOf, Needs, TypeOK
<1>5. g = x
  BY Zenon, <1>1, <1>3, <1>4, OneOperation
<1> QED
  BY Zenon, <1>1, <1>2, <1>5 DEF TokenOf

\* PollWaitReady.
LEMMA PollWaitReadyInv ==
  ASSUME IInv, NEW g \in Goroutines, PollWaitReady(g)
  PROVE  IInv'
<1>1. /\ pc[g] \in Waiting /\ ready[mode[g]] /\ ~ByEvent
      /\ pc' = [pc EXCEPT ![g] = "result"] /\ ready' = [ready EXCEPT ![mode[g]] = FALSE]
      /\ UNCHANGED <<lifetimeVars, evicted, deadline, h, fdVars, evVars, mode, opVars, res,
                     argVars, packets>>
  BY Zenon DEF PollWaitReady, PollConsume, Goto, Waiting
<1>2. HoldOf(g) /\ OpOf(g) /\ TypeOK
  BY Zenon DEF IInv
<1>3. io[g] \in Over /\ packets[mode[g]] = 0 /\ mode[g] \in Modes
  BY Zenon, <1>1, OwnCompletion DEF Told
<1>4. associated
  BY Zenon, <1>1, <1>2 DEF ByEvent, OpOf
<1>5. TypeOK'
  BY Zenon, <1>1, <1>2 DEF TypeOK, PCs, InExec, lifetimeVars, fdVars, evVars, argVars, opVars
<1>6. Others(g) /\ Takes(g) /\ UNCHANGED <<phase, h, associated, evicted, packets>>
  BY Zenon, <1>1, <1>2 DEF Others, Takes, TypeOK, lifetimeVars, fdVars, opVars
<1>7. HoldOf(g)'
  BY Zenon, <1>1, <1>2 DEF HoldOf, Needs, InExec, Waiting, Evicting, lifetimeVars, TypeOK
<1>8. OpOf(g)'
  BY Zenon, <1>1, <1>2, <1>3, <1>4 DEF OpOf, InOp, Waiting, Over, Explained, Closing, OffPoller, OnPoller,
                    EventDriven, Refused, CanDetach, lifetimeVars, fdVars, opVars, TypeOK
<1>9. ASSUME NEW m \in Modes PROVE TokenOf(m)'
  <2>1. CASE m = mode[g]
    <3>1. ~ready'[m] /\ packets'[m] = 0
      BY Zenon, <1>1, <1>2, <1>3, <2>1 DEF TypeOK
    <3> QED
      BY <3>1 DEF TokenOf
  <2>2. CASE m # mode[g]
    <3>1. ready'[m] = ready[m] /\ packets'[m] = packets[m] /\ TokenOf(m)
      BY Zenon, <1>1, <1>2, <2>2 DEF TypeOK, IInv
    <3>2. \A x \in Goroutines : Told(x, m) => Told(x, m)'
      BY Zenon, <1>6, <2>2 DEF Others, Told
    <3> QED
      BY Zenon, <1>6, <3>1, <3>2 DEF TokenOf
  <2> QED
    BY Zenon, <2>1, <2>2
<1>10. Evicted'
  <2>1. pc[g] \notin Evicting
    BY Zenon, <1>1 DEF Evicting, Waiting
  <2> QED
    BY Zenon, <1>6, <2>1, EvictedKept
<1> QED
  BY Zenon, <1>5, <1>6, <1>7, <1>8, <1>9, <1>10, StepInv

\* PollWaitFails, Cancel, EventTimeout, DeadlineSignalled and WaitTimesOut: the
\* wait goes on, or there is an error and the operation is cancelled for it.
LEMMA WaitGoesOnInv ==
  ASSUME IInv, NEW g \in Goroutines,
         \/ PollWaitFails(g) \/ Cancel(g) \/ EventTimeout(g) \/ DeadlineSignalled(g)
         \/ WaitTimesOut(g)
  PROVE  IInv'
<1>1. HoldOf(g) /\ OpOf(g) /\ TypeOK
  BY Zenon DEF IInv
<1>2. /\ pc[g] \in Waiting /\ pc'[g] \in Waiting /\ pc' = [pc EXCEPT ![g] = pc'[g]]
      /\ waitErr' = [waitErr EXCEPT ![g] = waitErr'[g]]
      /\ waitErr'[g] \in {waitErr[g], "errClosing", "timeout"}
      /\ pc'[g] \in {"cancel", "drain"} => waitErr'[g] # "nil"
      /\ UNCHANGED <<lifetimeVars, pollVars, h, fdVars, own, mode, pinned, moved, io, ioEvent, res,
                     argVars, packets>>
  BY <1>1 DEF PollWaitFails, Cancel, EventTimeout, DeadlineSignalled, WaitTimesOut, PollError,
              Goto, Waiting, OpOf, TypeOK, evVars
<1>3. /\ timeout' \in [Goroutines -> BOOLEAN] /\ dlEvent' \in [Modes -> BOOLEAN]
      /\ cancelled' \in [Goroutines -> BOOLEAN]
      /\ \A x \in Goroutines \ {g} : cancelled'[x] = cancelled[x]
      /\ cancelled' = cancelled \/ pc'[g] = "drain"
  BY Zenon, <1>1 DEF PollWaitFails, Cancel, EventTimeout, DeadlineSignalled, WaitTimesOut, TypeOK,
              evVars, Goto
<1>4. TypeOK'
  <2>1. pc' \in [Goroutines -> PCs] /\ waitErr' \in [Goroutines -> {"nil", "errClosing", "timeout"}]
    BY <1>1, <1>2 DEF TypeOK, PCs, InExec
  <2> QED
    BY Zenon, <1>1, <1>2, <1>3, <2>1 DEF TypeOK, lifetimeVars, pollVars, fdVars, argVars
<1>5. Others(g) /\ Takes(g) /\ Quiet
  BY Zenon, <1>1, <1>2, <1>3 DEF Others, Takes, Quiet, TypeOK, lifetimeVars, pollVars, fdVars
<1>6. HoldOf(g)'
  BY Zenon, <1>1, <1>2 DEF HoldOf, Needs, InExec, Waiting, Evicting, lifetimeVars, TypeOK
<1>7. waitErr[g] # "nil" => waitErr'[g] # "nil"
  BY Zenon, <1>2
<1>8. Explained(g) => Explained(g)'
  BY Zenon, <1>2, <1>7 DEF Explained, Closing, OffPoller, OnPoller, EventDriven, Refused, CanDetach,
                    lifetimeVars
<1>9. pc'[g] \in {"cancel", "drain"} => Explained(g)'
  BY Zenon, <1>2 DEF Explained
<1>10. OpOf(g)'
  BY Zenon, <1>1, <1>2, <1>3, <1>8, <1>9 DEF OpOf, InOp, Waiting, Over, fdVars
<1>11. pc[g] \notin Evicting /\ \A m \in Modes : Told(g, m) => Told(g, m)'
  BY Zenon, <1>2 DEF Waiting, Evicting, Told
<1> QED
  BY Zenon, <1>4, <1>5, <1>6, <1>10, <1>11, QuietInv

\* Result: the kernel is done with the operation, and every error has its reason.
LEMMA ResultInv ==
  ASSUME IInv, NEW g \in Goroutines, Result(g)
  PROVE  IInv'
<1>1. HoldOf(g) /\ OpOf(g) /\ TypeOK
  BY Zenon DEF IInv
<1>2. pc[g] = "result" /\ io[g] \in Over /\ res[g] = "nil"
  BY Zenon, <1>1 DEF Result, OpOf
<1>3. ResultOf(g) \in {"ok", "errClosing", "timeout"}
  BY Zenon, <1>1, <1>2 DEF ResultOf, OpOf, Explained, Over, TypeOK
<1>4. /\ pc' = [pc EXCEPT ![g] = "unlock"] /\ res' = [res EXCEPT ![g] = ResultOf(g)]
      /\ io' = [io EXCEPT ![g] = "none"] /\ ioEvent' = [ioEvent EXCEPT ![g] = FALSE]
      /\ cancelled' = [cancelled EXCEPT ![g] = FALSE]
      /\ timeout' = [timeout EXCEPT ![g] = FALSE]
      /\ waitErr' = [waitErr EXCEPT ![g] = "nil"]
      /\ pinned' = [pinned EXCEPT ![g] = FALSE] /\ moved' = [moved EXCEPT ![g] = FALSE]
      /\ UNCHANGED <<lifetimeVars, pollVars, h, fdVars, evVars, mode, argVars, packets>>
  BY Zenon, <1>1, <1>2 DEF Result, Return, Goto, Over, TypeOK
<1>5. TypeOK'
  <2>1. pc' \in [Goroutines -> PCs] /\ res' \in [Goroutines -> Errors]
    BY Zenon, <1>1, <1>3, <1>4 DEF TypeOK, PCs, Errors
  <2>2. /\ io' \in [Goroutines -> {"none", "pending", "ok", "aborted"}]
        /\ waitErr' \in [Goroutines -> {"nil", "errClosing", "timeout"}]
    BY Zenon, <1>1, <1>4 DEF TypeOK
  <2>3. /\ ioEvent' \in [Goroutines -> BOOLEAN] /\ cancelled' \in [Goroutines -> BOOLEAN]
        /\ timeout' \in [Goroutines -> BOOLEAN] /\ pinned' \in [Goroutines -> BOOLEAN]
        /\ moved' \in [Goroutines -> BOOLEAN]
    BY Zenon, <1>1, <1>4 DEF TypeOK
  <2> QED
    BY Zenon, <1>1, <1>4, <2>1, <2>2, <2>3 DEF TypeOK, lifetimeVars, pollVars, fdVars, evVars, argVars
<1>6. Others(g) /\ Takes(g) /\ Quiet
  BY Zenon, <1>1, <1>4 DEF Others, Takes, Quiet, TypeOK, lifetimeVars, pollVars, fdVars
<1>7. /\ pc'[g] = "unlock" /\ res'[g] = ResultOf(g) /\ io'[g] = "none"
      /\ ~ioEvent'[g] /\ ~cancelled'[g]
  BY Zenon, <1>1, <1>4 DEF TypeOK
<1>8. HoldOf(g)'
  BY <1>1, <1>2, <1>4, <1>7 DEF HoldOf, Needs, InExec, Waiting, Evicting, lifetimeVars, TypeOK, Modes
<1>9. OpOf(g)'
  BY Zenon, <1>3, <1>7 DEF OpOf, InOp, Waiting, Over
<1>10. pc[g] \notin Waiting \cup Evicting
  BY Zenon, <1>2 DEF Waiting, Evicting
<1> QED
  BY Zenon, <1>5, <1>6, <1>8, <1>9, <1>10, QuietInv DEF Told

\* Repeat: the locks are still those of the operation.
LEMMA RepeatInv ==
  ASSUME IInv, NEW g \in Goroutines, Repeat(g)
  PROVE  IInv'
<1>1. /\ pc[g] = "unlock" /\ Needs(g) \subseteq hold[g] /\ res[g] # "nil"
      /\ pc' = [pc EXCEPT ![g] = "exec"] /\ res' = [res EXCEPT ![g] = "nil"]
      /\ UNCHANGED <<lifetimeVars, pollVars, h, fdVars, evVars, mode, opVars, argVars, packets>>
  BY Zenon DEF Repeat, Return, Goto
<1>2. HoldOf(g) /\ OpOf(g) /\ TypeOK
  BY Zenon DEF IInv
<1>3. TypeOK'
  BY Zenon, <1>1, <1>2 DEF TypeOK, PCs, InExec, Errors, lifetimeVars, pollVars, fdVars, evVars, argVars, opVars
<1>4. Others(g) /\ Takes(g) /\ Quiet
  BY Zenon, <1>1, <1>2 DEF Others, Takes, Quiet, TypeOK, lifetimeVars, pollVars, fdVars, opVars
<1>5. HoldOf(g)'
  <2>1. hold[g] = Needs(g)
    BY Zenon, <1>1, <1>2 DEF HoldOf
  <2> QED
    BY Zenon, <1>1, <1>2, <2>1 DEF HoldOf, Needs, InExec, Waiting, Evicting, lifetimeVars, TypeOK
<1>6. OpOf(g)'
  BY Zenon, <1>1, <1>2 DEF OpOf, InOp, Waiting, Over, Explained, Closing, OffPoller, OnPoller,
                    EventDriven, Refused, CanDetach, lifetimeVars, fdVars, opVars, TypeOK
<1>7. pc[g] \notin Waiting \cup Evicting
  BY Zenon, <1>1 DEF Waiting, Evicting
<1> QED
  BY Zenon, <1>3, <1>4, <1>5, <1>6, <1>7, QuietInv DEF Told

----------------------------------------------------------------------------
(* Where calls begin and end, and the steps that only move on *)

\* Outside execIO nothing is known of an operation.
Outside(g) == pc[g] \notin InExec /\ pc'[g] \notin InExec

\* A goroutine outside execIO gives back or takes a lock or a reference, or
\* just goes on.
Moves(g) ==
  /\ pc' = [pc EXCEPT ![g] = pc'[g]] /\ pc'[g] \in PCs
  /\ hold' = [hold EXCEPT ![g] = hold'[g]] /\ hold'[g] \in SUBSET Kind
  /\ mode' = [mode EXCEPT ![g] = mode'[g]] /\ mode'[g] \in Modes
  /\ res' = [res EXCEPT ![g] = res'[g]] /\ res'[g] \in {"nil", res[g]}
  /\ Outside(g) /\ Takes(g)
  /\ pc'[g] # "unlock" => res'[g] = "nil"
  /\ UNCHANGED <<phase, h, associated, opVars>>

\* Such a step need only keep what the invariant says of the locks.
LEMMA MovesInv ==
  ASSUME IInv, NEW g \in Goroutines, Moves(g), UNCHANGED <<ready, packets>>,
         events' \in BOOLEAN, own' \in [Modes -> Deadlines], dlEvent' \in [Modes -> BOOLEAN],
         deadline' \in [Modes -> Deadlines], evicted' \in BOOLEAN,
         todo' \in [Goroutines -> SUBSET Modes], until' \in [Goroutines -> Deadlines],
         evicted => evicted', pc[g] \in Evicting => pc'[g] \in Evicting \/ evicted' \/ ~OnPoller,
         HoldOf(g)'
  PROVE  IInv'
<1>1. HoldOf(g) /\ OpOf(g) /\ TypeOK
  BY Zenon DEF IInv
<1>2. TypeOK'
  <2>1. /\ pc' \in [Goroutines -> PCs] /\ hold' \in [Goroutines -> SUBSET Kind]
        /\ mode' \in [Goroutines -> Modes]
    BY Zenon, <1>1 DEF TypeOK, Moves
  <2>2. res' \in [Goroutines -> Errors]
    BY Zenon, <1>1 DEF TypeOK, Moves, Errors
  <2> QED
    BY Zenon, <1>1, <2>1, <2>2 DEF TypeOK, Moves, opVars
<1>3. Others(g) /\ Takes(g) /\ UNCHANGED <<phase, h, associated>>
  BY ZenonT(60), <1>1 DEF Others, Moves, TypeOK, opVars
<1>4. OpOf(g)'
  BY Zenon, <1>1 DEF OpOf, Moves, Outside, InOp, InExec, Waiting, Over, Explained, Closing, OffPoller,
              OnPoller, EventDriven, Refused, CanDetach, opVars, TypeOK
<1>5. \A m \in Modes : ~Told(g, m)
  BY Zenon DEF Moves, Outside, InExec, Told
<1>6. \A m \in Modes : TokenOf(m)'
  BY Zenon, <1>3, <1>5, TokensKept
<1>7. Evicted'
  BY Zenon, <1>3, EvictedKept
<1> QED
  BY Zenon, <1>2, <1>3, <1>4, <1>6, <1>7, StepInv

\* Unlock and UnlockNothing.
LEMMA UnlockInv ==
  ASSUME IInv, NEW g \in Goroutines, Unlock(g) \/ UnlockNothing(g)
  PROVE  IInv'
<1>1. HoldOf(g) /\ OpOf(g) /\ TypeOK
  BY Zenon DEF IInv
<1>2. /\ pc[g] = "unlock" /\ hold'[g] \subseteq hold[g] /\ hold' = [hold EXCEPT ![g] = hold'[g]]
      /\ pc' = [pc EXCEPT ![g] = pc'[g]]
      /\ mode' = [mode EXCEPT ![g] = mode'[g]] /\ res' = [res EXCEPT ![g] = res'[g]]
      /\ \/ pc'[g] = "idle" /\ hold'[g] = {} /\ mode'[g] = "r" /\ res'[g] = "nil"
         \/ UNCHANGED <<pc, mode, res>>
      /\ UNCHANGED <<phase, pollVars, h, fdVars, evVars, opVars, argVars, packets>>
  BY <1>1 DEF Unlock, UnlockNothing, Release, Done, Goto, Return, lifetimeVars, TypeOK
<1>3. Moves(g)
  BY ZenonT(60), <1>1, <1>2 DEF Moves, Outside, Takes, PCs, InExec, Waiting, TypeOK, Modes, fdVars, HoldOf
<1>4. HoldOf(g)'
  BY Zenon, <1>1, <1>2 DEF HoldOf, Needs, InExec, Waiting, Evicting, TypeOK
<1>5. pc[g] \notin Evicting
  BY Zenon, <1>2 DEF Evicting
<1> QED
  BY Zenon, <1>1, <1>2, <1>3, <1>4, <1>5, MovesInv DEF TypeOK, pollVars, fdVars, evVars, argVars

\* Close after it has begun, up to its return, except for its cancel.
LEMMA CloseStepsInv ==
  ASSUME IInv, NEW g \in Goroutines,
         CloseWakes(g) \/ CloseEvicts(g) \/ CloseDecref(g) \/ CloseReturns(g) \/ CloseAbandons(g)
  PROVE  IInv'
<1>1. HoldOf(g) /\ OpOf(g) /\ TypeOK
  BY Zenon DEF IInv
<1>2. /\ pc[g] \in {"wake", "evict", "decref", "destroywait"}
      /\ pc' = [pc EXCEPT ![g] = pc'[g]]
      /\ \/ pc[g] = "wake" /\ pc'[g] = "evict" /\ UNCHANGED <<hold, evicted>>
         \/ pc[g] = "evict" /\ pc'[g] = "decref" /\ UNCHANGED hold /\ (evicted' \/ ~OnPoller)
         \/ /\ pc[g] = "decref" /\ pc'[g] = "destroywait" /\ UNCHANGED evicted
            /\ hold' = [hold EXCEPT ![g] = hold[g] \ {"close"}]
         \/ pc[g] = "destroywait" /\ pc'[g] = "idle" /\ UNCHANGED <<hold, evicted>>
      /\ mode' = [mode EXCEPT ![g] = mode'[g]] /\ mode'[g] \in {mode[g], "r"}
      /\ res' = [res EXCEPT ![g] = res'[g]] /\ res'[g] \in {res[g], "nil"}
      /\ evicted' \in BOOLEAN /\ (evicted => evicted') /\ dlEvent' \in [Modes -> BOOLEAN]
      /\ UNCHANGED <<phase, ready, deadline, h, fdVars, own, opVars, argVars, packets>>
  <2> USE <1>1 DEF CloseWakes, CloseEvicts, CloseDecref, CloseReturns, CloseAbandons, Release,
                   PollEvict, Done, Goto, Return, lifetimeVars, pollVars, evVars, TypeOK
  <2>1. /\ pc[g] \in {"wake", "evict", "decref", "destroywait"}
        /\ pc' = [pc EXCEPT ![g] = pc'[g]]
        /\ \/ pc[g] = "wake" /\ pc'[g] = "evict" /\ UNCHANGED <<hold, evicted>>
           \/ pc[g] = "evict" /\ pc'[g] = "decref" /\ UNCHANGED hold /\ (evicted' \/ ~OnPoller)
           \/ /\ pc[g] = "decref" /\ pc'[g] = "destroywait" /\ UNCHANGED evicted
              /\ hold' = [hold EXCEPT ![g] = hold[g] \ {"close"}]
           \/ pc[g] = "destroywait" /\ pc'[g] = "idle" /\ UNCHANGED <<hold, evicted>>
    BY Zenon
  <2>2. /\ mode' = [mode EXCEPT ![g] = mode'[g]] /\ mode'[g] \in {mode[g], "r"}
        /\ res' = [res EXCEPT ![g] = res'[g]] /\ res'[g] \in {res[g], "nil"}
    BY ZenonT(60)
  <2>3. /\ evicted' \in BOOLEAN /\ (evicted => evicted') /\ dlEvent' \in [Modes -> BOOLEAN]
        /\ UNCHANGED <<phase, ready, deadline, h, fdVars, own, opVars, argVars, packets>>
    BY ZenonT(60)
  <2> QED
    BY Zenon, <2>1, <2>2, <2>3
<1>3. res[g] = "nil"
  BY Zenon, <1>1, <1>2 DEF OpOf
<1>4. hold' = [hold EXCEPT ![g] = hold'[g]] /\ hold'[g] \subseteq hold[g]
  BY <1>1, <1>2 DEF TypeOK
<1>5. Moves(g)
  BY Zenon, <1>1, <1>2, <1>3, <1>4 DEF Moves, Outside, Takes, PCs, InExec, Waiting, TypeOK, Modes, fdVars
<1>6. HoldOf(g)'
  BY <1>1, <1>2 DEF HoldOf, Needs, InExec, Waiting, Evicting, TypeOK, Closing
<1>7. pc[g] \in Evicting => pc'[g] \in Evicting \/ evicted' \/ ~OnPoller
  BY Zenon, <1>2 DEF Evicting
<1> QED
  BY Zenon, <1>1, <1>2, <1>5, <1>6, <1>7, MovesInv DEF TypeOK, fdVars, argVars

\* SetDeadline and the calls that only take a reference, and DisassociateIOCP
\* but for its change.
LEMMA CallInv ==
  ASSUME IInv, NEW g \in Goroutines,
         \/ \E S \in SUBSET Modes \ {{}}, d \in Deadlines : CallSetDeadline(g, S, d)
         \/ CallInfo(g) \/ CallDisassociate(g) \/ TryLock(g)
  PROVE  IInv'
<1>1. HoldOf(g) /\ OpOf(g) /\ TypeOK
  BY Zenon DEF IInv
<1>2. PICK k \in {"ref", "r", "w"} :
        /\ Acquire(g, k)
        /\ pc' = [pc EXCEPT ![g] = pc'[g]]
        /\ \/ pc[g] = "idle" /\ k = "ref" /\ pc'[g] \in {"deadline", "unref"}
           \/ pc[g] = "idle" /\ k = "r" /\ pc'[g] = "trylock"
           \/ pc[g] = "trylock" /\ k = "w" /\ pc'[g] = "disassociate"
        /\ todo' \in [Goroutines -> SUBSET Modes] /\ until' \in [Goroutines -> Deadlines]
        /\ UNCHANGED <<pollVars, h, fdVars, evVars, mode, opVars, res, packets>>
  <2>1. CASE CallInfo(g) \/ CallDisassociate(g) \/ TryLock(g)
    BY Zenon, <1>1, <2>1 DEF CallInfo, CallDisassociate, TryLock, Goto, TypeOK, argVars
  <2>2. ASSUME NEW S \in SUBSET Modes \ {{}}, NEW d \in Deadlines, CallSetDeadline(g, S, d)
        PROVE  /\ Acquire(g, "ref") /\ pc' = [pc EXCEPT ![g] = pc'[g]]
               /\ pc[g] = "idle" /\ pc'[g] \in {"deadline", "unref"}
               /\ todo' \in [Goroutines -> SUBSET Modes] /\ until' \in [Goroutines -> Deadlines]
               /\ UNCHANGED <<pollVars, h, fdVars, evVars, mode, opVars, res, packets>>
    BY Zenon, <1>1, <2>2 DEF CallSetDeadline, Goto, TypeOK
  <2> QED
    BY Zenon, <2>1, <2>2
<1>3. /\ phase = "open" /\ phase' = phase /\ (k \in Modes => Holding(k) = {})
      /\ hold' = [hold EXCEPT ![g] = hold[g] \cup {k}] /\ hold'[g] = hold[g] \cup {k}
  BY Zenon, <1>1, <1>2 DEF Acquire, Dir, Modes, TypeOK
<1>4. res[g] = "nil"
  BY Zenon, <1>1, <1>2 DEF OpOf
<1>5. Moves(g)
  BY ZenonT(60), <1>1, <1>2, <1>3, <1>4 DEF Moves, Outside, Takes, PCs, InExec, Waiting, TypeOK, Modes, fdVars,
                                Kind, Dir
<1>6. HoldOf(g)'
  BY Zenon, <1>1, <1>2, <1>3 DEF HoldOf, InExec, Waiting, Evicting, Modes
<1>7. pc[g] \notin Evicting
  BY Zenon, <1>2 DEF Evicting
<1> QED
  BY Zenon, <1>1, <1>2, <1>5, <1>6, <1>7, MovesInv DEF TypeOK, pollVars, fdVars, evVars

\* The steps of SetDeadline.
LEMMA DeadlineStepsInv ==
  ASSUME IInv, NEW g \in Goroutines,
         \/ SetPollDeadline(g) \/ (\E m \in Modes : StoreDeadline(g, m)) \/ SignalDeadline(g)
         \/ NoDeadline(g)
  PROVE  IInv'
<1>1. HoldOf(g) /\ OpOf(g) /\ TypeOK
  BY Zenon DEF IInv
<1>2. /\ pc[g] \in {"deadline", "signal"} /\ pc'[g] \in {"deadline", "signal", "unref"}
      /\ pc' = [pc EXCEPT ![g] = pc'[g]]
      /\ mode' = [mode EXCEPT ![g] = mode'[g]] /\ mode'[g] \in Modes
      /\ UNCHANGED <<lifetimeVars, ready, evicted, h, fdVars, opVars, res, until, packets>>
  BY <1>1 DEF SetPollDeadline, StoreDeadline, SignalDeadline, NoDeadline, PollSetDeadline, Goto,
              pollVars, argVars, TypeOK
<1>3. /\ deadline' \in [Modes -> Deadlines] /\ own' \in [Modes -> Deadlines]
      /\ dlEvent' \in [Modes -> BOOLEAN] /\ todo' \in [Goroutines -> SUBSET Modes]
  <2>1. CASE SetPollDeadline(g)
    BY Zenon, <1>1, <2>1 DEF SetPollDeadline, PollSetDeadline, TypeOK, evVars, argVars
  <2>2. CASE \E m \in Modes : StoreDeadline(g, m)
    BY <1>1, <2>2 DEF StoreDeadline, TypeOK, pollVars
  <2>3. CASE SignalDeadline(g) \/ NoDeadline(g)
    BY Zenon, <1>1, <2>3 DEF SignalDeadline, NoDeadline, TypeOK, pollVars, evVars, argVars
  <2> QED
    BY Zenon, <2>1, <2>2, <2>3
<1>4. res[g] = "nil"
  BY Zenon, <1>1, <1>2 DEF OpOf
<1>5. Moves(g)
  BY Zenon, <1>1, <1>2, <1>4 DEF Moves, Outside, Takes, PCs, InExec, Waiting, TypeOK, fdVars, lifetimeVars
<1>6. HoldOf(g)'
  BY Zenon, <1>1, <1>2 DEF HoldOf, InExec, Waiting, Evicting, lifetimeVars
<1>7. pc[g] \notin Evicting
  BY Zenon, <1>2 DEF Evicting
<1> QED
  BY Zenon, <1>1, <1>2, <1>3, <1>5, <1>6, <1>7, MovesInv DEF TypeOK, fdVars

\* Unref, and DisassociateIOCP when it fails.
LEMMA UnrefInv ==
  ASSUME IInv, NEW g \in Goroutines, Unref(g) \/ TryLockFails(g) \/ DisassociateFails(g)
  PROVE  IInv'
<1>1. HoldOf(g) /\ OpOf(g) /\ TypeOK
  BY Zenon DEF IInv
<1>2. /\ pc' = [pc EXCEPT ![g] = pc'[g]]
      /\ \/ /\ pc[g] = "unref" /\ pc'[g] = "idle"
            /\ hold' = [hold EXCEPT ![g] = hold[g] \ {"ref"}]
         \/ pc[g] \in {"trylock", "disassociate"} /\ pc'[g] = "unlock" /\ UNCHANGED hold
      /\ mode' = [mode EXCEPT ![g] = mode'[g]] /\ mode'[g] \in {mode[g], "r"}
      /\ res' = [res EXCEPT ![g] = res'[g]] /\ res'[g] \in {res[g], "nil"}
      /\ todo' \in [Goroutines -> SUBSET Modes] /\ until' \in [Goroutines -> Deadlines]
      /\ UNCHANGED <<phase, pollVars, h, fdVars, evVars, opVars, packets>>
  <2> USE <1>1 DEF Unref, TryLockFails, DisassociateFails, Release, Done, Goto, Return, TypeOK
  <2>1. /\ pc' = [pc EXCEPT ![g] = pc'[g]]
        /\ \/ /\ pc[g] = "unref" /\ pc'[g] = "idle"
              /\ hold' = [hold EXCEPT ![g] = hold[g] \ {"ref"}]
           \/ pc[g] \in {"trylock", "disassociate"} /\ pc'[g] = "unlock" /\ UNCHANGED hold
    BY Zenon DEF lifetimeVars
  <2>2. /\ mode' = [mode EXCEPT ![g] = mode'[g]] /\ mode'[g] \in {mode[g], "r"}
        /\ res' = [res EXCEPT ![g] = res'[g]] /\ res'[g] \in {res[g], "nil"}
    BY ZenonT(60)
  <2>3. todo' \in [Goroutines -> SUBSET Modes] /\ until' \in [Goroutines -> Deadlines]
    BY ZenonT(60) DEF argVars, Deadlines
  <2>4. UNCHANGED <<phase, pollVars, h, fdVars, evVars, opVars, packets>>
    BY Zenon DEF lifetimeVars
  <2> QED
    BY Zenon, <2>1, <2>2, <2>3, <2>4
<1>3. res[g] = "nil"
  BY Zenon, <1>1, <1>2 DEF OpOf
<1>4. hold' = [hold EXCEPT ![g] = hold'[g]] /\ hold'[g] \subseteq hold[g]
  BY <1>1, <1>2 DEF TypeOK
<1>5. Moves(g)
  BY Zenon, <1>1, <1>2, <1>3, <1>4 DEF Moves, Outside, Takes, PCs, InExec, Waiting, TypeOK, Modes, fdVars
<1>6. HoldOf(g)'
  BY <1>1, <1>2, <1>3 DEF HoldOf, InExec, Waiting, Evicting, TypeOK, Modes
<1>7. pc[g] \notin Evicting
  BY Zenon, <1>2 DEF Evicting
<1> QED
  BY Zenon, <1>1, <1>2, <1>5, <1>6, <1>7, MovesInv DEF TypeOK, pollVars, fdVars, evVars

----------------------------------------------------------------------------
(* Close, destroy and DisassociateIOCP *)

\* CallClose.
LEMMA CallCloseInv ==
  ASSUME IInv, NEW g \in Goroutines, CallClose(g)
  PROVE  IInv'
<1>1. /\ pc[g] = "idle" /\ phase = "open" /\ phase' = "closing"
      /\ hold' = [hold EXCEPT ![g] = @ \cup {"close"}] /\ pc' = [pc EXCEPT ![g] = "interrupt"]
      /\ UNCHANGED <<pollVars, h, fdVars, evVars, mode, opVars, res, argVars, packets>>
  BY Zenon DEF CallClose, StartClose, Goto
<1>2. HoldOf(g) /\ OpOf(g) /\ TypeOK
  BY Zenon DEF IInv
<1>3. pc'[g] = "interrupt" /\ hold'[g] = {"close"}
  BY Zenon, <1>1, <1>2 DEF HoldOf, TypeOK
<1>4. TypeOK'
  BY Zenon, <1>1, <1>2 DEF TypeOK, PCs, Kind, pollVars, fdVars, evVars, argVars, opVars
<1>5. Others(g)
  BY Zenon, <1>1, <1>2 DEF Others, TypeOK, opVars
<1>6. HoldOf(g)' /\ OpOf(g)'
  BY Zenon, <1>1, <1>2, <1>3 DEF HoldOf, OpOf, Closing, Evicting, InExec, InOp, Waiting, Explained, opVars,
                          OffPoller, OnPoller, EventDriven, Refused, CanDetach, fdVars
<1>7. \A x \in Goroutines : HoldOf(x)' /\ OpOf(x)'
  BY Zenon, <1>1, <1>5, <1>6, OthersKept DEF Closing, fdVars
<1>8. \A m \in Modes : ~Told(g, m)
  BY Zenon, <1>1 DEF Told, Waiting
<1>9. \A m \in Modes : TokenOf(m)'
  BY Zenon, <1>1, <1>5, <1>8, TokensKept DEF pollVars, fdVars
<1>10. Exclusive'
  BY <1>3, <1>5 DEF IInv, Exclusive, Others, Modes
<1>11. Evicted'
  BY Zenon, <1>3 DEF Evicted, Evicting
<1> QED
  BY Zenon, <1>1, <1>4, <1>7, <1>9, <1>10, <1>11 DEF IInv, fdVars

\* CloseInterrupts: the reason of these cancels is Close.
LEMMA CloseInterruptsInv ==
  ASSUME IInv, NEW g \in Goroutines, CloseInterrupts(g)
  PROVE  IInv'
<1>1. /\ pc[g] = "interrupt" /\ pc' = [pc EXCEPT ![g] = "wake"]
      /\ UNCHANGED <<lifetimeVars, pollVars, h, fdVars, evVars, mode, pinned, moved, io, ioEvent,
                     timeout, waitErr, res, argVars, packets>>
  BY Zenon DEF CloseInterrupts, Goto
<1>2. HoldOf(g) /\ OpOf(g) /\ TypeOK /\ Closing
  BY Zenon, <1>1 DEF IInv, HoldOf, Evicting
<1>3. /\ cancelled' \in [Goroutines -> BOOLEAN]
      /\ \A x \in Goroutines : cancelled'[x] => cancelled[x] \/ h.kind = "pipe" \/ OffPoller
  BY Zenon, <1>2 DEF CloseInterrupts, TypeOK
<1>4. TypeOK'
  BY Zenon, <1>1, <1>2, <1>3 DEF TypeOK, PCs, lifetimeVars, pollVars, fdVars, evVars, argVars
<1>5. /\ pc'[g] = "wake" /\ \A x \in Goroutines \ {g} : pc'[x] = pc[x]
  BY Zenon, <1>1, <1>2 DEF TypeOK
<1>6. ASSUME NEW x \in Goroutines PROVE HoldOf(x)'
  BY ZenonT(60), <1>1, <1>2, <1>5 DEF IInv, HoldOf, Needs, Closing, Evicting, InExec, Waiting, lifetimeVars
<1>7. ASSUME NEW x \in Goroutines PROVE OpOf(x)'
  <2>1. OpOf(x) /\ (Explained(x)' <=> Explained(x))
    BY Zenon, <1>1 DEF IInv, Explained, Closing, OffPoller, OnPoller, EventDriven, Refused, CanDetach,
                lifetimeVars
  <2>2. cancelled'[x] => Explained(x)
    BY Zenon, <1>2, <1>3, <2>1 DEF OpOf, Explained
  <2> QED
    BY Zenon, <1>1, <1>5, <2>1, <2>2 DEF OpOf, InOp, Waiting, fdVars
<1>8. ASSUME NEW m \in Modes PROVE TokenOf(m)'
  <2>1. \A x \in Goroutines : Told(x, m) => Told(x, m)'
    BY Zenon, <1>1, <1>5 DEF Told, Waiting
  <2> QED
    BY Zenon, <1>1, <2>1 DEF IInv, TokenOf, pollVars, fdVars
<1>9. Evicted' /\ Exclusive'
  BY Zenon, <1>1, <1>5 DEF IInv, Evicted, Exclusive, Evicting, lifetimeVars
<1> QED
  BY Zenon, <1>1, <1>4, <1>6, <1>7, <1>8, <1>9 DEF IInv, lifetimeVars, fdVars

\* destroy.
LEMMA DestroyInv ==
  ASSUME IInv, Destroy
  PROVE  IInv'
<1>1. /\ phase = "closing" /\ phase' = "destroyed" /\ \A g \in Goroutines : hold[g] = {}
      /\ events' = FALSE
      /\ UNCHANGED <<hold, pollVars, h, associated, evVars, pc, mode, opVars, res, argVars, packets>>
  BY Zenon DEF Destroy, DestroyFD
<1>2. TypeOK'
  <2>1. UNCHANGED <<hold, ready, evicted, deadline, h, associated, own, dlEvent, pc, mode, pinned,
                    moved, io, ioEvent, cancelled, timeout, waitErr, res, todo, until, packets>>
    BY Zenon, <1>1 DEF pollVars, evVars, opVars, argVars
  <2> QED
    BY Zenon, <1>1, <2>1 DEF IInv, TypeOK
<1>3. \A g \in Goroutines : HoldOf(g)' /\ OpOf(g)'
  BY ZenonT(60), <1>1 DEF IInv, HoldOf, OpOf, Needs, Closing, Explained, OffPoller, OnPoller, EventDriven,
              Refused, CanDetach, opVars
<1>4. \A m \in Modes : TokenOf(m)'
  BY Zenon, <1>1 DEF IInv, TokenOf, Told, pollVars, opVars
<1>5. Exclusive' /\ Evicted'
  BY Zenon, <1>1 DEF IInv, Exclusive, Evicted, Closing, OnPoller, EventDriven, Refused, CanDetach, pollVars
<1> QED
  BY Zenon, <1>1, <1>2, <1>3, <1>4, <1>5 DEF IInv

\* Disassociate: with both locks, no operation is under way.
LEMMA DisassociateInv ==
  ASSUME IInv, NEW g \in Goroutines, Disassociate(g)
  PROVE  IInv'
<1>1. /\ pc[g] = "disassociate" /\ pc' = [pc EXCEPT ![g] = "unlock"]
      /\ associated' = FALSE /\ events' \in BOOLEAN
      /\ UNCHANGED <<lifetimeVars, pollVars, h, evVars, mode, opVars, res, argVars, packets>>
  BY Zenon DEF Disassociate, Goto
<1>2. HoldOf(g) /\ OpOf(g) /\ TypeOK
  BY Zenon DEF IInv
<1>3. \A x \in Goroutines : pc[x] \notin InExec
  <2>1. SUFFICES ASSUME NEW x \in Goroutines, pc[x] \in InExec PROVE FALSE
    BY Zenon
  <2>2. mode[x] \in hold[g]
    BY Zenon, <1>1, <1>2 DEF HoldOf, TypeOK
  <2>3. x = g
    BY Zenon, <2>1, <2>2, OneOperation
  <2> QED
    BY Zenon, <1>1, <2>1, <2>3 DEF InExec, Waiting
<1>4. TypeOK'
  BY Zenon, <1>1, <1>2 DEF TypeOK, PCs, lifetimeVars, pollVars, evVars, opVars, argVars
<1>5. pc'[g] = "unlock" /\ \A x \in Goroutines \ {g} : pc'[x] = pc[x]
  BY Zenon, <1>1, <1>2 DEF TypeOK
<1>6. ASSUME NEW x \in Goroutines PROVE HoldOf(x)'
  <2>1. UNCHANGED <<hold, mode, res, h>> /\ (Closing' <=> Closing) /\ HoldOf(x)
    BY Zenon, <1>1 DEF IInv, Closing, lifetimeVars
  <2>2. CASE x = g
    <3>1. hold[g] = Modes /\ res[g] = "nil"
      BY Zenon, <1>1, <1>2 DEF HoldOf, OpOf
    <3> QED
      BY Zenon, <1>5, <2>1, <2>2, <3>1 DEF HoldOf, Evicting, InExec, Waiting
  <2>3. CASE x # g
    BY Zenon, <1>5, <2>1, <2>3 DEF HoldOf, Needs
  <2> QED
    BY Zenon, <2>2, <2>3
<1>7. ASSUME NEW x \in Goroutines PROVE OpOf(x)'
  <2>1. OpOf(x) /\ pc[x] \notin Waiting /\ (Explained(x)' <=> Explained(x))
    BY Zenon, <1>1, <1>3 DEF IInv, InExec, Explained, Closing, OffPoller, OnPoller, EventDriven, Refused,
                      CanDetach, lifetimeVars, opVars
  <2> QED
    BY Zenon, <1>1, <1>5, <2>1 DEF OpOf, InOp, Waiting, opVars
<1>8. \A m \in Modes : TokenOf(m)'
  BY Zenon, <1>1, <1>3 DEF IInv, TokenOf, Told, InExec, pollVars
<1>9. Evicted' /\ Exclusive'
  BY Zenon, <1>1, <1>5 DEF IInv, Evicted, Exclusive, Evicting, Closing, OnPoller, EventDriven, Refused,
                    CanDetach, lifetimeVars, pollVars
<1> QED
  BY Zenon, <1>1, <1>4, <1>6, <1>7, <1>8, <1>9 DEF IInv, lifetimeVars

----------------------------------------------------------------------------
(* The scheduler, the clock, netpoll, and refused calls *)

\* What the invariant says of goroutines and locks.
Calls == <<phase, hold, evicted, h, associated, pc, mode, io, ioEvent, cancelled, waitErr, res>>

\* A step that no goroutine notices.
LEMMA CallsKept ==
  ASSUME IInv, UNCHANGED Calls, TypeOK', \A m \in Modes : TokenOf(m)'
  PROVE  IInv'
<1>1. \A g \in Goroutines : HoldOf(g)' /\ OpOf(g)'
  BY DEF IInv, HoldOf, OpOf, Needs, Closing, Explained, OffPoller, OnPoller, EventDriven, Refused,
         CanDetach, Calls
<1>2. Exclusive' /\ Evicted'
  BY Zenon DEF IInv, Exclusive, Evicted, Closing, OnPoller, EventDriven, Refused, CanDetach, Calls
<1> QED
  BY ZenonT(60), <1>1, <1>2 DEF IInv, Calls

\* Migrate, DeadlinePasses, TimerFires, and calls that are refused.
LEMMA ApartInv ==
  ASSUME IInv,
         \/ \E g \in Goroutines : Migrate(g)
         \/ \E m \in Modes : DeadlinePasses(m)
         \/ \E S \in SUBSET Modes : TimerFires(S)
         \/ UNCHANGED vars
  PROVE  IInv'
<1>1. UNCHANGED Calls /\ UNCHANGED <<ready, packets>>
  BY Zenon DEF Migrate, DeadlinePasses, TimerFires, PollExpire, Calls, lifetimeVars, pollVars, fdVars, opVars,
         vars
<1>2. \A m \in Modes : TokenOf(m)'
  BY Zenon, <1>1 DEF IInv, TokenOf, Told, Calls
<1>3. TypeOK'
  <2>1. CASE \E g \in Goroutines : Migrate(g)
    BY <2>1 DEF IInv, TypeOK, Migrate, lifetimeVars, pollVars, fdVars, evVars, argVars
  <2>2. CASE \E m \in Modes : DeadlinePasses(m)
    BY <2>2 DEF IInv, TypeOK, DeadlinePasses, lifetimeVars, pollVars, fdVars, opVars, argVars, Deadlines
  <2>3. CASE \E S \in SUBSET Modes : TimerFires(S)
    BY <2>3 DEF IInv, TypeOK, TimerFires, PollExpire, lifetimeVars, fdVars, evVars, opVars, argVars,
                Deadlines
  <2>4. CASE UNCHANGED vars
    BY Zenon, <2>4 DEF IInv, TypeOK, vars
  <2> QED
    BY Zenon, <2>1, <2>2, <2>3, <2>4
<1> QED
  BY Zenon, <1>1, <1>2, <1>3, CallsKept

\* netpoll moves the one completion of a mode from the port to the semaphore.
LEMMA NetpollInv ==
  ASSUME IInv, NEW m \in Modes, Netpoll(m)
  PROVE  IInv'
<1>1. /\ packets[m] > 0 /\ packets' = [packets EXCEPT ![m] = @ - 1]
      /\ ready' = [ready EXCEPT ![m] = TRUE]
      /\ UNCHANGED <<lifetimeVars, evicted, deadline, h, fdVars, evVars, pc, mode, opVars, res, argVars>>
  BY Zenon DEF Netpoll, PollNotify
<1>2. TypeOK /\ TokenOf(m)
  BY Zenon DEF IInv
<1>3. packets[m] \in Nat /\ packets[m] = 1 /\ ~ready[m]
  BY <1>1, <1>2 DEF TokenOf, TypeOK
<1>4. TypeOK'
  BY <1>1, <1>2, <1>3 DEF TypeOK, lifetimeVars, fdVars, evVars, opVars, argVars
<1>5. UNCHANGED Calls
  BY Zenon, <1>1 DEF Calls, lifetimeVars, fdVars, opVars
<1>6. ASSUME NEW n \in Modes PROVE TokenOf(n)'
  <2>1. TokenOf(n) /\ \A g \in Goroutines : Told(g, n) => Told(g, n)'
    BY Zenon, <1>5 DEF IInv, Told, Calls
  <2>2. CASE n = m
    BY <1>1, <1>2, <1>3, <1>5, <2>1, <2>2 DEF TokenOf, TypeOK, Calls
  <2>3. CASE n # m
    BY Zenon, <1>1, <1>2, <1>5, <2>1, <2>3 DEF TokenOf, TypeOK, Calls
  <2> QED
    BY Zenon, <2>2, <2>3
<1> QED
  BY Zenon, <1>4, <1>5, <1>6, CallsKept

----------------------------------------------------------------------------
(* The invariant and what follows from it *)

\* FD.Init has returned, and nobody uses the FD yet.
LEMMA InitInv == Init => IInv
<1> SUFFICES ASSUME Init PROVE IInv
  BY Zenon
<1> USE DEF Init, LifetimeInit, PollInit
<1>1. /\ associated \in BOOLEAN /\ events \in BOOLEAN /\ h \in Handles
      /\ associated => ~h.blocking
  BY Zenon DEF OnPoller
<1>2. TypeOK
  <2>1. /\ pc \in [Goroutines -> PCs] /\ res \in [Goroutines -> Errors]
        /\ mode \in [Goroutines -> Modes] /\ hold \in [Goroutines -> SUBSET Kind]
        /\ io \in [Goroutines -> {"none", "pending", "ok", "aborted"}]
        /\ waitErr \in [Goroutines -> {"nil", "errClosing", "timeout"}]
    BY Zenon DEF PCs, Errors, Modes
  <2>2. /\ pinned \in [Goroutines -> BOOLEAN] /\ moved \in [Goroutines -> BOOLEAN]
        /\ ioEvent \in [Goroutines -> BOOLEAN] /\ cancelled \in [Goroutines -> BOOLEAN]
        /\ timeout \in [Goroutines -> BOOLEAN]
    BY Zenon
  <2>3. /\ ready \in [Modes -> BOOLEAN] /\ dlEvent \in [Modes -> BOOLEAN]
        /\ deadline \in [Modes -> Deadlines] /\ own \in [Modes -> Deadlines]
        /\ todo \in [Goroutines -> SUBSET Modes] /\ until \in [Goroutines -> Deadlines]
        /\ packets \in [Modes -> Nat] /\ evicted \in BOOLEAN
        /\ phase \in {"open", "closing", "destroyed"}
    BY Zenon DEF Deadlines
  <2> QED
    BY Zenon, <1>1, <2>1, <2>2, <2>3 DEF TypeOK
<1>3. \A g \in Goroutines : HoldOf(g) /\ OpOf(g)
  BY Zenon DEF HoldOf, OpOf, InExec, InOp, Waiting, Evicting
<1>4. \A m \in Modes : TokenOf(m)
  BY DEF TokenOf
<1>5. Exclusive /\ Evicted
  BY Zenon DEF Exclusive, Evicted, Closing
<1> QED
  BY Zenon, <1>1, <1>2, <1>3, <1>4, <1>5 DEF IInv

\* Every step keeps the invariant.
LEMMA NextInv == IInv /\ [Next]_vars => IInv'
<1> SUFFICES ASSUME IInv, [Next]_vars PROVE IInv'
  BY Zenon
<1>1. CASE UNCHANGED vars
  BY Zenon, <1>1, ApartInv
<1>2. ASSUME NEW g \in Goroutines, Call(g) PROVE IInv'
  BY Zenon, <1>2, CallIOInv, CallCloseInv, CallInv, ApartInv DEF Call, CallRefused
<1>3. ASSUME NEW g \in Goroutines, Step(g) PROVE IInv'
  <2>1. CASE \/ Lock(g) \/ LockFails(g) \/ NoIO(g) \/ Prepare(g) \/ Reset(g) \/ CheckDeadline(g)
             \/ SubmitFails(g) \/ SubmitCompletes(g) \/ SubmitPends(g) \/ Unblocked(g)
    BY Zenon, <2>1, LockInv, LockFailsInv, PrepareInv, ResetInv, SubmitCompletesInv, SubmitPendsInv,
       EventSignalledInv
  <2>2. CASE \/ PollWaitReady(g) \/ PollWaitFails(g) \/ Cancel(g)
             \/ EventSignalled(g) \/ EventTimeout(g) \/ DeadlineSignalled(g) \/ WaitTimesOut(g)
             \/ Result(g) \/ Repeat(g) \/ Unlock(g) \/ UnlockNothing(g)
    BY Zenon, <2>2, PollWaitReadyInv, WaitGoesOnInv, EventSignalledInv, ResultInv, RepeatInv, UnlockInv
  <2>3. CASE \/ CloseInterrupts(g) \/ CloseWakes(g) \/ CloseEvicts(g) \/ CloseDecref(g)
             \/ CloseReturns(g) \/ CloseAbandons(g)
    BY Zenon, <2>3, CloseInterruptsInv, CloseStepsInv
  <2>4. CASE \/ SetPollDeadline(g) \/ (\E m \in Modes : StoreDeadline(g, m)) \/ SignalDeadline(g)
             \/ NoDeadline(g) \/ Unref(g)
    BY Zenon, <2>4, DeadlineStepsInv, UnrefInv
  <2>5. CASE \/ TryLock(g) \/ TryLockFails(g) \/ Disassociate(g) \/ DisassociateFails(g)
    BY Zenon, <2>5, CallInv, UnrefInv, DisassociateInv
  <2> QED
    BY Zenon, <1>3, <2>1, <2>2, <2>3, <2>4, <2>5 DEF Step
<1>4. CASE Destroy
  BY Zenon, <1>4, DestroyInv
<1>5. CASE Kernel
  BY Zenon, <1>5, KernelFinishesInv, NetpollInv, ApartInv DEF Kernel
<1> QED
  BY Zenon, <1>1, <1>2, <1>3, <1>4, <1>5 DEF Next

\* The invariant holds of every FD on Windows, whatever its goroutines do.
THEOREM Invariance == Spec => []IInv
BY InitInv, NextInv, PTL DEF Spec

\* The FD, its operations and its calls keep their types.
THEOREM TypeCorrect == Spec => []TypeOK
<1>1. IInv => TypeOK
  BY Zenon DEF IInv
<1> QED
  BY Invariance, <1>1, PTL

\* execIO returns the OVERLAPPED and the buffers to their pool, and destroy
\* closes the handle, only when the kernel is done with the operation: a
\* deadline, Close or a missing CancelIoEx do not cut that short.
THEOREM MemorySafeFromKernel == Spec => []KernelDoneFirst
<1>1. ASSUME IInv PROVE KernelDoneFirst
  <2> SUFFICES ASSUME NEW g \in Goroutines, io[g] = "pending"
               PROVE  /\ pc[g] \in Waiting \cup {"blocked"}
                      /\ Needs(g) \subseteq hold[g]
                      /\ phase # "destroyed"
    BY Zenon DEF KernelDoneFirst
  <2>1. pc[g] \in Waiting \cup {"blocked"}
    BY Zenon, <1>1 DEF IInv, OpOf, InOp, Over
  <2>2. hold[g] = Needs(g)
    BY Zenon, <1>1, <2>1 DEF IInv, HoldOf, InExec
  <2>3. Needs(g) # {}
    BY Zenon DEF Needs, Modes
  <2> QED
    BY Zenon, <1>1, <2>1, <2>2, <2>3 DEF IInv
<1>2. IInv => KernelDoneFirst
  BY Zenon, <1>1
<1> QED
  BY Invariance, <1>2, PTL

\* waitIO is woken by the completion of its own operation, never by what an
\* operation before it left on the port or in the semaphore.
THEOREM CompletionsMatch == Spec => []NoStaleCompletion
<1>1. IInv => NoStaleCompletion
  BY Zenon DEF IInv, TokenOf, Told, Over, NoStaleCompletion
<1> QED
  BY Invariance, <1>1, PTL

\* execIO never returns ERROR_IO_INCOMPLETE, nor ERROR_OPERATION_ABORTED.
THEOREM CancelsExplained == Spec => []ResultExplained
<1>1. IInv => ResultExplained
  BY Zenon DEF IInv, OpOf, ResultExplained
<1> QED
  BY Invariance, <1>1, PTL

\* When destroy closes the poll descriptor it was evicted, and neither the
\* semaphores nor the port have anything for it.
THEOREM QuietWhenDestroyed == Spec => []DestroyedQuiet
<1>1. ASSUME IInv, phase = "destroyed", OnPoller
      PROVE  evicted /\ \A m \in Modes : ~ready[m] /\ packets[m] = 0
  <2>1. \A g \in Goroutines : hold[g] = {} /\ HoldOf(g)
    BY Zenon, <1>1 DEF IInv
  <2>2. \A g \in Goroutines : Needs(g) # {}
    BY Zenon DEF Needs, Modes
  <2>3. \A g \in Goroutines : pc[g] \notin Evicting \cup Waiting
    BY Zenon, <2>1, <2>2 DEF HoldOf, InExec
  <2>4. evicted
    BY Zenon, <1>1, <2>3 DEF IInv, Evicted, Closing
  <2>5. \A m \in Modes : packets[m] \in Nat /\ ~(ready[m] \/ packets[m] > 0)
    BY Zenon, <1>1, <2>3 DEF IInv, TokenOf, Told, TypeOK
  <2> QED
    BY <2>4, <2>5
<1>2. IInv => DestroyedQuiet
  BY Zenon, <1>1 DEF DestroyedQuiet
<1> QED
  BY Invariance, <1>2, PTL
=============================================================================
