------------------------------ MODULE FDMutex ------------------------------
(***************************************************************************)
(* internal/poll/fd_mutex.go: the fdMutex that manages the lifetime of an  *)
(* FD and serialises its readers and its writers.                          *)
(*                                                                         *)
(* Every method of fdMutex is a loop around a load and a compare-and-swap  *)
(* of the whole state word.  What is read matters only if the swap then    *)
(* succeeds (or the method returns at once), so one turn of the loop is    *)
(* one step.  What a method does after its swap, releasing semaphores and  *)
(* destroying the FD, are separate steps: other goroutines run in between. *)
(***************************************************************************)
EXTENDS Integers, FiniteSets

CONSTANTS Goroutines,  \* the goroutines that share the FD
          MaxRef       \* the largest count a field holds (2^20 - 1 in the code)

ASSUME GoroutinesAssumption == IsFiniteSet(Goroutines)
ASSUME MaxRefAssumption == MaxRef \in Nat \ {0}

VARIABLES
  closed, locked, refs, wait,  \* the fields of fdMutex.state
  sema,       \* the values of rsema and wsema
  op,         \* op[g]: the method of FD goroutine g is in
  pc,         \* pc[g]: where g is in it, or how its last call ended
  hold,       \* hold[g]: the references g has to give back
  post,       \* post[g]: where g goes after the Semrelease of rwunlock
  closeRel,   \* Semreleases increfAndClose has still to do
  destroyed   \* how often FD.destroy was called

state     == <<closed, locked, refs, wait>>
vars      == <<closed, locked, refs, wait, sema, op, pc, hold, post, closeRel, destroyed>>

Dir      == {"r", "w"}
Kind     == Dir \cup {"ref", "close"}
LockOps  == {"read", "write", "rw", "tryrw"}
Returned == {"nil", "errClosing", "busy"}
SemPc    == [r |-> "semr", w |-> "semw"]
PCs      == Returned \cup {"lock", "sleep", "held", "backout", "chk", "semr", "semw",
                           "wake", "destroy", "destroyErr", "overflow", "inconsistent"}

Init ==
  /\ closed = FALSE
  /\ locked = {}
  /\ refs = 0
  /\ wait = [d \in Dir |-> 0]
  /\ sema = [d \in Dir |-> 0]
  /\ op = [g \in Goroutines |-> "none"]
  /\ pc = [g \in Goroutines |-> "nil"]
  /\ hold = [g \in Goroutines |-> {}]
  /\ post = [g \in Goroutines |-> "nil"]
  /\ closeRel = [d \in Dir |-> 0]
  /\ destroyed = 0

Goto(g, l) ==
  /\ pc' = [pc EXCEPT ![g] = l]
  /\ op' = IF l \in Returned THEN [op EXCEPT ![g] = "none"] ELSE op

\* No reference is left and the FD is closed: what decref and rwunlock report.
Last == closed /\ refs' = 0

Take(g, k) ==
  /\ refs' = refs + 1
  /\ hold' = [hold EXCEPT ![g] = @ \cup {k}]

Drop(g, k) ==
  /\ refs' = refs - 1
  /\ hold' = [hold EXCEPT ![g] = @ \ {k}]

----------------------------------------------------------------------------
(* incref and decref *)

\* incref and increfAndClose fail alike, and alike they panic.
IncrefFail(g) ==
  /\ pc[g] \in Returned
  /\ closed
  /\ Goto(g, "errClosing")
  /\ UNCHANGED <<state, sema, hold, post, closeRel, destroyed>>

\* Mutant: incref does not check that the FD is open.
IncrefClosed(g) ==
  /\ pc[g] \in Returned
  /\ refs < MaxRef
  /\ Take(g, "ref")
  /\ op' = [op EXCEPT ![g] = "ref"]
  /\ pc' = [pc EXCEPT ![g] = "held"]
  /\ UNCHANGED <<closed, locked, wait, sema, post, closeRel, destroyed>>

Incref(g) ==
  /\ pc[g] \in Returned
  /\ ~closed
  /\ refs < MaxRef
  /\ Take(g, "ref")
  /\ op' = [op EXCEPT ![g] = "ref"]
  /\ pc' = [pc EXCEPT ![g] = "held"]
  /\ UNCHANGED <<closed, locked, wait, sema, post, closeRel, destroyed>>

IncrefOverflow(g) ==
  /\ pc[g] \in Returned
  /\ ~closed
  /\ refs = MaxRef
  /\ Goto(g, "overflow")
  /\ UNCHANGED <<state, sema, hold, post, closeRel, destroyed>>

Decref(g) ==
  /\ pc[g] = "held"
  /\ op[g] \in {"ref", "close"}
  /\ IF refs = 0
     THEN Goto(g, "inconsistent") /\ UNCHANGED <<refs, hold>>
     ELSE Drop(g, op[g]) /\ Goto(g, IF Last THEN "destroy" ELSE "nil")
  /\ UNCHANGED <<closed, locked, wait, sema, post, closeRel, destroyed>>

----------------------------------------------------------------------------
(* increfAndClose *)

\* Mutant: increfAndClose takes no reference.
CloseWithoutRef(g) ==
  /\ pc[g] \in Returned
  /\ ~closed
  /\ closed' = TRUE
  /\ hold' = [hold EXCEPT ![g] = @ \cup {"close"}]
  /\ wait' = [d \in Dir |-> 0]
  /\ closeRel' = wait
  /\ op' = [op EXCEPT ![g] = "close"]
  /\ pc' = [pc EXCEPT ![g] = "wake"]
  /\ UNCHANGED <<refs, locked, sema, post, destroyed>>

\* Mutant: increfAndClose wakes the waiters but goes on counting them.
CloseKeepsWaiters(g) ==
  /\ pc[g] \in Returned
  /\ ~closed
  /\ refs < MaxRef
  /\ closed' = TRUE
  /\ Take(g, "close")
  /\ closeRel' = wait
  /\ op' = [op EXCEPT ![g] = "close"]
  /\ pc' = [pc EXCEPT ![g] = "wake"]
  /\ UNCHANGED <<locked, wait, sema, post, destroyed>>

\* Mutant: increfAndClose forgets the waiters and wakes nobody.
CloseWakesNobody(g) ==
  /\ pc[g] \in Returned
  /\ ~closed
  /\ refs < MaxRef
  /\ closed' = TRUE
  /\ Take(g, "close")
  /\ wait' = [d \in Dir |-> 0]
  /\ closeRel' = [d \in Dir |-> 0]
  /\ op' = [op EXCEPT ![g] = "close"]
  /\ pc' = [pc EXCEPT ![g] = "wake"]
  /\ UNCHANGED <<locked, sema, post, destroyed>>

IncrefAndClose(g) ==
  /\ pc[g] \in Returned
  /\ ~closed
  /\ refs < MaxRef
  /\ closed' = TRUE
  /\ Take(g, "close")
  /\ wait' = [d \in Dir |-> 0]
  /\ closeRel' = wait
  /\ op' = [op EXCEPT ![g] = "close"]
  /\ pc' = [pc EXCEPT ![g] = "wake"]
  /\ UNCHANGED <<locked, sema, post, destroyed>>

\* The readers are woken first, then the writers.
CloseWake(g) ==
  /\ pc[g] = "wake"
  /\ \E d \in Dir :
       /\ closeRel[d] > 0
       /\ d = "w" => closeRel["r"] = 0
       /\ closeRel' = [closeRel EXCEPT ![d] = @ - 1]
       /\ sema' = [sema EXCEPT ![d] = @ + 1]
  /\ UNCHANGED <<state, op, pc, hold, post, destroyed>>

CloseWoken(g) ==
  /\ pc[g] = "wake"
  /\ \A d \in Dir : closeRel[d] = 0
  /\ Goto(g, "held")
  /\ UNCHANGED <<state, sema, hold, post, closeRel, destroyed>>

----------------------------------------------------------------------------
(* rwlock, and the methods of FD that call it *)

\* readLock, writeLock, readWriteLock and tryReadWriteLock.
Begin(g, o) ==
  /\ pc[g] \in Returned
  /\ op' = [op EXCEPT ![g] = o]
  /\ pc' = [pc EXCEPT ![g] = "lock"]
  /\ UNCHANGED <<state, sema, hold, post, closeRel, destroyed>>

\* The lock g asks for: readWriteLock takes the read lock, then the write lock.
Wanted(g) ==
  IF op[g] = "write" \/ "r" \in hold[g] THEN "w" ELSE "r"

\* rwlock returned false.  A read lock already taken is given back first;
\* tryReadWriteLock then looks again at whether the FD is closing.
FailReturn(g) == IF op[g] = "tryrw" THEN "chk" ELSE "errClosing"

LockFails(g) == Goto(g, IF hold[g] # {} THEN "backout" ELSE FailReturn(g))

LockClosed(g) ==
  /\ pc[g] = "lock"
  /\ closed
  /\ LockFails(g)
  /\ UNCHANGED <<state, sema, hold, post, closeRel, destroyed>>

LockBusy(g) ==
  /\ pc[g] = "lock"
  /\ ~closed
  /\ Wanted(g) \in locked
  /\ op[g] = "tryrw"
  /\ LockFails(g)
  /\ UNCHANGED <<state, sema, hold, post, closeRel, destroyed>>

LockFree(g) ==
  /\ pc[g] = "lock"
  /\ ~closed
  /\ Wanted(g) \notin locked
  /\ refs < MaxRef
  /\ locked' = locked \cup {Wanted(g)}
  /\ Take(g, Wanted(g))
  /\ Goto(g, IF op[g] \in {"rw", "tryrw"} /\ Wanted(g) = "r" THEN "lock" ELSE "held")
  /\ UNCHANGED <<closed, wait, sema, post, closeRel, destroyed>>

LockWait(g) ==
  /\ pc[g] = "lock"
  /\ ~closed
  /\ Wanted(g) \in locked
  /\ op[g] # "tryrw"
  /\ wait[Wanted(g)] < MaxRef
  /\ wait' = [wait EXCEPT ![Wanted(g)] = @ + 1]
  /\ Goto(g, "sleep")
  /\ UNCHANGED <<closed, locked, refs, sema, hold, post, closeRel, destroyed>>

\* The panic leaves everything g has taken as it is.
LockOverflow(g) ==
  /\ pc[g] = "lock"
  /\ ~closed
  /\ IF Wanted(g) \in locked
     THEN op[g] # "tryrw" /\ wait[Wanted(g)] = MaxRef
     ELSE refs = MaxRef
  /\ Goto(g, "overflow")
  /\ UNCHANGED <<state, sema, hold, post, closeRel, destroyed>>

\* runtime_Semacquire returns; rwlock starts over.
Semacquire(g) ==
  /\ pc[g] = "sleep"
  /\ sema[Wanted(g)] > 0
  /\ sema' = [sema EXCEPT ![Wanted(g)] = @ - 1]
  /\ Goto(g, "lock")
  /\ UNCHANGED <<state, hold, post, closeRel, destroyed>>

CheckClosing(g) ==
  /\ pc[g] = "chk"
  /\ Goto(g, IF closed THEN "errClosing" ELSE "busy")
  /\ UNCHANGED <<state, sema, hold, post, closeRel, destroyed>>

----------------------------------------------------------------------------
(* rwunlock, and the methods of FD that call it *)

\* The lock g gives back: readWriteUnlock drops the read lock first.
Dropped(g) == IF "r" \in hold[g] THEN "r" ELSE "w"

\* Mutant: whoever unlocks last does not destroy.
AfterUnlockNeverLast(g) ==
  CASE pc[g] = "backout"                   -> FailReturn(g)
    [] pc[g] = "held" /\ hold[g] = Dir     -> "held"
    [] pc[g] = "held" /\ hold[g] # Dir     -> "nil"

\* Where g goes when rwunlock returns.  readWriteUnlock ignores the result of
\* the first of its two calls.
AfterUnlock(g) ==
  CASE pc[g] = "backout"                   -> IF Last THEN "destroyErr" ELSE FailReturn(g)
    [] pc[g] = "held" /\ hold[g] = Dir     -> "held"
    [] pc[g] = "held" /\ hold[g] # Dir     -> IF Last THEN "destroy" ELSE "nil"

Rwunlock(g) ==
  /\ pc[g] \in {"held", "backout"}
  /\ op[g] \in LockOps
  /\ LET d == Dropped(g) IN
     \/ /\ d \notin locked \/ refs = 0
        /\ Goto(g, "inconsistent")
        /\ UNCHANGED <<locked, refs, wait, hold, post>>
     \/ /\ d \in locked /\ refs > 0
        /\ locked' = locked \ {d}
        /\ Drop(g, d)
        /\ IF wait[d] > 0
           THEN /\ wait' = [wait EXCEPT ![d] = @ - 1]
                /\ post' = [post EXCEPT ![g] = AfterUnlock(g)]
                /\ Goto(g, SemPc[d])
           ELSE /\ Goto(g, AfterUnlock(g))
                /\ UNCHANGED <<wait, post>>
  /\ UNCHANGED <<closed, sema, closeRel, destroyed>>

\* Mutant: rwunlock does not release the semaphore.
SemreleaseSkipped(g) ==
  \E d \in Dir :
    /\ pc[g] = SemPc[d]
    /\ Goto(g, post[g])
    /\ post' = [post EXCEPT ![g] = "nil"]
    /\ UNCHANGED <<state, sema, hold, closeRel, destroyed>>

Semrelease(g) ==
  \E d \in Dir :
    /\ pc[g] = SemPc[d]
    /\ sema' = [sema EXCEPT ![d] = @ + 1]
    /\ Goto(g, post[g])
    /\ post' = [post EXCEPT ![g] = "nil"]
    /\ UNCHANGED <<state, hold, closeRel, destroyed>>

\* FD.destroy, called by whoever gave back the last reference.
Destroy(g) ==
  /\ pc[g] \in {"destroy", "destroyErr"}
  /\ destroyed' = destroyed + 1
  /\ Goto(g, IF pc[g] = "destroy" THEN "nil" ELSE FailReturn(g))
  /\ UNCHANGED <<state, sema, hold, post, closeRel>>

----------------------------------------------------------------------------
\* A call of a method of FD begins when its caller likes; once begun it goes on.
Call(g) ==
  \/ IncrefFail(g) \/ Incref(g) \/ IncrefOverflow(g) \/ IncrefAndClose(g)
  \/ \E o \in LockOps : Begin(g, o)

Step(g) ==
  \/ Decref(g) \/ CloseWake(g) \/ CloseWoken(g)
  \/ LockClosed(g) \/ LockBusy(g) \/ LockFree(g) \/ LockWait(g) \/ LockOverflow(g)
  \/ Semacquire(g) \/ CheckClosing(g)
  \/ Rwunlock(g) \/ Semrelease(g) \/ Destroy(g)

Next == \E g \in Goroutines : Call(g) \/ Step(g)

Spec == Init /\ [][Next]_vars

\* The scheduler runs every goroutine that can run, and every user of the FD
\* in the end gives its reference back (module FDWindows is about when that is so).
Fairness == \A g \in Goroutines : WF_vars(Step(g))

FairSpec == Spec /\ Fairness

----------------------------------------------------------------------------
(* Properties *)

\* The fields of the state word, the semaphores and every goroutine's place in
\* its method stay in range; no count passes the width of its field.
TypeOK ==
  /\ closed \in BOOLEAN
  /\ locked \subseteq Dir
  /\ refs \in 0..MaxRef
  /\ wait \in [Dir -> 0..MaxRef]
  /\ sema \in [Dir -> Nat]
  /\ op \in [Goroutines -> LockOps \cup {"none", "ref", "close"}]
  /\ pc \in [Goroutines -> PCs]
  /\ hold \in [Goroutines -> SUBSET Kind]
  /\ post \in [Goroutines -> PCs]
  /\ closeRel \in [Dir -> Nat]
  /\ destroyed \in Nat

Held == {h \in Goroutines \X Kind : h[2] \in hold[h[1]]}
Sleeping(d) == {g \in Goroutines : pc[g] = "sleep" /\ Wanted(g) = d}
Unlocking(d) == {g \in Goroutines : pc[g] = SemPc[d]}
Woken(d) == {g \in Goroutines : pc[g] = "lock" /\ Wanted(g) = d}

\* The reference count is the number of references goroutines have to give
\* back: no path through readWriteLock, tryReadWriteLock, their failures, a
\* concurrent close or an overflow panic loses or invents one.
RefsCountHolders == refs = Cardinality(Held)

\* A lock bit is set exactly when one goroutine holds that lock, and no two
\* goroutines hold it: rwlock serialises the readers and the writers.
LocksExclusive ==
  \A d \in Dir :
    /\ d \in locked <=> \E g \in Goroutines : d \in hold[g]
    /\ \A g, h \in Goroutines : d \in hold[g] /\ d \in hold[h] => g = h

Destroying == {g \in Goroutines : pc[g] \in {"destroy", "destroyErr"}}

\* destroy is called at most once, after Close, and once it is to be called
\* nobody has a reference: the handle is never closed under an operation's feet.
DestroyedUnused ==
  /\ \A g, h \in Destroying : g = h
  /\ destroyed > 0 => destroyed = 1 /\ Destroying = {}
  /\ destroyed > 0 \/ Destroying # {} => closed /\ \A g \in Goroutines : hold[g] = {}

\* Everyone asleep in rwlock is counted once: as a waiter somebody will signal,
\* or by a semaphore release that is pending or done.  increfAndClose and
\* rwunlock subtract the waiters before they release the semaphores, so this is
\* what keeps a release from being stolen or lost.
SleepersCounted ==
  \A d \in Dir :
    Cardinality(Sleeping(d)) = wait[d] + sema[d] + closeRel[d] + Cardinality(Unlocking(d))

\* Nobody is left asleep at a free lock: if there are waiters and the lock is
\* free, a wakeup is on its way or a goroutine that was woken is about to retry
\* (unless the overflow panic of rwlock ended a goroutine between the two).
NoLostWakeup ==
  \A d \in Dir :
    wait[d] > 0 /\ d \notin locked =>
      \/ sema[d] > 0
      \/ Unlocking(d) \cup Woken(d) # {}
      \/ \E g \in Goroutines : pc[g] = "overflow"

\* The panic "inconsistent poll.fdMutex" of decref and rwunlock never happens.
NeverInconsistent == \A g \in Goroutines : pc[g] # "inconsistent"

\* Close wakes every reader and writer asleep in rwlock, and their calls fail.
CloseFailsWaiters ==
  \A g \in Goroutines :
    closed /\ pc[g] = "sleep" ~> pc[g] = "errClosing"

\* Once closed, the FD is destroyed by whoever leaves last.
CloseDestroys == closed ~> destroyed = 1

\* fdMutex implements the abstract lifetime of an FD.
Lifetime == INSTANCE FDLifetime WITH
  phase <- IF destroyed > 0 THEN "destroyed" ELSE IF closed THEN "closing" ELSE "open"

ImplementsLifetime == Lifetime!LifetimeSpec
=============================================================================
