--------------------------- MODULE PollDescProofs ---------------------------
(***************************************************************************)
(* One pollDesc never makes the runtime throw, loses no wakeup, completion *)
(* or deadline, keeps netpollWaiters right, and implements PollSem: for    *)
(* any set of deadlines and any number of uses of the descriptor.          *)
(*                                                                         *)
(* The inductive invariant has two halves.  SemInv is about rg and wg: who *)
(* is in them, who has been taken out of them and not yet readied, and who *)
(* is about to look.  TimerInv is about the deadlines: which callbacks are *)
(* current, and that a current one was set for the deadlines it expires.   *)
(***************************************************************************)
EXTENDS PollDesc, FiniteSetTheorems, TLAPS

----------------------------------------------------------------------------
(* The semaphores *)

\* Where the goroutine of a mode has no operation.
Away == {"idle", "reset", "submit"}

\* While a goroutine waits, either the kernel has its operation or the
\* completion is in the semaphore; rg and wg hold a goroutine only while it is
\* parked, and pdWait only between netpollblock's two looks.
SemOf(m) ==
  /\ pc[m] \in Away => sem[m] = "nil" /\ ~op[m]
  /\ pc[m] \notin Away => (op[m] <=> sem[m] # "ready")
  /\ pc[m] \in {"wait", "block"} => sem[m] # "wait"
  /\ pc[m] = "parked" => sem[m] # "wait"
  /\ pc[m] # "parked" => sem[m] # "G"

\* A job has modes to unblock while it has the lock, and has taken off
\* netpollWaiters' account as many goroutines as it will ready.
JobOf(j) ==
  /\ job[j].at = "none" => job[j] = NoJob
  /\ job[j].at \in {"unblock", "expire"} <=> lock = j
  /\ lock = j <=> job[j].todo # {}
  /\ job[j].at = "expire" => j = "rt" /\ job[j].todo = {"w"}
  /\ job[j].at = "adjust" => job[j].wake = {}
  /\ job[j].at # "adjust" => job[j].delta = 0 - Cardinality(job[j].wake)

\* A goroutine that is parked and no longer in rg or wg has one job, and only
\* one, that will ready it.
WakeOf(m) ==
  /\ \A j \in Jobs : m \in job[j].wake => pc[m] = "parked" /\ sem[m] # "G"
  /\ \A i, j \in Jobs : m \in job[i].wake /\ m \in job[j].wake => i = j
  /\ pc[m] = "parked" /\ sem[m] # "G" => \E j \in Jobs : m \in job[j].wake

\* A goroutine that has looked, or need not look, and is in rg or wg when its
\* wait should fail, will be taken out by the job that made it fail.
WatchOf(m) ==
  pc[m] \in {"park", "parked"} /\ sem[m] \in {"wait", "G"} /\ Err(m) /\ ~waitio[m] =>
    \E j \in Jobs : m \in job[j].todo

SemInv ==
  /\ TypeOK
  /\ \A m \in Modes : SemOf(m) /\ WakeOf(m) /\ WatchOf(m)
  /\ \A j \in Jobs : JobOf(j)
  /\ ~opened => \A m \in Modes : pc[m] = "idle"
  /\ WaitersAccounted
  /\ ~thrown

----------------------------------------------------------------------------
(* The timers *)

Current(c) == ~Stale(c)

\* A callback that has gone off: it serves a mode or both, and if its sequence
\* number is current the timer's run flag is still set, and it is the only one.
FiredOf(c) ==
  /\ c.modes \in {{"r"}, {"w"}, Modes} /\ c.when \in Instants
  /\ c.seq <= seq[First(c.modes)]
  /\ Current(c) => run[First(c.modes)]
  /\ \A b \in fired : First(b.modes) = First(c.modes) /\ Current(b) /\ Current(c) => b = c

\* A timer that is armed is current, and no callback that has gone off is.
ArmedOf(m) ==
  timer[m] # NoTimer =>
    /\ timer[m].modes = {m} \/ (m = "r" /\ timer[m].modes = Modes)
    /\ timer[m].when \in Instants /\ timer[m].seq = seq[m]
    /\ run[m]
    /\ \A c \in fired : First(c.modes) = m => Stale(c)

\* A job unblocks a mode whose wait should fail.  The callback that serves both
\* modes found both deadlines on its instant, and expires the write deadline
\* when it has unblocked the reader.
ExpiryOf ==
  /\ \A j \in Jobs : job[j].at = "unblock" =>
       \A m \in job[j].todo : dl[m] < 0 \/ closing \/ (j = "rt" /\ m = "w" /\ "r" \in job[j].todo)
  /\ "w" \in job["rt"].todo => dl["r"] < 0 /\ ~run["w"] /\ ~closing
  /\ "w" \in job["rt"].todo /\ (job["rt"].at = "expire" \/ "r" \in job["rt"].todo) => dl["w"] > 0

TimerInv ==
  /\ \A c \in fired : FiredOf(c)
  /\ \A m \in Modes : ArmedOf(m)
  /\ closing \/ ~opened => \A m \in Modes : ~run[m]
  /\ ~closing /\ ~opened => \A m \in Modes : dl[m] = 0
  /\ Combo(dl) => ~run["w"]
  /\ ExpiryOf
  /\ SeqMatchesDeadline
  /\ DeadlineArmed

IInv == SemInv /\ TimerInv

----------------------------------------------------------------------------
(* Counting *)

\* How many of the two modes are in S.
Size(S) == (IF "r" \in S THEN 1 ELSE 0) + (IF "w" \in S THEN 1 ELSE 0)

\* The size of a set of modes is a number, and one more mode is one more.
LEMMA SizeGrows ==
  /\ \A S : Size(S) \in Int
  /\ \A S : \A m \in Modes \ S : Size(S \cup {m}) - Size(S) = 1
BY DEF Size, Modes

\* A sequence number stays below one that has not gone back.
LEMMA StillBelow ==
  ASSUME NEW x \in Nat, NEW y \in Nat, NEW z \in Nat, x <= y, z >= y
  PROVE  x <= z
OBVIOUS

\* Cardinality of a set of modes.
LEMMA SizeIsCardinality ==
  ASSUME NEW S \in SUBSET Modes
  PROVE  Cardinality(S) = Size(S)
<1>1. S \in {{}, {"r"}, {"w"}, {"r", "w"}}
  BY Zenon DEF Modes
<1>2. Cardinality({}) = 0 /\ IsFiniteSet({})
  BY Zenon, FS_EmptySet
<1>3. Cardinality({"r"}) = 1 /\ Cardinality({"w"}) = 1 /\ IsFiniteSet({"r"})
  BY Zenon, FS_Singleton
<1>4. Cardinality({"r"} \cup {"w"}) = Cardinality({"r"}) + 1
  BY Zenon, <1>3, FS_AddElement
<1>5. {"r"} \cup {"w"} = {"r", "w"}
  BY Zenon
<1> QED
  BY <1>1, <1>2, <1>3, <1>4, <1>5 DEF Size

Deltas == job["set"].delta + job["close"].delta + job["rt"].delta + job["wt"].delta
            + job["poll1"].delta + job["poll2"].delta

InSem == {m \in Modes : sem[m] = "G"}

\* netpollWaiters stays right when a goroutine enters or leaves rg or wg, if the
\* increments and decrements under way change with it.
LEMMA AccountKept ==
  ASSUME TypeOK, TypeOK', WaitersAccounted,
         waiters' + bump'["r"] + bump'["w"] + Deltas' - (waiters + bump["r"] + bump["w"] + Deltas)
           = Size(InSem') - Size(InSem)
  PROVE  WaitersAccounted'
<1>1. InSem \in SUBSET Modes /\ InSem' \in SUBSET Modes
  BY Zenon DEF InSem
<1>2. Cardinality(InSem) = Size(InSem) /\ Cardinality(InSem') = Size(InSem')
  BY Zenon, <1>1, SizeIsCardinality
<1>3. Size(InSem) \in Int /\ Size(InSem') \in Int
  BY DEF Size
<1>4. Deltas \in Int /\ Deltas' \in Int
  BY DEF TypeOK, Deltas, Jobs, JobType
<1>5. bump["r"] \in Int /\ bump["w"] \in Int /\ waiters \in Int
  BY DEF TypeOK, Modes
<1>6. bump'["r"] \in Int /\ bump'["w"] \in Int /\ waiters' \in Int
  BY DEF TypeOK, Modes
<1>7. waiters + bump["r"] + bump["w"] + Deltas = Size(InSem)
  BY <1>2, <1>4, <1>5 DEF WaitersAccounted, InSem, Deltas, TypeOK, Jobs, JobType
<1>8. waiters' + bump'["r"] + bump'["w"] + Deltas' = Size(InSem')
  BY <1>3, <1>4, <1>5, <1>6, <1>7
<1> QED
  BY <1>2, <1>4, <1>6, <1>8 DEF WaitersAccounted, InSem, Deltas, TypeOK, Jobs, JobType

\* What a change of one job does to the sum.
LEMMA DeltasOf ==
  ASSUME TypeOK, NEW j \in Jobs, job'[j].delta \in Int, job' = [job EXCEPT ![j] = job'[j]]
  PROVE  Deltas' = Deltas - job[j].delta + job'[j].delta
BY DEF Deltas, TypeOK, Jobs, JobType

----------------------------------------------------------------------------
(* The steps of a goroutine keep SemInv *)

\* A step of the goroutine of mode m, which owns what it changes.
OwnStep(m) ==
  /\ UNCHANGED <<fields, fired, lock, job, thrown>>
  /\ \A n \in Modes \ {m} :
       pc'[n] = pc[n] /\ sem'[n] = sem[n] /\ op'[n] = op[n] /\ waitio'[n] = waitio[n]
  /\ pc[m] # "idle" \/ opened

\* Such a step need only keep what the invariant says about m.
LEMMA OwnStepInv ==
  ASSUME SemInv, NEW m \in Modes, OwnStep(m), TypeOK', WaitersAccounted',
         SemOf(m)', WakeOf(m)', WatchOf(m)'
  PROVE  SemInv'
<1>1. ASSUME NEW n \in Modes \ {m}
      PROVE  SemOf(n)' /\ WakeOf(n)' /\ WatchOf(n)'
  <2>1. SemOf(n)'
    BY Zenon, <1>1 DEF SemInv, OwnStep, SemOf, Err, fields
  <2>2. WakeOf(n)'
    BY ZenonT(60), <1>1 DEF SemInv, OwnStep, WakeOf, Err, fields
  <2>3. WatchOf(n)'
    BY Zenon, <1>1 DEF SemInv, OwnStep, WatchOf, Err, fields
  <2> QED
    BY Zenon, <2>1, <2>2, <2>3
<1>2. \A j \in Jobs : JobOf(j)'
  BY ZenonT(60) DEF SemInv, OwnStep, JobOf
<1>3. ~opened' => \A n \in Modes : pc'[n] = "idle"
  BY Zenon DEF SemInv, OwnStep, fields
<1> QED
  BY Zenon, <1>1, <1>2, <1>3 DEF SemInv, OwnStep

\* A goroutine that neither was parked nor is has nobody to ready it.
LEMMA NotParked ==
  ASSUME SemInv, NEW m \in Modes, UNCHANGED job, pc[m] # "parked", pc'[m] # "parked"
  PROVE  WakeOf(m)'
BY Zenon DEF SemInv, WakeOf

\* The account when nobody enters or leaves rg or wg.
LEMMA AccountSame ==
  ASSUME WaitersAccounted, TypeOK, TypeOK', UNCHANGED <<waiters, bump, job>>,
         \A m \in Modes : sem'[m] = "G" <=> sem[m] = "G"
  PROVE  WaitersAccounted'
<1>1. InSem' = InSem
  BY Zenon DEF InSem
<1> QED
  BY Zenon, <1>1 DEF WaitersAccounted, InSem

\* pollReset's check.
LEMMA ResetCheckSem ==
  ASSUME SemInv, NEW m \in Modes, ResetCheck(m)
  PROVE  SemInv'
<1>1. TypeOK'
  BY Zenon DEF SemInv, TypeOK, ResetCheck, Goto, fields
<1>2. OwnStep(m)
  BY ZenonT(60) DEF ResetCheck, Goto, OwnStep, fields, SemInv, TypeOK
<1>3. SemOf(m)' /\ WatchOf(m)' /\ pc[m] # "parked" /\ pc'[m] # "parked"
  BY Zenon DEF SemInv, SemOf, WatchOf, ResetCheck, Goto, Away, TypeOK
<1>4. WakeOf(m)'
  BY Zenon, <1>3, NotParked DEF ResetCheck
<1>5. WaitersAccounted'
  BY Zenon, <1>1, AccountSame DEF SemInv, ResetCheck
<1> QED
  BY Zenon, <1>1, <1>2, <1>3, <1>4, <1>5, OwnStepInv

\* pollReset's store, when rg or wg is empty already.
LEMMA ResetStoreSem ==
  ASSUME SemInv, NEW m \in Modes, ResetStore(m)
  PROVE  SemInv'
<1>1. TypeOK'
  BY Zenon DEF SemInv, TypeOK, ResetStore, Goto, fields
<1>2. OwnStep(m)
  BY Zenon DEF ResetStore, Goto, OwnStep, fields, SemInv, TypeOK
<1>3. SemOf(m)' /\ WatchOf(m)' /\ pc[m] # "parked" /\ pc'[m] # "parked"
  BY Zenon DEF SemInv, SemOf, WatchOf, ResetStore, Goto, Away, TypeOK
<1>4. WakeOf(m)'
  BY Zenon, <1>3, NotParked DEF ResetStore
<1>5. sem' = sem
  BY Zenon DEF SemInv, SemOf, TypeOK, ResetStore, Away
<1>6. WaitersAccounted'
  BY Zenon, <1>1, <1>5, AccountSame DEF SemInv, ResetStore
<1> QED
  BY Zenon, <1>1, <1>2, <1>3, <1>4, <1>6, OwnStepInv

\* The operation is started, or fails.
LEMMA SubmitSem ==
  ASSUME SemInv, NEW m \in Modes, Submit(m)
  PROVE  SemInv'
<1>1. TypeOK'
  BY Zenon DEF SemInv, TypeOK, Submit, Goto, fields
<1>2. OwnStep(m)
  BY Zenon DEF Submit, Goto, OwnStep, fields, SemInv, TypeOK
<1>3. SemOf(m)' /\ WatchOf(m)' /\ pc[m] # "parked" /\ pc'[m] # "parked"
  BY ZenonT(60) DEF SemInv, SemOf, WatchOf, Submit, Goto, Away, TypeOK
<1>4. WakeOf(m)'
  BY Zenon, <1>3, NotParked DEF Submit
<1>5. WaitersAccounted'
  BY Zenon, <1>1, AccountSame DEF SemInv, Submit
<1> QED
  BY Zenon, <1>1, <1>2, <1>3, <1>4, <1>5, OwnStepInv

\* netpollcheckerr in pollWait.
LEMMA WaitCheckSem ==
  ASSUME SemInv, NEW m \in Modes, WaitCheck(m)
  PROVE  SemInv'
<1>1. TypeOK'
  BY Zenon DEF SemInv, TypeOK, WaitCheck, Goto, fields, Err
<1>2. OwnStep(m)
  BY Zenon DEF WaitCheck, Goto, OwnStep, fields, SemInv, TypeOK
<1>3. SemOf(m)' /\ WatchOf(m)' /\ pc[m] # "parked" /\ pc'[m] # "parked"
  BY Zenon DEF SemInv, SemOf, WatchOf, WaitCheck, Goto, Away, TypeOK
<1>4. WakeOf(m)'
  BY Zenon, <1>3, NotParked DEF WaitCheck
<1>5. WaitersAccounted'
  BY Zenon, <1>1, AccountSame DEF SemInv, WaitCheck
<1> QED
  BY Zenon, <1>1, <1>2, <1>3, <1>4, <1>5, OwnStepInv

\* netpollblock consumes a completion or says that it will wait; it never finds
\* another waiter.
LEMMA BlockSem ==
  ASSUME SemInv, NEW m \in Modes, Block(m)
  PROVE  SemInv'
<1>1. sem[m] \in {"ready", "nil"} /\ pc[m] = "block"
  BY Zenon DEF SemInv, SemOf, TypeOK, Block
<1>2. TypeOK'
  BY Zenon, <1>1 DEF SemInv, TypeOK, Block, Consumed, Goto, fields
<1>3. OwnStep(m)
  BY ZenonT(60), <1>1 DEF Block, Consumed, Goto, OwnStep, fields, SemInv, TypeOK
<1>4. SemOf(m)' /\ WatchOf(m)' /\ pc'[m] # "parked" /\ UNCHANGED <<job, waiters, bump>>
  BY <1>1 DEF SemInv, SemOf, WatchOf, Block, Consumed, Goto, Away, TypeOK
<1>5. WakeOf(m)'
  BY Zenon, <1>1, <1>4, NotParked
<1>6. \A n \in Modes : sem'[n] = "G" <=> sem[n] = "G"
  BY Zenon, <1>1 DEF Block, SemInv, TypeOK
<1>7. WaitersAccounted'
  BY Zenon, <1>2, <1>4, <1>6, AccountSame DEF SemInv
<1> QED
  BY Zenon, <1>2, <1>3, <1>4, <1>5, <1>7, OwnStepInv

\* netpollblock looks again.
LEMMA RecheckSem ==
  ASSUME SemInv, NEW m \in Modes, Recheck(m)
  PROVE  SemInv'
<1>1. TypeOK'
  BY Zenon DEF SemInv, TypeOK, Recheck, Goto, fields
<1>2. OwnStep(m)
  BY Zenon DEF Recheck, Goto, OwnStep, fields, SemInv, TypeOK
<1>3. SemOf(m)' /\ WatchOf(m)' /\ pc[m] # "parked" /\ pc'[m] # "parked"
  BY Zenon DEF SemInv, SemOf, WatchOf, Recheck, Goto, Away, TypeOK, Err, fields
<1>4. WakeOf(m)'
  BY Zenon, <1>3, NotParked DEF Recheck
<1>5. WaitersAccounted'
  BY Zenon, <1>1, AccountSame DEF SemInv, Recheck
<1> QED
  BY Zenon, <1>1, <1>2, <1>3, <1>4, <1>5, OwnStepInv

\* netpollblockcommit.
LEMMA ParkSem ==
  ASSUME SemInv, NEW m \in Modes, Park(m)
  PROVE  SemInv'
<1>1. TypeOK'
  BY DEF SemInv, TypeOK, Park, Goto, fields
<1>2. OwnStep(m)
  BY Zenon DEF Park, Goto, OwnStep, fields, SemInv, TypeOK
<1>3. SemOf(m)' /\ WatchOf(m)'
  BY DEF SemInv, SemOf, WatchOf, Park, Goto, Away, TypeOK, Err, fields
<1>4. WakeOf(m)'
  BY ZenonT(60) DEF SemInv, WakeOf, Park, Goto, TypeOK
<1>5. WaitersAccounted'
  <2>1. CASE sem[m] = "wait"
    <3>1. /\ bump' = [bump EXCEPT ![m] = @ + 1] /\ sem' = [sem EXCEPT ![m] = "G"]
          /\ UNCHANGED <<waiters, job>>
      BY Zenon, <2>1 DEF Park
    <3>2. Size(InSem') - Size(InSem) = 1
      BY <2>1, <3>1 DEF Size, InSem, Modes, SemInv, TypeOK
    <3>3. Deltas' = Deltas /\ Deltas \in Int
      BY <3>1 DEF Deltas, SemInv, TypeOK, Jobs, JobType
    <3>4. waiters' + bump'["r"] + bump'["w"] + Deltas'
            - (waiters + bump["r"] + bump["w"] + Deltas) = 1
      BY <3>1, <3>3 DEF SemInv, TypeOK, Modes
    <3> QED
      BY Zenon, <1>1, <3>2, <3>4, AccountKept DEF SemInv
  <2>2. CASE sem[m] # "wait"
    BY Zenon, <1>1, <2>2, AccountSame DEF SemInv, Park
  <2> QED
    BY Zenon, <2>1, <2>2
<1> QED
  BY ZenonT(60), <1>1, <1>2, <1>3, <1>4, <1>5, OwnStepInv

\* netpollAdjustWaiters(1).
LEMMA BumpSem ==
  ASSUME SemInv, NEW m \in Modes, Bump(m)
  PROVE  SemInv'
<1>1. TypeOK'
  BY DEF SemInv, TypeOK, Bump, fields
<1>2. /\ bump' = [bump EXCEPT ![m] = @ - 1] /\ waiters' = waiters + 1
      /\ UNCHANGED <<fields, sem, job, lock, pc, waitio, op, thrown>>
  BY Zenon DEF Bump
<1>3. WaitersAccounted'
  <2>1. InSem' = InSem /\ Size(InSem) \in Int
    BY <1>2 DEF InSem, Size
  <2>2. Deltas' = Deltas /\ Deltas \in Int
    BY <1>2 DEF Deltas, SemInv, TypeOK, Jobs, JobType
  <2>3. waiters' + bump'["r"] + bump'["w"] + Deltas'
          - (waiters + bump["r"] + bump["w"] + Deltas) = 0
    BY <1>2, <2>2 DEF SemInv, TypeOK, Modes
  <2>4. Size(InSem') - Size(InSem) = 0
    BY <2>1
  <2> QED
    BY Zenon, <1>1, <2>3, <2>4, AccountKept DEF SemInv
<1>4. \A n \in Modes : SemOf(n)' /\ WakeOf(n)' /\ WatchOf(n)'
  BY Zenon, <1>2 DEF SemInv, SemOf, WakeOf, WatchOf, Err, fields
<1>5. \A j \in Jobs : JobOf(j)'
  BY Zenon, <1>2 DEF SemInv, JobOf
<1> QED
  BY Zenon, <1>1, <1>2, <1>3, <1>4, <1>5 DEF SemInv, fields

\* netpollblock's last swap, which never finds a goroutine.
LEMMA SwapSem ==
  ASSUME SemInv, NEW m \in Modes, Swap(m)
  PROVE  SemInv'
<1>1. sem[m] # "G" /\ pc[m] = "swap"
  BY Zenon DEF SemInv, SemOf, Swap
<1>2. TypeOK'
  BY Zenon, <1>1 DEF SemInv, TypeOK, Swap, Consumed, Goto, fields
<1>3. OwnStep(m)
  BY ZenonT(60), <1>1 DEF Swap, Consumed, Goto, OwnStep, fields, SemInv, TypeOK
<1>4. SemOf(m)' /\ WatchOf(m)' /\ pc'[m] # "parked" /\ UNCHANGED <<job, waiters, bump>>
  BY <1>1 DEF SemInv, SemOf, WatchOf, Swap, Consumed, Goto, Away, TypeOK
<1>5. WakeOf(m)'
  BY Zenon, <1>1, <1>4, NotParked
<1>6. \A n \in Modes : sem'[n] = "G" <=> sem[n] = "G"
  BY Zenon, <1>1 DEF Swap, SemInv, TypeOK
<1>7. WaitersAccounted'
  BY Zenon, <1>2, <1>4, <1>6, AccountSame DEF SemInv
<1> QED
  BY Zenon, <1>2, <1>3, <1>4, <1>5, <1>7, OwnStepInv

----------------------------------------------------------------------------
(* The steps of the poller's callers keep SemInv *)

\* What a job that unblocks m becomes.
LEMMA UnblockedJob ==
  ASSUME SemInv, NEW j \in Jobs, Unblock(j), NEW m, m = First(job[j].todo)
  PROVE  /\ lock = j /\ m \in job[j].todo /\ m \in Modes
         /\ job' = [job EXCEPT ![j] = job'[j]] /\ job'[j] \in JobType
         /\ job'[j].todo = job[j].todo \ {m}
         /\ job'[j].wake = job[j].wake \cup Parked(m)
         /\ job'[j].delta = 0 - Size(job'[j].wake)
         /\ job[j].delta = 0 - Size(job[j].wake)
         /\ job'[j].at # "adjust" /\ (job'[j].at = "none" => job'[j] = NoJob)
         /\ job'[j].at \in {"unblock", "expire"} <=> job'[j].todo # {}
         /\ job'[j].at = "expire" => j = "rt" /\ job'[j].todo = {"w"}
         /\ lock' = IF job'[j].todo = {} THEN "free" ELSE lock
         /\ sem' = [sem EXCEPT ![m] = IF sem[m] = "ready" THEN "ready" ELSE "nil"]
<1> DEFINE left == job[j].todo \ {m}
           wake == job[j].wake \cup Parked(m)
<1>1. job[j] \in JobType /\ job[j].at = "unblock" /\ lock = j /\ JobOf(j)
  BY Zenon DEF SemInv, TypeOK, JobOf, Unblock
<1>2. job[j].todo # {} /\ job[j].todo \in SUBSET Modes /\ job[j].wake \in SUBSET Modes
  BY Zenon, <1>1 DEF JobOf, JobType
<1>3. m \in job[j].todo /\ m \in Modes
  BY Zenon, <1>2 DEF First, Modes
<1>4. wake \in SUBSET Modes /\ left \in SUBSET Modes
  BY Zenon, <1>2, <1>3 DEF Parked
<1>5. Cardinality(wake) = Size(wake) /\ Cardinality(job[j].wake) = Size(job[j].wake)
  BY Zenon, <1>2, <1>4, SizeIsCardinality
<1>6. 0 - Size(wake) \in Int /\ Size({}) = 0
  BY DEF Size
<1> DEFINE next == IF left = {} THEN Rest(wake)
                   ELSE [at |-> IF j = "rt" THEN "expire" ELSE "unblock", todo |-> left,
                         wake |-> wake, delta |-> 0 - Cardinality(wake)]
<1>7. job' = [job EXCEPT ![j] = next]
  BY Zenon DEF Unblock
<1>8. job'[j] = next
  BY ZenonT(60), <1>7 DEF SemInv, TypeOK
<1>9. /\ next \in JobType /\ next.todo = left /\ next.wake = wake /\ next.delta = 0 - Size(wake)
      /\ next.at # "adjust" /\ (next.at = "none" => next = NoJob)
      /\ next.at \in {"unblock", "expire"} <=> left # {}
      /\ next.at = "expire" => j = "rt" /\ left # {}
  <2>1. CASE left = {} /\ wake = {}
    <3>1. next = NoJob /\ Size(wake) = 0
      BY Zenon, <2>1, <1>6 DEF Rest
    <3> HIDE DEF next, left, wake
    <3> QED
      BY <2>1, <3>1 DEF NoJob, JobType
  <2>2. CASE left = {} /\ wake # {}
    BY Zenon, <2>2, <1>4, <1>5, <1>6 DEF Rest, NoJob, JobType
  <2>3. CASE left # {}
    <3> DEFINE l == IF j = "rt" THEN "expire" ELSE "unblock"
    <3>1. next = [at |-> l, todo |-> left, wake |-> wake, delta |-> 0 - Size(wake)]
      BY Zenon, <2>3, <1>5
    <3>2. l \in {"expire", "unblock"} /\ (l = "expire" => j = "rt")
      BY Zenon
    <3> HIDE DEF l, next, left, wake
    <3> QED
      BY Zenon, <2>3, <3>1, <3>2, <1>4, <1>6 DEF JobType
  <2> QED
    BY Zenon, <2>1, <2>2, <2>3
<1>10. left # {} => left = {"w"}
  BY Zenon, <1>2, <1>3 DEF First, Modes
<1>11. /\ lock' = (IF left = {} THEN "free" ELSE lock)
       /\ sem' = [sem EXCEPT ![m] = IF sem[m] = "ready" THEN "ready" ELSE "nil"]
  BY Zenon DEF Unblock, Unblocked
<1>12. job[j].delta = 0 - Size(job[j].wake)
  BY Zenon, <1>1, <1>5 DEF JobOf
<1> QED
  BY ZenonT(60), <1>1, <1>3, <1>7, <1>8, <1>9, <1>10, <1>11, <1>12

\* The jobs after one of them changed and keeps the lock or lets it go.
LEMMA OtherJobs ==
  ASSUME SemInv, NEW j \in Jobs, job' = [job EXCEPT ![j] = job'[j]],
         lock = j \/ lock = "free", lock' = j \/ lock' = "free"
  PROVE  \A k \in Jobs \ {j} : JobOf(k)'
<1>1. "free" \notin Jobs
  BY Zenon DEF Jobs
<1> QED
  BY <1>1 DEF SemInv, TypeOK, JobOf

\* netpollunblock(pd, mode, false), and the unlock after the last.
LEMMA UnblockSem ==
  ASSUME SemInv, NEW j \in Jobs, Unblock(j)
  PROVE  SemInv'
<1> PICK m : m = First(job[j].todo)
  BY Zenon
<1>1. /\ lock = j /\ m \in job[j].todo /\ m \in Modes
      /\ job' = [job EXCEPT ![j] = job'[j]] /\ job'[j] \in JobType
      /\ job'[j].todo = job[j].todo \ {m}
      /\ job'[j].wake = job[j].wake \cup Parked(m)
      /\ job'[j].delta = 0 - Size(job'[j].wake)
      /\ job[j].delta = 0 - Size(job[j].wake)
      /\ job'[j].at # "adjust" /\ (job'[j].at = "none" => job'[j] = NoJob)
      /\ job'[j].at \in {"unblock", "expire"} <=> job'[j].todo # {}
      /\ job'[j].at = "expire" => j = "rt" /\ job'[j].todo = {"w"}
      /\ lock' = IF job'[j].todo = {} THEN "free" ELSE lock
      /\ sem' = [sem EXCEPT ![m] = IF sem[m] = "ready" THEN "ready" ELSE "nil"]
  BY ZenonT(60), UnblockedJob
<1>2. UNCHANGED <<fields, fired, pc, waitio, op, waiters, bump, thrown>>
  BY Zenon DEF Unblock
<1>3. TypeOK'
  BY SMTT(20), <1>1, <1>2 DEF SemInv, TypeOK, fields
<1>4. \A k \in Jobs : JobOf(k)'
  <2>1. \A k \in Jobs \ {j} : JobOf(k)'
    BY Zenon, <1>1, OtherJobs
  <2>2. Cardinality(job'[j].wake) = Size(job'[j].wake)
    BY Zenon, <1>1, SizeIsCardinality DEF JobType
  <2>3. JobOf(j)'
    BY Zenon, <1>1, <2>2 DEF JobOf, Jobs
  <2> QED
    BY Zenon, <2>1, <2>3
<1>5. \A n \in Modes : SemOf(n)'
  BY ZenonT(60), <1>1, <1>2 DEF SemInv, SemOf, TypeOK, Away
<1>6. \A n \in Modes \ {m} : WakeOf(n)'
  BY SMTT(30), <1>1, <1>2 DEF SemInv, WakeOf, TypeOK, Parked
<1>7. WakeOf(m)'
  <2>0. /\ WakeOf(m) /\ sem'[m] # "G" /\ pc'[m] = pc[m]
        /\ \A k \in Jobs \ {j} : job'[k] = job[k]
    BY <1>1, <1>2 DEF SemInv, TypeOK
  <2>1. CASE sem[m] = "G"
    <3>1. pc[m] = "parked" /\ \A k \in Jobs : m \notin job[k].wake
      BY Zenon, <1>1, <2>1 DEF SemInv, SemOf, WakeOf
    <3>2. m \in job'[j].wake /\ \A k \in Jobs \ {j} : m \notin job'[k].wake
      BY Zenon, <1>1, <2>0, <2>1, <3>1 DEF Parked
    <3> QED
      BY Zenon, <2>0, <3>1, <3>2 DEF WakeOf
  <2>2. CASE sem[m] # "G"
    <3>1. \A k \in Jobs : m \in job'[k].wake <=> m \in job[k].wake
      BY Zenon, <1>1, <2>0, <2>2 DEF Parked
    <3> QED
      BY Zenon, <2>0, <2>2, <3>1 DEF WakeOf
  <2> QED
    BY Zenon, <2>1, <2>2
<1>8. \A n \in Modes : WatchOf(n)'
  <2>1. WatchOf(m)'
    BY Zenon, <1>1 DEF WatchOf, SemInv, TypeOK
  <2>2. ASSUME NEW n \in Modes \ {m}
        PROVE  WatchOf(n)'
    <3>1. \A k \in Jobs : n \in job[k].todo => n \in job'[k].todo
      BY <1>1 DEF SemInv, TypeOK
    <3> QED
      BY ZenonT(60), <1>1, <1>2, <3>1 DEF SemInv, WatchOf, TypeOK, Err, fields
  <2> QED
    BY Zenon, <2>1, <2>2
<1>9. WaitersAccounted'
  <2>1. Deltas' = Deltas - job[j].delta + job'[j].delta
    BY Zenon, <1>1, DeltasOf DEF SemInv, JobType
  <2>2. sem[m] = "G" => m \notin job[j].wake
    BY ZenonT(60), <1>1 DEF SemInv, WakeOf
  <2>3. Size(InSem') - Size(InSem) = IF sem[m] = "G" THEN -1 ELSE 0
    BY SMTT(30), <1>1 DEF Size, InSem, Modes, SemInv, TypeOK
  <2>4. Size(job'[j].wake) - Size(job[j].wake) = IF sem[m] = "G" THEN 1 ELSE 0
    <3>1. CASE sem[m] = "G"
      <4>1. job'[j].wake = job[j].wake \cup {m} /\ m \in Modes \ job[j].wake
        BY Zenon, <1>1, <2>2, <3>1 DEF Parked
      <4> QED
        BY Zenon, <3>1, <4>1, SizeGrows
    <3>2. CASE sem[m] # "G"
      <4>1. job'[j].wake = job[j].wake
        BY Zenon, <1>1, <3>2 DEF Parked
      <4>2. Size(job[j].wake) - Size(job[j].wake) = 0
        BY SizeGrows
      <4> QED
        BY Zenon, <3>2, <4>1, <4>2
    <3> QED
      BY Zenon, <3>1, <3>2
  <2>5. Deltas \in Int /\ Size(job[j].wake) \in Int /\ Size(job'[j].wake) \in Int
    BY DEF Deltas, SemInv, TypeOK, Jobs, JobType, Size
  <2>6. Deltas' - Deltas = Size(InSem') - Size(InSem)
    BY <1>1, <2>1, <2>3, <2>4, <2>5
  <2>7. Size(InSem') \in Int /\ Size(InSem) \in Int
    BY DEF Size
  <2>8. waiters + bump["r"] + bump["w"] \in Int
    BY DEF SemInv, TypeOK, Modes
  <2>9. waiters' + bump'["r"] + bump'["w"] + Deltas'
          - (waiters + bump["r"] + bump["w"] + Deltas) = Size(InSem') - Size(InSem)
    BY <1>2, <2>1, <1>1, <2>5, <2>6, <2>7, <2>8
  <2> QED
    BY Zenon, <1>3, <2>9, AccountKept DEF SemInv
<1> QED
  BY Zenon, <1>2, <1>3, <1>4, <1>5, <1>6, <1>7, <1>8, <1>9 DEF SemInv, fields

\* The goroutines that were taken out are made ready.
LEMMA GoreadySem ==
  ASSUME SemInv, NEW j \in Jobs, Goready(j)
  PROVE  SemInv'
<1>1. /\ job[j].at = "ready" /\ lock # j /\ job[j] \in JobType
      /\ UNCHANGED <<fields, sem, fired, lock, waitio, op, waiters, bump, thrown>>
      /\ pc' = [m \in Modes |-> IF m \in job[j].wake THEN "swap" ELSE pc[m]]
  BY Zenon DEF SemInv, TypeOK, JobOf, Goready
<1>2. /\ job' = [job EXCEPT ![j] = job'[j]] /\ job'[j].at = "adjust" /\ job'[j].wake = {}
      /\ job'[j].todo = job[j].todo /\ job'[j].delta = job[j].delta /\ job'[j] \in JobType
  <2>1. /\ job \in [Jobs -> JobType]
        /\ job' = [job EXCEPT ![j] = [job[j] EXCEPT !.at = "adjust", !.wake = {}]]
    BY Zenon DEF Goready, SemInv, TypeOK
  <2> QED
    BY Zenon, <1>1, <2>1 DEF JobType
<1>3. TypeOK'
  BY <1>1, <1>2 DEF SemInv, TypeOK, fields
<1>4. \A k \in Jobs : JobOf(k)'
  BY <1>1, <1>2 DEF SemInv, TypeOK, JobOf
<1>5. \A m \in Modes : SemOf(m)'
  BY Zenon, <1>1 DEF SemInv, SemOf, WakeOf, Away
<1>6. ASSUME NEW m \in Modes PROVE WakeOf(m)'
  <2>1. WakeOf(m) /\ job \in [Jobs -> JobType]
    BY Zenon DEF SemInv, TypeOK
  <2>2. \A k \in Jobs \ {j} : job'[k] = job[k]
    BY Zenon, <1>2, <2>1
  <2>3. CASE m \in job[j].wake
    <3>1. \A k \in Jobs : m \notin job'[k].wake
      BY Zenon, <1>2, <2>1, <2>2, <2>3 DEF WakeOf
    <3> QED
      BY Zenon, <1>1, <2>3, <3>1 DEF WakeOf
  <2>4. CASE m \notin job[j].wake
    <3>1. \A k \in Jobs : m \in job'[k].wake <=> m \in job[k].wake
      BY Zenon, <1>2, <2>2, <2>4
    <3>2. pc'[m] = pc[m] /\ sem'[m] = sem[m]
      BY Zenon, <1>1, <2>4
    <3> QED
      BY Zenon, <2>1, <3>1, <3>2 DEF WakeOf
  <2> QED
    BY Zenon, <2>3, <2>4
<1>7. \A m \in Modes : WatchOf(m)'
  BY ZenonT(60), <1>1, <1>2 DEF SemInv, WatchOf, TypeOK, Err, fields
<1>8. WaitersAccounted'
  <2>1. \A k \in Jobs : job'[k].delta = job[k].delta
    BY ZenonT(60), <1>2 DEF SemInv, TypeOK
  <2> QED
    BY Zenon, <1>1, <2>1 DEF SemInv, WaitersAccounted, Jobs
<1> QED
  BY Zenon, <1>1, <1>3, <1>4, <1>5, <1>6, <1>7, <1>8 DEF SemInv, fields, WakeOf

\* netpollAdjustWaiters(delta).
LEMMA AdjustWaitersSem ==
  ASSUME SemInv, NEW j \in Jobs, AdjustWaiters(j)
  PROVE  SemInv'
<1>1. /\ job[j].at = "adjust" /\ lock # j /\ job[j] \in JobType
      /\ job[j].wake = {} /\ job[j].todo = {}
      /\ UNCHANGED <<fields, sem, fired, lock, pc, waitio, op, bump, thrown>>
      /\ job' = [job EXCEPT ![j] = NoJob] /\ waiters' = waiters + job[j].delta
  BY Zenon DEF SemInv, TypeOK, JobOf, AdjustWaiters
<1>2. NoJob \in JobType /\ NoJob.wake = {} /\ NoJob.todo = {} /\ NoJob.delta = 0 /\ NoJob.at = "none"
  BY DEF NoJob, JobType
<1>3. TypeOK'
  BY <1>1, <1>2 DEF SemInv, TypeOK, fields, JobType
<1>4. \A k \in Jobs : job'[k] = IF k = j THEN NoJob ELSE job[k]
  BY Zenon, <1>1 DEF SemInv, TypeOK
<1>5. \A k \in Jobs : JobOf(k)'
  <2>1. Cardinality({}) = 0
    BY Zenon, FS_EmptySet
  <2>2. JobOf(j)'
    BY <1>1, <1>2, <1>4, <2>1 DEF JobOf
  <2>3. \A k \in Jobs \ {j} : JobOf(k)'
    BY SMTT(30), <1>1, <1>4 DEF SemInv, JobOf
  <2> QED
    BY Zenon, <2>2, <2>3
<1>6. \A m \in Modes : SemOf(m)' /\ WakeOf(m)' /\ WatchOf(m)'
  <2>1. \A k \in Jobs : job'[k].wake = job[k].wake /\ job'[k].todo = job[k].todo
    BY Zenon, <1>1, <1>2, <1>4
  <2> QED
    BY <1>1, <2>1 DEF SemInv, SemOf, WakeOf, WatchOf, Err, fields
<1>7. WaitersAccounted'
  <2>1. Deltas' = Deltas - job[j].delta + 0
    <3>1. job'[j].delta = 0 /\ job' = [job EXCEPT ![j] = job'[j]]
      BY Zenon, <1>1, <1>2, <1>4
    <3> QED
      BY <3>1, DeltasOf DEF SemInv
  <2>2. InSem' = InSem /\ Size(InSem) \in Int
    BY <1>1 DEF InSem, Size
  <2>3. Deltas \in Int /\ job[j].delta \in Int
    BY <1>1 DEF Deltas, SemInv, TypeOK, Jobs, JobType
  <2>4. waiters' + bump'["r"] + bump'["w"] + Deltas'
          - (waiters + bump["r"] + bump["w"] + Deltas) = 0
    BY <1>1, <2>1, <2>3 DEF SemInv, TypeOK, Modes
  <2>5. Size(InSem') - Size(InSem) = 0
    BY <2>2
  <2> QED
    BY ZenonT(60), <1>3, <2>4, <2>5, AccountKept DEF SemInv
<1> QED
  BY Zenon, <1>1, <1>3, <1>5, <1>6, <1>7 DEF SemInv, fields

\* netpollready: the completion is stored, or the parked goroutine taken out.
LEMMA NetpollSem ==
  ASSUME SemInv, NEW m \in Modes, NEW p \in Pollers, Netpoll(m, p)
  PROVE  SemInv'
<1>1. /\ op[m] /\ job[p] = NoJob
      /\ op' = [op EXCEPT ![m] = FALSE] /\ sem' = [sem EXCEPT ![m] = "ready"]
      /\ job' = [job EXCEPT ![p] = Rest(Parked(m))]
      /\ UNCHANGED <<fields, fired, lock, pc, waitio, waiters, bump, thrown>>
  BY Zenon DEF Netpoll, Unblocked
<1>2. NoJob.wake = {} /\ NoJob.todo = {} /\ NoJob.delta = 0 /\ NoJob.at = "none"
  BY Zenon DEF NoJob
<1>3. /\ Rest(Parked(m)) \in JobType
      /\ Rest(Parked(m)).todo = {} /\ Rest(Parked(m)).wake = Parked(m)
      /\ Rest(Parked(m)).delta = 0 - Size(Parked(m))
      /\ Rest(Parked(m)).at \in {"none", "ready"}
      /\ Rest(Parked(m)).at = "none" => Rest(Parked(m)) = NoJob
  <2>1. Parked(m) \in SUBSET Modes /\ Cardinality(Parked(m)) = Size(Parked(m))
    BY SizeIsCardinality DEF Parked
  <2>2. Size(Parked(m)) \in Int /\ Size({}) = 0
    BY SMTT(30) DEF Size
  <2>3. CASE Parked(m) = {}
    <3>1. Rest(Parked(m)) = NoJob
      BY Zenon, <2>3 DEF Rest
    <3>2. NoJob \in JobType
      BY DEF NoJob, JobType
    <3>3. 0 = 0 - Size({})
      BY <2>2
    <3> QED
      BY Zenon, <1>2, <2>3, <3>1, <3>2, <3>3
  <2>4. CASE Parked(m) # {}
    BY SMTT(20), <2>1, <2>2, <2>4 DEF Rest, NoJob, JobType
  <2> QED
    BY Zenon, <2>3, <2>4
<1>4. job'[p] = Rest(Parked(m)) /\ p \in Jobs
  BY Zenon, <1>1 DEF SemInv, TypeOK, Jobs, Pollers
<1>5. TypeOK'
  BY Zenon, <1>1, <1>3 DEF SemInv, TypeOK, fields
<1>6. \A k \in Jobs : JobOf(k)'
  <2>1. Cardinality(Parked(m)) = Size(Parked(m))
    BY SizeIsCardinality DEF Parked
  <2>2. lock # p
    BY Zenon, <1>1, <1>2, <1>4 DEF SemInv, JobOf
  <2>3. JobOf(p)'
    BY ZenonT(60), <1>1, <1>3, <1>4, <2>1, <2>2 DEF JobOf
  <2>4. \A k \in Jobs \ {p} : JobOf(k)'
    BY <1>1 DEF SemInv, TypeOK, JobOf
  <2> QED
    BY Zenon, <2>3, <2>4
<1>7. \A n \in Modes : SemOf(n)'
  BY ZenonT(60), <1>1 DEF SemInv, SemOf, TypeOK, Away
<1>8. \A n \in Modes : WakeOf(n)'
  <2>1. sem[m] = "G" => pc[m] = "parked" /\ \A k \in Jobs : m \notin job[k].wake
    BY Zenon DEF SemInv, SemOf, WakeOf
  <2>2. \A k \in Jobs : job'[k].wake = IF k = p THEN Parked(m) ELSE job[k].wake
    BY Zenon, <1>1, <1>3, <1>4 DEF SemInv, TypeOK
  <2>3. job[p].wake = {} /\ (\A n \in Modes : n \in Parked(m) <=> n = m /\ sem[m] = "G")
    BY Zenon, <1>1, <1>2 DEF Parked
  <2>4. ASSUME NEW n \in Modes \ {m} PROVE WakeOf(n)'
    <3>1. \A k \in Jobs : n \in job'[k].wake <=> n \in job[k].wake
      BY Zenon, <2>2, <2>3
    <3>2. WakeOf(n) /\ pc'[n] = pc[n] /\ sem'[n] = sem[n]
      BY Zenon, <1>1 DEF SemInv, TypeOK
    <3> QED
      BY Zenon, <3>1, <3>2 DEF WakeOf
  <2>5. WakeOf(m)'
    <3>1. WakeOf(m) /\ pc'[m] = pc[m] /\ sem'[m] = "ready"
      BY Zenon, <1>1 DEF SemInv, TypeOK
    <3>2. CASE sem[m] = "G"
      <4>1. \A k \in Jobs : m \in job'[k].wake <=> k = p
        BY Zenon, <2>1, <2>2, <2>3, <3>2
      <4> QED
        BY Zenon, <1>4, <2>1, <3>1, <3>2, <4>1 DEF WakeOf
    <3>3. CASE sem[m] # "G"
      <4>1. \A k \in Jobs : m \in job'[k].wake <=> m \in job[k].wake
        BY Zenon, <2>2, <2>3, <3>3
      <4> QED
        BY Zenon, <3>1, <3>3, <4>1 DEF WakeOf
    <3> QED
      BY Zenon, <3>2, <3>3
  <2> QED
    BY Zenon, <2>4, <2>5
<1>9. \A n \in Modes : WatchOf(n)'
  <2>1. \A k \in Jobs : job'[k].todo = job[k].todo
    BY ZenonT(60), <1>1, <1>2, <1>3, <1>4 DEF SemInv, TypeOK
  <2> QED
    BY Zenon, <1>1, <2>1 DEF SemInv, WatchOf, TypeOK, Err, fields
<1>10. WaitersAccounted'
  <2>1. Deltas' = Deltas - 0 + (0 - Size(Parked(m)))
    <3>1. job'[p].delta \in Int /\ job[p].delta = 0
      BY Zenon, <1>1, <1>2, <1>3, <1>4 DEF JobType
    <3> QED
      BY Zenon, <1>1, <1>3, <1>4, <3>1, DeltasOf DEF SemInv
  <2>2. Size(InSem') - Size(InSem) = 0 - Size(Parked(m))
    BY <1>1 DEF Size, InSem, Parked, Modes, SemInv, TypeOK
  <2>3. Deltas \in Int /\ Size(Parked(m)) \in Int
    BY DEF Deltas, SemInv, TypeOK, Jobs, JobType, Size
  <2>4. waiters' + bump'["r"] + bump'["w"] + Deltas'
          - (waiters + bump["r"] + bump["w"] + Deltas) = 0 - Size(Parked(m))
    BY <1>1, <2>1, <2>3 DEF SemInv, TypeOK, Modes
  <2> QED
    BY Zenon, <1>5, <2>2, <2>4, AccountKept DEF SemInv
<1> QED
  BY Zenon, <1>1, <1>5, <1>6, <1>7, <1>8, <1>9, <1>10 DEF SemInv, fields

\* A caller takes the lock, changes the descriptor and has the modes S to
\* unblock, among them every mode whose waits it makes fail.
LEMMA BeginSem ==
  ASSUME SemInv, NEW j \in Jobs, NEW S \in SUBSET Modes, Begin(j, S), TypeOK',
         UNCHANGED <<opened, sem, pc, waitio, op, waiters, bump, thrown>>,
         \A m \in Modes : Err(m)' => Err(m) \/ m \in S
  PROVE  SemInv'
<1>1. /\ lock = "free" /\ "free" \notin Jobs /\ job[j] = NoJob
      /\ NoJob.wake = {} /\ NoJob.delta = 0 /\ NoJob.todo = {} /\ NoJob.at = "none"
  BY Zenon DEF Begin, NoJob, Jobs
<1>2. \A k \in Jobs : job[k].todo = {}
  BY ZenonT(60), <1>1 DEF SemInv, JobOf
<1>3. CASE S = {}
  <2>1. UNCHANGED <<job, lock>>
    BY Zenon, <1>1, <1>3 DEF Begin
  <2>2. \A m \in Modes : SemOf(m)' /\ WakeOf(m)' /\ WatchOf(m)'
    BY Zenon, <1>3, <2>1 DEF SemInv, SemOf, WakeOf, WatchOf
  <2> QED
    BY SMTT(20), <2>1, <2>2 DEF SemInv, JobOf, WaitersAccounted
<1>4. CASE S # {}
  <2>1. /\ lock' = j /\ job' = [job EXCEPT ![j] = job'[j]]
        /\ job'[j].at = "unblock" /\ job'[j].todo = S /\ job'[j].wake = {} /\ job'[j].delta = 0
    <3> DEFINE x == [at |-> "unblock", todo |-> S, wake |-> {}, delta |-> 0]
    <3>1. job' = [job EXCEPT ![j] = x] /\ lock' = j
      BY Zenon, <1>4 DEF Begin
    <3>2. x.at = "unblock" /\ x.todo = S /\ x.wake = {} /\ x.delta = 0
      BY Zenon
    <3> HIDE DEF x
    <3>3. job'[j] = x
      BY <3>1 DEF SemInv, TypeOK
    <3> QED
      BY Zenon, <3>1, <3>2, <3>3
  <2>2. \A k \in Jobs : job'[k].wake = job[k].wake /\ job'[k].delta = job[k].delta
    <3>1. \A k \in Jobs : k # j => job'[k] = job[k]
      BY SMTT(20), <2>1 DEF SemInv, TypeOK
    <3> QED
      BY ZenonT(60), <1>1, <2>1, <3>1
  <2>3. \A k \in Jobs : JobOf(k)'
    <3>1. Cardinality({}) = 0
      BY Zenon, FS_EmptySet
    <3>2. JobOf(j)'
      BY <1>4, <2>1, <3>1 DEF JobOf
    <3>3. \A k \in Jobs \ {j} : JobOf(k)'
      BY Zenon, <1>1, <2>1, OtherJobs
    <3> QED
      BY Zenon, <3>2, <3>3
  <2>4. \A m \in Modes : SemOf(m)' /\ WakeOf(m)'
    BY Zenon, <2>2 DEF SemInv, SemOf, WakeOf
  <2>5. \A m \in Modes : WatchOf(m)'
    BY Zenon, <1>2, <2>1 DEF SemInv, WatchOf
  <2>6. WaitersAccounted'
    BY Zenon, <2>2 DEF SemInv, WaitersAccounted, Jobs
  <2> QED
    BY Zenon, <2>3, <2>4, <2>5, <2>6 DEF SemInv
<1> QED
  BY Zenon, <1>3, <1>4

\* What Begin does to the types of the lock and the jobs.
LEMMA BeginType ==
  ASSUME TypeOK, NEW j \in Jobs, NEW S \in SUBSET Modes, Begin(j, S)
  PROVE  lock' \in Jobs \cup {"free"} /\ job' \in [Jobs -> JobType]
BY DEF TypeOK, Begin, JobType, NoJob

\* The timers that new deadlines want are timers, and the sequence numbers numbers.
LEMMA SetTimersType ==
  ASSUME TypeOK, NEW d \in [Modes -> Instants \cup {0, -1}], SetTimers(d)
  PROVE  /\ run' \in [Modes -> BOOLEAN] /\ seq' \in [Modes -> Nat]
         /\ timer' \in [Modes -> CallbackType]
<1>1. seq' \in [Modes -> Nat] /\ run' \in [Modes -> BOOLEAN]
  <2>1. seq' \in [Modes -> Nat]
    BY DEF SetTimers, TypeOK
  <2>2. \A m \in Modes : Wants(m, d) \in BOOLEAN
    BY Zenon DEF Wants
  <2>3. run' \in [Modes -> BOOLEAN]
    BY Zenon, <2>2, Zenon DEF SetTimers, TypeOK
  <2> QED
    BY Zenon, <2>1, <2>3
<1>2. NoTimer \in CallbackType
  BY Zenon DEF NoTimer, CallbackType
<1>3. ASSUME NEW m \in Modes, Wants(m, d)
      PROVE  Callback(m, d, seq'[m]) \in CallbackType
  <2>1. d[m] > 0 /\ d[m] \in Instants \cup {0, -1}
    BY Zenon, <1>3 DEF Wants
  <2>2. d[m] \in Nat /\ seq'[m] \in Nat
    <3>1. d[m] # 0 /\ d[m] # -1
      BY <2>1
    <3>2. d[m] \in Instants
      BY Zenon, <2>1, <3>1
    <3> QED
      BY Zenon, <1>1, <3>2, InstantsAssumption
  <2> QED
    BY Zenon, <2>2 DEF Callback, CallbackType
<1>4. timer' \in [Modes -> CallbackType]
  BY Zenon, <1>2, <1>3 DEF SetTimers, TypeOK
<1> QED
  BY Zenon, <1>1, <1>4

\* pollSetDeadline unblocks the modes whose deadline is past.
LEMMA SetDeadlineSem ==
  ASSUME SemInv, NEW S \in SUBSET Modes, NEW i \in Instants \cup {0, -1}, SetDeadline(S, i)
  PROVE  SemInv'
<1> DEFINE d == [m \in Modes |-> IF m \in S THEN i ELSE dl[m]]
           T == {m \in Modes : d[m] < 0}
<1>1. /\ ~closing /\ UNCHANGED <<opened, closing, sem, fired, pc, waitio, op, waiters, bump, thrown>>
      /\ dl' = d /\ Begin("set", T) /\ SetTimers(d)
  BY Zenon DEF SetDeadline
<1>2. d \in [Modes -> Instants \cup {0, -1}] /\ "set" \in Jobs /\ T \in SUBSET Modes
  BY Zenon DEF SemInv, TypeOK, Jobs
<1> HIDE DEF d
<1>3. TypeOK'
  BY Zenon, <1>1, <1>2, BeginType, SetTimersType DEF SemInv, TypeOK
<1>4. \A m \in Modes : Err(m)' => m \in T
  BY Zenon, <1>1 DEF Err
<1> HIDE DEF T
<1> QED
  BY Zenon, <1>1, <1>2, <1>3, <1>4, BeginSem

\* Timers may be armed or go off without anything happening to rg and wg.
LEMMA TimersOnlySem ==
  ASSUME SemInv, TypeOK',
         UNCHANGED <<opened, closing, dl, sem, lock, job, pc, waitio, op, waiters, bump, thrown>>
  PROVE  SemInv'
<1>1. \A m \in Modes : SemOf(m)' /\ WakeOf(m)' /\ WatchOf(m)'
  BY Zenon DEF SemInv, SemOf, WakeOf, WatchOf, Err
<1>2. \A j \in Jobs : JobOf(j)'
  BY Zenon DEF SemInv, JobOf
<1>3. WaitersAccounted'
  BY Zenon DEF SemInv, WaitersAccounted
<1> QED
  BY Zenon, <1>1, <1>2, <1>3 DEF SemInv

\* A timer goes off.
LEMMA TimerFiresSem ==
  ASSUME SemInv, NEW m \in Modes, TimerFires(m)
  PROVE  SemInv'
<1>1. NoTimer \in CallbackType
  BY Zenon DEF NoTimer, CallbackType
<1>2. TypeOK'
  BY <1>1 DEF SemInv, TypeOK, TimerFires
<1> QED
  BY Zenon, <1>2, TimersOnlySem DEF TimerFires

\* netpolldeadlineimpl finds that its deadline was changed.
LEMMA StaleCallbackSem ==
  ASSUME SemInv, NEW c \in fired, StaleCallback(c)
  PROVE  SemInv'
<1>1. TypeOK'
  BY Zenon DEF SemInv, TypeOK, StaleCallback, fields
<1> QED
  BY Zenon, <1>1, TimersOnlySem DEF StaleCallback, fields

\* Instants are positive.
LEMMA InstantsPositive == \A i \in Instants : i \in Int /\ i > 0
BY InstantsAssumption

\* Deadlines are integers, and the positive ones are instants.
LEMMA DeadlinesInt ==
  ASSUME NEW d \in [Modes -> Instants \cup {0, -1}]
  PROVE  \A m \in Modes : d[m] \in Int /\ (d[m] > 0 => d[m] \in Instants)
<1> TAKE m \in Modes
<1>1. CASE d[m] \in Instants
  BY Zenon, <1>1, InstantsPositive
<1>2. CASE d[m] = 0
  BY <1>2
<1>3. CASE d[m] = -1
  BY <1>3
<1> QED
  BY Zenon, <1>1, <1>2, <1>3

\* A current callback finds the deadlines it was set for.
LEMMA CurrentConsistent ==
  ASSUME SemInv, TimerInv, NEW c \in fired, ~Stale(c)
  PROVE  /\ ~Inconsistent(c)
         /\ c.modes \in {{"r"}, {"w"}, Modes} /\ First(c.modes) \in c.modes
         /\ First(c.modes) \in Modes /\ run[First(c.modes)] /\ ~closing /\ opened
         /\ \A m \in c.modes : m \in Modes /\ dl[m] = c.when /\ dl[m] > 0
<1>1. FiredOf(c) /\ c \in Callbacks
  BY Zenon DEF TimerInv, Callbacks
<1>2. c.modes \in {{"r"}, {"w"}, Modes} /\ First(c.modes) \in c.modes /\ First(c.modes) \in Modes
  BY Zenon, <1>1 DEF FiredOf, First, Modes
<1>3. c.when > 0
  BY Zenon, <1>1, InstantsPositive DEF FiredOf
<1>4. \A m \in c.modes : m \in Modes /\ dl[m] = c.when /\ dl[m] > 0
  BY Zenon, <1>1, <1>2, <1>3 DEF TimerInv, SeqMatchesDeadline, Modes
<1>5. run[First(c.modes)]
  BY Zenon, <1>1 DEF FiredOf, Current
<1>6. ~closing /\ opened
  BY Zenon, <1>2, <1>5 DEF TimerInv
<1>7. ~Inconsistent(c)
  <2>1. \A m \in c.modes : ~(dl[m] <= 0)
    BY <1>4, DeadlinesInt DEF SemInv, TypeOK
  <2>2. "r" \in c.modes => run["r"]
    BY Zenon, <1>5 DEF First
  <2>3. "w" \in c.modes /\ "r" \notin c.modes => run["w"]
    BY Zenon, <1>5 DEF First
  <2> QED
    BY ZenonT(60), <2>1, <2>2, <2>3 DEF Inconsistent
<1> QED
  BY Zenon, <1>2, <1>4, <1>5, <1>6, <1>7

\* netpolldeadlineimpl expires the deadline; it never finds it gone.
LEMMA DeadlineCallbackSem ==
  ASSUME SemInv, TimerInv, NEW c \in fired, DeadlineCallback(c)
  PROVE  SemInv'
<1> DEFINE j == TimerOf[First(c.modes)]
<1>1. /\ ~Inconsistent(c) /\ c.modes \in SUBSET Modes /\ First(c.modes) \in c.modes
      /\ First(c.modes) \in Modes
  BY Zenon, CurrentConsistent DEF DeadlineCallback, Modes
<1>2. /\ Begin(j, c.modes) /\ fired' = fired \ {c} /\ dl' = [dl EXCEPT ![First(c.modes)] = -1]
      /\ UNCHANGED <<opened, closing, run, seq, timer, sem, pc, waitio, op, waiters, bump, thrown>>
  BY Zenon, <1>1 DEF DeadlineCallback
<1>3. j \in Jobs
  BY <1>1 DEF TimerOf, Modes, Jobs
<1> HIDE DEF j
<1>4. TypeOK'
  BY ZenonT(60), <1>1, <1>2, <1>3, BeginType DEF SemInv, TypeOK
<1>5. \A m \in Modes : Err(m)' => Err(m) \/ m \in c.modes
  BY Zenon, <1>1, <1>2 DEF Err, SemInv, TypeOK
<1> QED
  BY Zenon, <1>1, <1>2, <1>3, <1>4, <1>5, BeginSem

\* The write half of a callback that serves both modes.
LEMMA ExpireWriteSem ==
  ASSUME SemInv, NEW j \in Jobs, ExpireWrite(j)
  PROVE  SemInv'
<1>1. /\ job[j].at = "expire" /\ lock = j /\ job[j].todo = {"w"} /\ job[j] \in JobType
      /\ dl' = [dl EXCEPT !["w"] = -1] /\ "w" \in Modes
      /\ UNCHANGED <<opened, closing, run, seq, timer, sem, fired, lock, pc, waitio, op, waiters,
                     bump, thrown>>
  BY Zenon DEF SemInv, TypeOK, JobOf, ExpireWrite, Modes
<1>2. /\ job' = [job EXCEPT ![j] = job'[j]] /\ job'[j].at = "unblock" /\ job'[j] \in JobType
      /\ job'[j].wake = job[j].wake /\ job'[j].todo = job[j].todo /\ job'[j].delta = job[j].delta
  BY ZenonT(60), <1>1 DEF ExpireWrite, SemInv, TypeOK, JobType
<1>3. \A k \in Jobs : /\ job'[k].wake = job[k].wake /\ job'[k].todo = job[k].todo
                      /\ job'[k].delta = job[k].delta
  BY Zenon, <1>2 DEF SemInv, TypeOK
<1>4. TypeOK'
  BY SMTT(30), <1>1, <1>2 DEF SemInv, TypeOK
<1>5. \A k \in Jobs : JobOf(k)'
  <2>1. JobOf(j)'
    <3>1. JobOf(j)
      BY Zenon DEF SemInv
    <3> QED
      BY Zenon, <1>1, <1>2, <3>1 DEF JobOf
  <2>2. \A k \in Jobs \ {j} : JobOf(k)'
    BY Zenon, <1>1, <1>2, OtherJobs
  <2> QED
    BY Zenon, <2>1, <2>2
<1>6. \A m \in Modes : SemOf(m)' /\ WakeOf(m)'
  BY ZenonT(60), <1>1, <1>3 DEF SemInv, SemOf, WakeOf
<1>7. \A m \in Modes : WatchOf(m)'
  BY Zenon, <1>1, <1>3 DEF SemInv, WatchOf, TypeOK, Err
<1>8. WaitersAccounted'
  BY Zenon, <1>1, <1>3 DEF SemInv, WaitersAccounted, Jobs
<1> QED
  BY ZenonT(60), <1>1, <1>4, <1>5, <1>6, <1>7, <1>8 DEF SemInv

\* pollUnblock makes every wait fail, and unblocks both modes.
LEMMA PollUnblockSem ==
  ASSUME SemInv, PollUnblock
  PROVE  SemInv'
<1>1. Begin("close", Modes) /\ "close" \in Jobs
  BY Zenon DEF PollUnblock, Jobs
<1>2. NoTimer \in CallbackType
  BY ZenonT(60) DEF NoTimer, CallbackType
<1>3. TypeOK'
  BY <1>1, <1>2, BeginType DEF PollUnblock, SemInv, TypeOK
<1> QED
  BY Zenon, <1>1, <1>3, BeginSem DEF PollUnblock

\* pollClose finds nobody waiting.
LEMMA PollCloseSem ==
  ASSUME SemInv, PollClose
  PROVE  SemInv'
<1>1. \A m \in Modes : pc[m] = "idle" /\ sem[m] = "nil"
  BY Zenon DEF SemInv, SemOf, PollClose, Away
<1>2. /\ opened' = FALSE
      /\ UNCHANGED <<closing, sem, dl, run, seq, timer, fired, lock, job, pc, waitio, op, waiters,
                     bump, thrown>>
  BY Zenon, <1>1 DEF PollClose
<1>3. TypeOK'
  BY Zenon, <1>2 DEF SemInv, TypeOK
<1>4. \A m \in Modes : SemOf(m)' /\ WakeOf(m)' /\ WatchOf(m)'
  BY Zenon, <1>2 DEF SemInv, SemOf, WakeOf, WatchOf, Err
<1>5. (\A j \in Jobs : JobOf(j)') /\ WaitersAccounted'
  <2>1. ASSUME NEW j \in Jobs PROVE JobOf(j)'
    BY Zenon, <1>2 DEF SemInv, JobOf
  <2>2. WaitersAccounted'
    BY Zenon, <1>2 DEF SemInv, WaitersAccounted
  <2> QED
    BY Zenon, <2>1, <2>2
<1> QED
  BY Zenon, <1>1, <1>2, <1>3, <1>4, <1>5 DEF SemInv

\* pollOpen finds the descriptor as pollClose left it.
LEMMA PollOpenSem ==
  ASSUME SemInv, PollOpen
  PROVE  SemInv'
<1>1. \A m \in Modes : pc[m] = "idle" /\ sem[m] = "nil"
  BY Zenon DEF SemInv, SemOf, PollOpen, Away
<1>2. /\ opened' \in BOOLEAN /\ closing' = FALSE
      /\ seq' = [m \in Modes |-> seq[m] + 1]
      /\ sem' = [m \in Modes |-> "nil"] /\ dl' = [m \in Modes |-> 0]
      /\ UNCHANGED <<run, timer, fired, lock, job, pc, waitio, op, waiters, bump, thrown>>
  BY Zenon, <1>1 DEF PollOpen
<1>3. TypeOK'
  <2>1. /\ seq' \in [Modes -> Nat] /\ sem' \in [Modes -> {"nil", "ready", "wait", "G"}]
        /\ dl' \in [Modes -> Instants \cup {0, -1}]
    BY <1>2 DEF SemInv, TypeOK
  <2> QED
    BY ZenonT(60), <1>2, <2>1 DEF SemInv, TypeOK
<1>4. \A m \in Modes : sem'[m] = sem[m]
  BY Zenon, <1>1, <1>2
<1>5. \A m \in Modes : SemOf(m)' /\ WakeOf(m)' /\ WatchOf(m)'
  BY Zenon, <1>1, <1>2, <1>4 DEF SemInv, SemOf, WakeOf, WatchOf
<1>6. \A j \in Jobs : JobOf(j)'
  BY Zenon, <1>2 DEF SemInv, JobOf
<1>7. WaitersAccounted'
  BY Zenon, <1>2, <1>3, <1>4, AccountSame DEF SemInv
<1> QED
  BY Zenon, <1>1, <1>2, <1>3, <1>5, <1>6, <1>7 DEF SemInv

----------------------------------------------------------------------------
(* The deadlines *)

\* The mode whose sequence number a callback carries.
LEMMA FirstOf ==
  ASSUME NEW S \in {{"r"}, {"w"}, Modes}
  PROVE  /\ First(S) \in S /\ First(S) \in Modes /\ S \subseteq Modes
         /\ S = Modes => First(S) = "r"
         /\ S # Modes => S = {First(S)}
         /\ First(S) = "w" => S = {"w"}
BY Zenon DEF First, Modes

\* A current callback, gone off or not, was set for deadlines that are still
\* there, and is the one its mode's run flag stands for.
LEMMA CurrentCallback ==
  ASSUME TimerInv, NEW c \in Callbacks, ~Stale(c)
  PROVE  /\ c.modes \in {{"r"}, {"w"}, Modes} /\ c.when \in Instants
         /\ run[First(c.modes)] /\ opened /\ ~closing
         /\ \A m \in c.modes : m \in Modes /\ dl[m] = c.when /\ dl[m] > 0
         /\ c \in fired \/ c = timer[First(c.modes)]
         /\ c.modes = Modes => Combo(dl)
         /\ c.modes # Modes => c.modes = {First(c.modes)}
         /\ Combo(dl) => First(c.modes) = "r"
<1>1. /\ c.modes \in {{"r"}, {"w"}, Modes} /\ c.when \in Instants /\ run[First(c.modes)]
      /\ c \in fired \/ c = timer[First(c.modes)]
  <2>1. CASE c \in fired
    BY Zenon, <2>1 DEF TimerInv, FiredOf, Current
  <2>2. CASE c \notin fired
    <3>1. PICK m \in Modes : c = timer[m] /\ timer[m] # NoTimer
      BY Zenon, <2>2 DEF Callbacks
    <3>2. run[m] /\ c.when \in Instants /\ (c.modes = {m} \/ (m = "r" /\ c.modes = Modes))
      BY Zenon, <3>1 DEF TimerInv, ArmedOf
    <3>3. First(c.modes) = m /\ c.modes \in {{"r"}, {"w"}, Modes}
      BY Zenon, <3>2 DEF First, Modes
    <3> QED
      BY Zenon, <3>1, <3>2, <3>3
  <2> QED
    BY Zenon, <2>1, <2>2
<1>2. First(c.modes) \in c.modes /\ First(c.modes) \in Modes /\ c.modes \subseteq Modes
  BY Zenon, <1>1, FirstOf
<1>3. opened /\ ~closing
  BY Zenon, <1>1, <1>2 DEF TimerInv
<1>4. c.when > 0
  BY Zenon, <1>1, InstantsPositive
<1>5. \A m \in c.modes : m \in Modes /\ dl[m] = c.when /\ dl[m] > 0
  BY Zenon, <1>2, <1>4 DEF TimerInv, SeqMatchesDeadline
<1>6. c.modes = Modes => Combo(dl)
  BY Zenon, <1>5 DEF Combo, Modes
<1>7. c.modes # Modes => c.modes = {First(c.modes)}
  BY Zenon, <1>1, FirstOf
<1>8. Combo(dl) => First(c.modes) = "r"
  BY Zenon, <1>1, <1>2 DEF TimerInv, Modes
<1> QED
  BY Zenon, <1>1, <1>3, <1>5, <1>6, <1>7, <1>8

\* Steps that leave the deadlines and the timers alone, and drop from a job's
\* list only modes whose wait fails or whose deadline is done with.
LEMMA TimersKept ==
  ASSUME TimerInv, UNCHANGED <<opened, closing, dl, run, seq, timer, fired>>, ExpiryOf',
         \A m \in Modes, j \in Jobs :
           opened /\ ~closing /\ dl[m] > 0 /\ m \in job[j].todo => m \in job'[j].todo
  PROVE  TimerInv'
<1>1. (\A c \in fired : FiredOf(c)') /\ (\A m \in Modes : ArmedOf(m)')
  BY ZenonT(60) DEF TimerInv, FiredOf, ArmedOf, Current, Stale
<1>2. SeqMatchesDeadline'
  BY DEF TimerInv, SeqMatchesDeadline, Callbacks, Stale
<1>3. DeadlineArmed'
  BY Zenon DEF TimerInv, DeadlineArmed, Callbacks, Stale
<1>4. Combo(dl)' => ~run'["w"]
  BY Zenon DEF TimerInv, Combo
<1> QED
  BY Zenon, <1>1, <1>2, <1>3, <1>4 DEF TimerInv

\* Steps of a goroutine, and steps of jobs that have let go of the lock.
LEMMA TimersUntouched ==
  ASSUME TimerInv, UNCHANGED <<opened, closing, dl, run, seq, timer, fired>>,
         \A j \in Jobs : /\ job'[j].todo = job[j].todo
                         /\ job'[j].at \in {"unblock", "expire"} => job'[j].at = job[j].at
  PROVE  TimerInv'
<1>1. "rt" \in Jobs
  BY Zenon DEF Jobs
<1>2. ExpiryOf'
  BY Zenon, <1>1 DEF TimerInv, ExpiryOf
<1> QED
  BY Zenon, <1>2, TimersKept

\* netpollunblock under the lock.
LEMMA UnblockTimers ==
  ASSUME SemInv, TimerInv, NEW j \in Jobs, Unblock(j)
  PROVE  TimerInv'
<1> PICK m : m = First(job[j].todo)
  BY Zenon
<1>1. /\ lock = j /\ m \in job[j].todo /\ m \in Modes
      /\ job' = [job EXCEPT ![j] = job'[j]]
      /\ job'[j].todo = job[j].todo \ {m}
      /\ job'[j].at = "expire" => j = "rt" /\ job'[j].todo = {"w"}
  BY ZenonT(60), UnblockedJob
<1>2. \A k \in Jobs \ {j} : job'[k] = job[k]
  BY <1>1 DEF SemInv, TypeOK
<1>3. job[j].at = "unblock" /\ UNCHANGED <<opened, closing, dl, run, seq, timer, fired>>
  BY Zenon DEF Unblock, fields
<1>4. dl[m] < 0 \/ closing
  BY Zenon, <1>1, <1>3 DEF TimerInv, ExpiryOf, First
<1>5. job'[j].at = "unblock" => j # "rt"
  BY Zenon, <1>3 DEF Unblock, Rest, NoJob, SemInv, TypeOK
<1>6. ExpiryOf'
  <2>1. \A k \in Jobs : job'[k].at = "unblock" =>
          \A n \in job'[k].todo : dl[n] < 0 \/ closing \/ (k = "rt" /\ n = "w" /\ "r" \in job'[k].todo)
    BY ZenonT(60), <1>1, <1>2, <1>3, <1>5 DEF TimerInv, ExpiryOf
  <2>2. "rt" \in Jobs
    BY Zenon DEF Jobs
  <2>3. "w" \in job'["rt"].todo => "w" \in job["rt"].todo
    BY Zenon, <1>1, <1>2, <2>2
  <2>4. ASSUME "w" \in job'["rt"].todo, job'["rt"].at = "expire" \/ "r" \in job'["rt"].todo
        PROVE  "w" \in job["rt"].todo /\ (job["rt"].at = "expire" \/ "r" \in job["rt"].todo)
    BY Zenon, <1>1, <1>2, <2>2, <2>3, <2>4 DEF First
  <2> QED
    BY Zenon, <1>3, <2>1, <2>3, <2>4 DEF TimerInv, ExpiryOf
<1>7. \A n \in Modes : dl[n] \in Int
  BY Zenon, DeadlinesInt DEF SemInv, TypeOK
<1>8. \A n \in Modes, k \in Jobs :
        opened /\ ~closing /\ dl[n] > 0 /\ n \in job[k].todo => n \in job'[k].todo
  BY <1>1, <1>2, <1>4, <1>7
<1> QED
  BY Zenon, <1>3, <1>6, <1>8, TimersKept

\* netpolldeadlineimpl expires the write deadline after the reader's.
LEMMA ExpireWriteTimers ==
  ASSUME SemInv, TimerInv, NEW j \in Jobs, ExpireWrite(j)
  PROVE  TimerInv'
<1>1. /\ j = "rt" /\ job["rt"].at = "expire" /\ job["rt"].todo = {"w"} /\ lock = j
      /\ dl' = [dl EXCEPT !["w"] = -1]
      /\ UNCHANGED <<opened, closing, run, seq, timer, fired>>
  BY Zenon DEF SemInv, JobOf, ExpireWrite
<1>2. /\ dl["r"] < 0 /\ ~run["w"] /\ ~closing /\ dl'["r"] = dl["r"] /\ dl'["w"] = -1
      /\ dl["r"] \in Int
  BY Zenon, <1>1, DeadlinesInt DEF TimerInv, ExpiryOf, SemInv, TypeOK, Modes
<1>3. job'["rt"].todo = {"w"} /\ job'["rt"].at = "unblock" /\ \A k \in Jobs \ {"rt"} : job'[k] = job[k]
  BY SMTT(30), <1>1 DEF ExpireWrite, SemInv, TypeOK, JobType
<1>4. (\A c \in fired : FiredOf(c)') /\ (\A m \in Modes : ArmedOf(m)')
  BY <1>1 DEF TimerInv, FiredOf, ArmedOf, Current, Stale
<1>5. ASSUME NEW c \in Callbacks, ~Stale(c)
      PROVE  FALSE
  <2>1. /\ c.modes \in {{"r"}, {"w"}, Modes} /\ run[First(c.modes)]
        /\ \A m \in c.modes : m \in Modes /\ dl[m] > 0
    BY Zenon, <1>5, CurrentCallback
  <2>2. "r" \notin c.modes
    BY <1>2, <2>1
  <2> QED
    BY Zenon, <1>2, <2>1, <2>2 DEF First, Modes
<1>6. SeqMatchesDeadline'
  BY ZenonT(60), <1>1, <1>5 DEF SeqMatchesDeadline, Callbacks, Stale
<1>7. ~Combo(dl') /\ \A m \in Modes : ~(dl'[m] > 0)
  BY <1>2 DEF Combo, Modes
<1>8. \A k \in Jobs : job'[k].at = "unblock" => k = "rt"
  BY ZenonT(60), <1>1, <1>3 DEF SemInv, JobOf
<1>9. ExpiryOf'
  <2>1. \A k \in Jobs : job'[k].at = "unblock" => \A m \in job'[k].todo : dl'[m] < 0
    BY <1>2, <1>3, <1>8
  <2>2. dl'["r"] < 0 /\ ~run'["w"] /\ ~closing'
    BY Zenon, <1>1, <1>2
  <2>3. ~(job'["rt"].at = "expire" \/ "r" \in job'["rt"].todo)
    BY ZenonT(60), <1>3
  <2> QED
    BY Zenon, <2>1, <2>2, <2>3 DEF ExpiryOf
<1>10. ~(~closing' /\ ~opened')
  BY <1>1, <1>2 DEF TimerInv, Modes
<1> QED
  BY Zenon, <1>1, <1>4, <1>6, <1>7, <1>9, <1>10 DEF TimerInv, DeadlineArmed

\* A timer goes off: its callback is still about.
LEMMA TimerFiresTimers ==
  ASSUME TimerInv, SemInv, NEW m \in Modes, TimerFires(m)
  PROVE  TimerInv'
<1>1. /\ timer[m] # NoTimer /\ fired' = fired \cup {timer[m]}
      /\ timer' = [timer EXCEPT ![m] = NoTimer]
      /\ UNCHANGED <<opened, closing, dl, run, seq, job>>
  BY Zenon DEF TimerFires
<1>2. ArmedOf(m) /\ timer[m].modes \in {{"r"}, {"w"}, Modes} /\ First(timer[m].modes) = m
  BY Zenon, <1>1 DEF TimerInv, ArmedOf, First, Modes
<1>3. Callbacks' = Callbacks
  <2>1. ASSUME NEW c \in Callbacks PROVE c \in Callbacks'
    BY <1>1, <2>1 DEF Callbacks, SemInv, TypeOK
  <2>2. ASSUME NEW c \in Callbacks' PROVE c \in Callbacks
    BY <1>1, <2>2 DEF Callbacks, SemInv, TypeOK
  <2> QED
    BY Zenon, <2>1, <2>2
<1>4. \A c \in fired' : FiredOf(c)'
  <2>1. seq[m] \in Nat /\ timer[m].seq = seq[m] /\ run[m] /\ timer[m].when \in Instants
    BY Zenon, <1>1, <1>2 DEF SemInv, TypeOK, ArmedOf
  <2> PICK t : t = timer[m]
    BY ZenonT(60)
  <2>2. FiredOf(t)'
    BY SMTT(30), <1>1, <1>2, <2>1 DEF FiredOf, ArmedOf, Current, Stale
  <2>3. ASSUME NEW c \in fired PROVE FiredOf(c)'
    <3>1. FiredOf(c) /\ \A b : Current(b)' <=> Current(b)
      BY Zenon, <1>1, <2>3 DEF TimerInv, Current, Stale
    <3>2. First(c.modes) = m => ~Current(c)
      BY Zenon, <1>1, <1>2, <2>3 DEF ArmedOf, Current
    <3>3. \A b \in fired' : First(b.modes) = First(c.modes) /\ Current(b) /\ Current(c) => b = c
      BY Zenon, <1>1, <1>2, <3>1, <3>2 DEF FiredOf
    <3> QED
      BY Zenon, <1>1, <3>1, <3>3 DEF FiredOf
  <2> QED
    BY Zenon, <1>1, <2>2, <2>3
<1>5. \A n \in Modes : ArmedOf(n)'
  <2>1. ArmedOf(m)'
    BY ZenonT(60), <1>1 DEF ArmedOf, SemInv, TypeOK
  <2>2. ASSUME NEW n \in Modes \ {m} PROVE ArmedOf(n)'
    <3>1. ArmedOf(n) /\ timer'[n] = timer[n] /\ \A c : Stale(c)' <=> Stale(c)
      BY Zenon, <1>1, <2>2 DEF TimerInv, SemInv, TypeOK, Stale
    <3>2. \A c \in fired' : First(c.modes) = n => c \in fired
      BY Zenon, <1>1, <1>2, <2>2
    <3> QED
      BY Zenon, <1>1, <3>1, <3>2 DEF ArmedOf
  <2> QED
    BY Zenon, <2>1, <2>2
<1>6. SeqMatchesDeadline' /\ DeadlineArmed'
  BY Zenon, <1>1, <1>3 DEF TimerInv, SeqMatchesDeadline, DeadlineArmed, Stale
<1>7. ExpiryOf' /\ (Combo(dl)' => ~run'["w"])
  BY Zenon, <1>1 DEF TimerInv, ExpiryOf, Combo
<1> QED
  BY Zenon, <1>1, <1>4, <1>5, <1>6, <1>7 DEF TimerInv

\* A callback of an old timer goes away.
LEMMA StaleCallbackTimers ==
  ASSUME TimerInv, NEW c \in fired, StaleCallback(c)
  PROVE  TimerInv'
<1>1. /\ Stale(c) /\ fired' = fired \ {c}
      /\ UNCHANGED <<opened, closing, dl, run, seq, timer, job>>
  BY Zenon DEF StaleCallback, fields
<1>2. \A b \in Callbacks' : b \in Callbacks
  BY Zenon, <1>1 DEF Callbacks
<1>3. \A b \in Callbacks : ~Stale(b) => b \in Callbacks'
  BY Zenon, <1>1 DEF Callbacks
<1>4. (\A b \in fired' : FiredOf(b)') /\ (\A m \in Modes : ArmedOf(m)')
  BY ZenonT(60), <1>1 DEF TimerInv, FiredOf, ArmedOf, Current, Stale
<1>5. SeqMatchesDeadline'
  BY Zenon, <1>1, <1>2 DEF TimerInv, SeqMatchesDeadline, Stale
<1>6. DeadlineArmed'
  BY Zenon, <1>1, <1>3 DEF TimerInv, DeadlineArmed, Stale
<1>7. ExpiryOf' /\ (Combo(dl)' => ~run'["w"])
  BY Zenon, <1>1 DEF TimerInv, ExpiryOf, Combo
<1> QED
  BY Zenon, <1>1, <1>4, <1>5, <1>6, <1>7 DEF TimerInv

\* netpolldeadlineimpl expires the deadline its timer was set for.
LEMMA DeadlineCallbackTimers ==
  ASSUME SemInv, TimerInv, NEW c \in fired, DeadlineCallback(c)
  PROVE  TimerInv'
<1> PICK f, j : f = First(c.modes) /\ j = TimerOf[f]
  BY Zenon
<1>1. c \in Callbacks /\ ~Stale(c)
  BY Zenon DEF Callbacks, DeadlineCallback
<1>2. /\ c.modes \in {{"r"}, {"w"}, Modes} /\ run[f] /\ opened /\ ~closing
      /\ \A m \in c.modes : m \in Modes /\ dl[m] = c.when /\ dl[m] > 0
      /\ c.modes = Modes => Combo(dl)
      /\ Combo(dl) => f = "r"
  BY Zenon, <1>1, CurrentCallback
<1>3. /\ f \in c.modes /\ f \in Modes /\ c.modes \in SUBSET Modes
      /\ c.modes = Modes => f = "r"
      /\ c.modes # Modes => c.modes = {f}
  BY Zenon, <1>2, FirstOf
<1>4. j \in Jobs /\ j = (IF f = "r" THEN "rt" ELSE "wt")
  BY <1>3 DEF TimerOf, Modes, Jobs
<1>5. /\ fired' = fired \ {c} /\ dl' = [dl EXCEPT ![f] = -1] /\ Begin(j, c.modes)
      /\ UNCHANGED <<opened, closing, run, seq, timer>>
  BY Zenon, <1>1, CurrentConsistent DEF DeadlineCallback
<1>6. /\ lock = "free" /\ \A k \in Jobs : job[k].todo = {} /\ job[k].at # "unblock"
      /\ \A k \in Jobs \ {j} : job'[k] = job[k]
      /\ job'[j].at = "unblock" /\ job'[j].todo = c.modes
  <2>1. lock = "free" /\ "free" \notin Jobs
    BY Zenon, <1>5 DEF Begin, Jobs
  <2>2. job' = [job EXCEPT ![j] = [at |-> "unblock", todo |-> c.modes, wake |-> {}, delta |-> 0]]
    BY Zenon, <1>3, <1>5 DEF Begin
  <2>3. job'[j].at = "unblock" /\ job'[j].todo = c.modes
    BY Zenon, <1>4, <2>2 DEF SemInv, TypeOK
  <2>4. \A k \in Jobs \ {j} : job'[k] = job[k]
    BY Zenon, <2>2 DEF SemInv, TypeOK
  <2>5. \A k \in Jobs : job[k].todo = {} /\ job[k].at # "unblock"
    BY Zenon, <2>1 DEF SemInv, JobOf
  <2> QED
    BY Zenon, <2>1, <2>3, <2>4, <2>5
<1>7. \A b \in Callbacks' : b \in Callbacks
  BY Zenon, <1>5 DEF Callbacks
<1>8. ASSUME NEW b \in Callbacks', ~Stale(b)
      PROVE  f \notin b.modes
  <2>1. /\ b.modes \in {{"r"}, {"w"}, Modes} /\ run[First(b.modes)]
        /\ b \in fired \/ b = timer[First(b.modes)]
        /\ b.modes = Modes => Combo(dl)
        /\ b.modes # Modes => b.modes = {First(b.modes)}
        /\ Combo(dl) => First(b.modes) = "r"
    BY Zenon, <1>7, <1>8, CurrentCallback
  <2>2. CASE First(b.modes) = f
    <3>1. timer[f] = NoTimer
      BY Zenon, <1>1, <1>3 DEF TimerInv, ArmedOf
    <3>2. \A n \in Modes : timer[n] # NoTimer => First(timer[n].modes) = n
      BY Zenon DEF TimerInv, ArmedOf, First, Modes
    <3>3. b \in fired'
      BY Zenon, <1>5, <1>8, <2>2, <3>1, <3>2 DEF Callbacks
    <3>4. b = c
      BY Zenon, <1>1, <1>5, <1>8, <2>2, <3>3 DEF TimerInv, FiredOf, Current
    <3> QED
      BY Zenon, <1>5, <3>3, <3>4
  <2>3. CASE First(b.modes) # f
    BY Zenon, <1>2, <1>3, <2>1, <2>3
  <2> QED
    BY Zenon, <2>2, <2>3
<1>9. SeqMatchesDeadline'
  <2>1. ASSUME NEW b \in Callbacks', ~Stale(b)', NEW m \in b.modes
        PROVE  dl'[m] = b.when
    <3>1. ~Stale(b) /\ b \in Callbacks
      BY Zenon, <1>5, <1>7, <2>1 DEF Stale
    <3>2. m # f /\ m \in Modes /\ dl[m] = b.when
      BY ZenonT(60), <1>8, <2>1, <3>1, CurrentCallback
    <3> QED
      BY Zenon, <1>5, <3>2 DEF SemInv, TypeOK
  <2> QED
    BY Zenon, <2>1 DEF SeqMatchesDeadline
<1>10. dl'[f] = -1 /\ \A m \in Modes \ {f} : dl'[m] = dl[m]
  BY Zenon, <1>3, <1>5 DEF SemInv, TypeOK
<1>11. ~Combo(dl')
  <2>1. "r" \in Modes /\ "w" \in Modes /\ (f = "r" \/ f = "w")
    BY Zenon, <1>3 DEF Modes
  <2> QED
    BY <1>10, <2>1 DEF Combo
<1>12. DeadlineArmed'
  <2>1. SUFFICES ASSUME NEW m \in Modes, dl'[m] > 0
                 PROVE  \/ \E b \in Callbacks' : ~Stale(b)' /\ m \in b.modes
                        \/ \E k \in Jobs : m \in job'[k].todo
    BY Zenon DEF DeadlineArmed
  <2>2. m # f /\ dl[m] > 0
    BY <1>10, <2>1
  <2>3. CASE m \in c.modes
    BY Zenon, <1>4, <1>6, <2>3
  <2>4. CASE m \notin c.modes
    <3>1. PICK b \in Callbacks : ~Stale(b) /\ m \in b.modes
      BY Zenon, <1>2, <1>6, <2>2 DEF TimerInv, DeadlineArmed
    <3>2. b \in Callbacks' /\ ~Stale(b)'
      BY Zenon, <1>5, <2>4, <3>1 DEF Callbacks, Stale
    <3> QED
      BY Zenon, <3>1, <3>2
  <2> QED
    BY Zenon, <2>3, <2>4
<1>13. ExpiryOf'
  <2>1. "rt" \in Jobs /\ "r" \in Modes /\ "w" \in Modes
    BY Zenon DEF Jobs, Modes
  <2>2. \A k \in Jobs : job'[k].at = "unblock" => k = j
    BY Zenon, <1>6
  <2>3. \A m \in c.modes : dl'[m] < 0 \/ (j = "rt" /\ m = "w" /\ "r" \in c.modes)
    BY SMTT(30), <1>2, <1>3, <1>4, <1>10 DEF Modes
  <2>4. "w" \in job'["rt"].todo => j = "rt" /\ c.modes = Modes /\ f = "r"
    BY SMTT(30), <1>2, <1>3, <1>4, <1>6, <2>1
  <2>5. c.modes = Modes => ~run["w"] /\ dl'["w"] > 0 /\ dl'["r"] < 0
    BY <1>2, <1>3, <1>10, <2>1 DEF TimerInv
  <2> QED
    BY ZenonT(60), <1>2, <1>5, <1>6, <2>2, <2>3, <2>4, <2>5 DEF ExpiryOf
<1>14. (\A b \in fired' : FiredOf(b)') /\ (\A m \in Modes : ArmedOf(m)')
  BY ZenonT(60), <1>5 DEF TimerInv, FiredOf, ArmedOf, Current, Stale
<1> QED
  BY Zenon, <1>2, <1>5, <1>9, <1>11, <1>12, <1>13, <1>14 DEF TimerInv

\* An armed timer, or a flag that is off: what a step that takes every flag off
\* and moves every sequence number on leaves behind.
LEMMA AllStale ==
  ASSUME SemInv, TimerInv, seq' = [m \in Modes |-> seq[m] + 1], fired' = fired,
         \A m \in Modes : ~run'[m] /\ timer'[m] = NoTimer
  PROVE  /\ \A c \in fired' : FiredOf(c)'
         /\ \A m \in Modes : ArmedOf(m)'
         /\ \A c \in Callbacks' : Stale(c)'
<1>1. \A c \in fired : FiredOf(c) /\ First(c.modes) \in Modes
  BY Zenon, FirstOf DEF TimerInv, FiredOf
<1>2. \A c \in fired : c.seq <= seq'[First(c.modes)] /\ Stale(c)'
  <2> TAKE c \in fired
  <2>1. /\ seq'[First(c.modes)] = seq[First(c.modes)] + 1 /\ seq[First(c.modes)] \in Nat
        /\ c.seq \in Nat /\ c.seq <= seq[First(c.modes)]
    BY ZenonT(60), <1>1 DEF SemInv, TypeOK, CallbackType, FiredOf
  <2>2. c.seq <= seq[First(c.modes)] + 1 /\ c.seq # seq[First(c.modes)] + 1
    BY <2>1
  <2> QED
    BY Zenon, <2>1, <2>2 DEF Stale
<1>3. Callbacks' = fired
  BY Zenon DEF Callbacks
<1>4. \A c \in fired' : FiredOf(c)'
  BY Zenon, <1>1, <1>2 DEF FiredOf, Current
<1> QED
  BY Zenon, <1>2, <1>3, <1>4 DEF ArmedOf

\* pollUnblock: no callback is current any more.
LEMMA PollUnblockTimers ==
  ASSUME SemInv, TimerInv, PollUnblock
  PROVE  TimerInv'
<1>1. /\ closing' = TRUE /\ seq' = [m \in Modes |-> seq[m] + 1]
      /\ run' = [m \in Modes |-> FALSE]
      /\ timer' = [m \in Modes |-> IF run[m] THEN NoTimer ELSE timer[m]]
      /\ fired' = fired /\ Begin("close", Modes) /\ lock = "free"
  BY Zenon DEF PollUnblock, Begin
<1>2. \A m \in Modes : ~run'[m] /\ timer'[m] = NoTimer
  BY Zenon, <1>1 DEF TimerInv, ArmedOf
<1>3. /\ \A c \in fired' : FiredOf(c)'
      /\ \A m \in Modes : ArmedOf(m)'
      /\ \A c \in Callbacks' : Stale(c)'
  BY Zenon, <1>1, <1>2, AllStale
<1>4. job'["rt"].todo = {}
  <2>1. "rt" \in Jobs /\ "rt" # "close" /\ lock # "rt"
    BY Zenon, <1>1 DEF Jobs
  <2>2. job["rt"].todo = {}
    BY Zenon, <2>1 DEF SemInv, JobOf
  <2> QED
    BY Zenon, <1>1, <2>1, <2>2 DEF Begin, SemInv, TypeOK
<1>5. ExpiryOf'
  BY Zenon, <1>1, <1>4 DEF ExpiryOf
<1> QED
  BY ZenonT(60), <1>1, <1>2, <1>3, <1>5 DEF TimerInv, SeqMatchesDeadline, DeadlineArmed, Modes

\* pollClose.
LEMMA PollCloseTimers ==
  ASSUME SemInv, TimerInv, PollClose
  PROVE  TimerInv'
<1>1. \A m \in Modes : pc[m] = "idle" /\ sem[m] = "nil"
  BY Zenon DEF SemInv, SemOf, PollClose, Away
<1>2. opened' = FALSE /\ closing /\ UNCHANGED <<closing, dl, run, seq, timer, fired, job>>
  BY Zenon, <1>1 DEF PollClose
<1>3. (\A c \in fired : FiredOf(c)') /\ (\A m \in Modes : ArmedOf(m)')
  BY Zenon, <1>2 DEF TimerInv, FiredOf, ArmedOf, Current, Stale
<1>4. SeqMatchesDeadline' /\ ExpiryOf'
  BY ZenonT(60), <1>2 DEF TimerInv, SeqMatchesDeadline, Callbacks, Stale, ExpiryOf
<1> QED
  BY Zenon, <1>2, <1>3, <1>4 DEF TimerInv, DeadlineArmed, Combo

\* pollOpen: callbacks of the last use of the descriptor are not current.
LEMMA PollOpenTimers ==
  ASSUME SemInv, TimerInv, PollOpen
  PROVE  TimerInv'
<1>1. \A m \in Modes : pc[m] = "idle" /\ sem[m] = "nil"
  BY Zenon DEF SemInv, SemOf, PollOpen, Away
<1>2. /\ ~opened /\ lock = "free" /\ closing' = FALSE
      /\ seq' = [m \in Modes |-> seq[m] + 1] /\ dl' = [m \in Modes |-> 0]
      /\ UNCHANGED <<run, timer, fired, job>>
  BY Zenon, <1>1 DEF PollOpen
<1>3. \A m \in Modes : ~run'[m] /\ timer'[m] = NoTimer
  BY Zenon, <1>2 DEF TimerInv, ArmedOf
<1>4. /\ \A c \in fired' : FiredOf(c)'
      /\ \A m \in Modes : ArmedOf(m)'
      /\ \A c \in Callbacks' : Stale(c)'
  BY Zenon, <1>2, <1>3, AllStale
<1>5. \A j \in Jobs : job[j].todo = {} /\ job[j].at # "unblock"
  <2>1. lock \notin Jobs
    BY Zenon, <1>2 DEF Jobs
  <2> QED
    BY Zenon, <2>1 DEF SemInv, JobOf
<1>6. ExpiryOf'
  BY Zenon, <1>2, <1>5 DEF ExpiryOf, Jobs
<1>7. \A m \in Modes : dl'[m] = 0
  BY Zenon, <1>2
<1> QED
  BY <1>2, <1>3, <1>4, <1>6, <1>7 DEF TimerInv, SeqMatchesDeadline, DeadlineArmed, Modes

\* What pollSetDeadline does to one mode: it leaves the timer of an unchanged
\* deadline alone, and otherwise makes every earlier callback stale.
LEMMA SetTimersOf ==
  ASSUME SemInv, TimerInv, NEW d \in [Modes -> Instants \cup {0, -1}], SetTimers(d), fired' = fired,
         NEW m \in Modes
  PROVE  /\ seq[m] \in Nat /\ seq'[m] \in Nat /\ seq'[m] >= seq[m]
         /\ run[m] /\ ~Changed(m, d) => run'[m] /\ seq'[m] = seq[m] /\ timer'[m] = timer[m]
         /\ ~(run[m] /\ ~Changed(m, d)) =>
              /\ run'[m] = Wants(m, d)
              /\ timer'[m] = IF Wants(m, d) THEN Callback(m, d, seq'[m]) ELSE NoTimer
              /\ \A c \in fired : First(c.modes) = m => c.seq # seq'[m]
<1>1. seq[m] \in Nat /\ seq'[m] \in Nat /\ seq'[m] >= seq[m]
  BY DEF SemInv, TypeOK, SetTimers
<1>2. CASE run[m] /\ ~Changed(m, d)
  BY Zenon, <1>1, <1>2 DEF SetTimers
<1>3. CASE run[m] /\ Changed(m, d)
  <2>1. \A c \in fired : First(c.modes) = m => c.seq \in Nat /\ c.seq <= seq[m]
    BY Zenon DEF TimerInv, FiredOf, SemInv, TypeOK, CallbackType
  <2>2. seq'[m] = seq[m] + 1 /\ run'[m] = Wants(m, d)
    BY Zenon, <1>3 DEF SetTimers
  <2>3. timer'[m] = IF Wants(m, d) THEN Callback(m, d, seq'[m]) ELSE NoTimer
    BY ZenonT(60), <1>3 DEF SetTimers
  <2>4. \A c \in fired : First(c.modes) = m => c.seq # seq'[m]
    BY <1>1, <2>1, <2>2
  <2> QED
    BY Zenon, <1>1, <1>3, <2>2, <2>3, <2>4
<1>4. CASE ~run[m]
  <2>1. timer[m] = NoTimer
    BY Zenon, <1>4 DEF TimerInv, ArmedOf
  <2>2. seq'[m] = seq[m] /\ run'[m] = Wants(m, d)
    BY Zenon, <1>4 DEF SetTimers
  <2>3. timer'[m] = IF Wants(m, d) THEN Callback(m, d, seq'[m]) ELSE NoTimer
    BY Zenon, <1>4, <2>1 DEF SetTimers
  <2>4. \A c \in fired : First(c.modes) = m => c.seq # seq'[m]
    BY Zenon, <1>4, <2>2 DEF TimerInv, FiredOf, Current, Stale
  <2> QED
    BY Zenon, <1>1, <1>4, <2>2, <2>3, <2>4
<1> QED
  BY ZenonT(60), <1>2, <1>3, <1>4

\* The callback a mode wants.
LEMMA WantedCallback ==
  ASSUME NEW d \in [Modes -> Instants \cup {0, -1}], NEW m \in Modes, Wants(m, d),
         NEW s, NEW c, c = Callback(m, d, s)
  PROVE  /\ c # NoTimer /\ c.seq = s /\ c.when = d[m] /\ c.when \in Instants
         /\ c.modes = {m} \/ (m = "r" /\ c.modes = Modes)
         /\ First(c.modes) = m /\ m \in c.modes
         /\ \A n \in c.modes : d[n] = d[m]
         /\ Combo(d) => c.modes = Modes
<1>1. c.modes = (IF Combo(d) THEN Modes ELSE {m}) /\ c.seq = s /\ c.when = d[m]
  BY Zenon DEF Callback
<1>2. d[m] \in Instants /\ ~(m = "w" /\ Combo(d))
  BY Zenon, DeadlinesInt DEF Wants
<1>3. c.modes # NoTimer.modes
  BY Zenon, <1>1 DEF NoTimer, Modes
<1>4. c.modes = {m} \/ (m = "r" /\ c.modes = Modes)
  BY Zenon, <1>1, <1>2 DEF Modes
<1>5. First(c.modes) = m /\ m \in c.modes
  BY Zenon, <1>4 DEF First, Modes
<1>6. \A n \in c.modes : d[n] = d[m]
  BY Zenon, <1>1 DEF Combo, Modes
<1> QED
  BY Zenon, <1>1, <1>2, <1>3, <1>4, <1>5, <1>6

\* What pollSetDeadline has done to the descriptor.
LEMMA SetDeadlineTimers ==
  ASSUME SemInv, TimerInv, NEW S \in SUBSET Modes, NEW i \in Instants \cup {0, -1}, SetDeadline(S, i)
  PROVE  TimerInv'
<1> PICK d : d = [m \in Modes |-> IF m \in S THEN i ELSE dl[m]]
  BY Zenon
<1> DEFINE T == {m \in Modes : d[m] < 0}
<1>1. /\ opened /\ ~closing /\ UNCHANGED <<opened, closing, fired>>
      /\ dl' = d /\ Begin("set", T) /\ SetTimers(d) /\ lock = "free"
  BY Zenon DEF SetDeadline, Begin
<1>2. d \in [Modes -> Instants \cup {0, -1}]
  BY Zenon DEF SemInv, TypeOK
<1>3. ASSUME NEW m \in Modes
      PROVE  /\ seq[m] \in Nat /\ seq'[m] \in Nat /\ seq'[m] >= seq[m]
             /\ run[m] /\ ~Changed(m, d) => run'[m] /\ seq'[m] = seq[m] /\ timer'[m] = timer[m]
             /\ ~(run[m] /\ ~Changed(m, d)) =>
                  /\ run'[m] = Wants(m, d)
                  /\ timer'[m] = IF Wants(m, d) THEN Callback(m, d, seq'[m]) ELSE NoTimer
                  /\ \A c \in fired : First(c.modes) = m => c.seq # seq'[m]
  BY ZenonT(60), <1>1, <1>2, SetTimersOf
<1>4. ASSUME NEW m \in Modes, timer'[m] # NoTimer, ~(run[m] /\ ~Changed(m, d))
      PROVE  /\ Wants(m, d) /\ timer'[m].seq = seq'[m] /\ timer'[m].when = d[m]
             /\ timer'[m].when \in Instants
             /\ timer'[m].modes = {m} \/ (m = "r" /\ timer'[m].modes = Modes)
             /\ First(timer'[m].modes) = m
             /\ \A n \in timer'[m].modes : d[n] = d[m]
  <2>1. Wants(m, d) /\ timer'[m] = Callback(m, d, seq'[m])
    BY Zenon, <1>3, <1>4
  <2> QED
    <3> PICK c : c = timer'[m]
      BY Zenon
    <3>1. /\ c.seq = seq'[m] /\ c.when = d[m] /\ c.when \in Instants
          /\ c.modes = {m} \/ (m = "r" /\ c.modes = Modes)
          /\ First(c.modes) = m /\ \A n \in c.modes : d[n] = d[m]
      <4>1. Wants(m, d) /\ c = Callback(m, d, seq'[m])
        BY Zenon, <2>1
      <4> QED
        BY <1>2, <4>1, WantedCallback
    <3> QED
      BY Zenon, <2>1, <3>1
<1>5. ASSUME NEW c \in fired
      PROVE  /\ First(c.modes) \in Modes /\ c.modes \in {{"r"}, {"w"}, Modes}
             /\ ~Stale(c)' => ~Stale(c) /\ run[First(c.modes)] /\ ~Changed(First(c.modes), d)
  <2>1. FiredOf(c) /\ First(c.modes) \in Modes /\ c.modes \in {{"r"}, {"w"}, Modes}
    BY Zenon, FirstOf DEF TimerInv, FiredOf
  <2> QED
    BY Zenon, <1>3, <2>1 DEF Stale
<1>6. \A c \in fired : FiredOf(c)'
  <2> TAKE c \in fired
  <2>1. FiredOf(c) /\ c.seq \in Nat
    BY ZenonT(60) DEF TimerInv, SemInv, TypeOK, CallbackType
  <2>2. c.seq <= seq'[First(c.modes)]
    <3>1. /\ c.seq <= seq[First(c.modes)] /\ seq'[First(c.modes)] >= seq[First(c.modes)]
          /\ seq[First(c.modes)] \in Nat /\ seq'[First(c.modes)] \in Nat
      BY Zenon, <1>3, <1>5, <2>1 DEF FiredOf
    <3> QED
      BY Zenon, <2>1, <3>1, StillBelow
  <2>3. ~Stale(c)' => run'[First(c.modes)]
    BY Zenon, <1>3, <1>5
  <2>4. \A b \in fired : First(b.modes) = First(c.modes) /\ ~Stale(b)' /\ ~Stale(c)' => b = c
    BY Zenon, <1>5, <2>1 DEF FiredOf, Current
  <2> QED
    BY Zenon, <1>1, <2>1, <2>2, <2>3, <2>4 DEF FiredOf, Current
<1>7. \A m \in Modes : ArmedOf(m)'
  <2> TAKE m \in Modes
  <2>1. CASE run[m] /\ ~Changed(m, d)
    <3>1. ArmedOf(m) /\ run'[m] /\ seq'[m] = seq[m] /\ timer'[m] = timer[m]
      BY Zenon, <1>3, <2>1 DEF TimerInv
    <3> QED
      BY Zenon, <1>1, <3>1 DEF ArmedOf, Stale
  <2>2. CASE ~(run[m] /\ ~Changed(m, d))
    <3>1. ASSUME timer'[m] # NoTimer
          PROVE  /\ timer'[m].modes = {m} \/ (m = "r" /\ timer'[m].modes = Modes)
                 /\ timer'[m].when \in Instants /\ timer'[m].seq = seq'[m] /\ run'[m]
      BY Zenon, <1>3, <1>4, <2>2, <3>1
    <3>2. \A c \in fired : First(c.modes) = m => Stale(c)'
      BY Zenon, <1>3, <2>2 DEF Stale
    <3> QED
      BY Zenon, <1>1, <3>1, <3>2 DEF ArmedOf
  <2> QED
    BY Zenon, <2>1, <2>2
<1>8. Combo(d) => ~run'["w"]
  <2>1. ASSUME Combo(d), run'["w"] PROVE FALSE
    <3>1. "w" \in Modes /\ ~Wants("w", d)
      BY Zenon, <2>1 DEF Wants, Modes
    <3>2. run["w"] /\ ~Changed("w", d)
      BY Zenon, <1>3, <2>1, <3>1
    <3>3. Combo(dl)
      BY Zenon, <2>1, <3>2 DEF Changed
    <3> QED
      BY Zenon, <3>2, <3>3 DEF TimerInv
  <2> QED
    BY Zenon, <2>1
<1>9. ASSUME NEW c \in Callbacks, ~Stale(c), ~Changed(First(c.modes), d)
      PROVE  \A m \in c.modes : d[m] = c.when
  <2>1. /\ c.modes \in {{"r"}, {"w"}, Modes}
        /\ \A m \in c.modes : m \in Modes /\ dl[m] = c.when /\ dl[m] > 0
        /\ c.modes = Modes => Combo(dl)
    BY Zenon, <1>9, CurrentCallback
  <2>2. First(c.modes) \in c.modes /\ (c.modes # Modes => c.modes = {First(c.modes)})
    BY Zenon, <2>1, FirstOf
  <2>3. d[First(c.modes)] = c.when /\ (Combo(dl) => Combo(d))
    BY Zenon, <1>9, <2>1, <2>2 DEF Changed
  <2>4. CASE c.modes = Modes
    BY Zenon, <2>1, <2>2, <2>3, <2>4 DEF Combo, Modes
  <2>5. CASE c.modes # Modes
    BY Zenon, <2>2, <2>3, <2>5
  <2> QED
    BY Zenon, <2>4, <2>5
<1>10. SeqMatchesDeadline'
  <2>1. SUFFICES ASSUME NEW c \in Callbacks', ~Stale(c)'
                 PROVE  \A m \in c.modes : d[m] = c.when
    BY Zenon, <1>1 DEF SeqMatchesDeadline
  <2>2. CASE c \in fired
    BY Zenon, <1>5, <1>9, <2>1, <2>2 DEF Callbacks
  <2>3. CASE c \notin fired
    <3>1. PICK n \in Modes : c = timer'[n] /\ timer'[n] # NoTimer
      BY Zenon, <1>1, <2>1, <2>3 DEF Callbacks
    <3>2. CASE run[n] /\ ~Changed(n, d)
      <4>1. c = timer[n] /\ timer[n] # NoTimer /\ seq'[n] = seq[n]
        BY Zenon, <1>3, <3>1, <3>2
      <4>2. First(c.modes) = n
        BY Zenon, <4>1 DEF TimerInv, ArmedOf, First, Modes
      <4>3. c \in Callbacks /\ ~Stale(c)
        BY ZenonT(60), <2>1, <4>1, <4>2 DEF Callbacks, Stale
      <4> QED
        BY ZenonT(60), <1>9, <3>2, <4>2, <4>3
    <3>3. CASE ~(run[n] /\ ~Changed(n, d))
      BY SMTT(30), <1>4, <3>1, <3>3
    <3> QED
      BY Zenon, <3>2, <3>3
  <2> QED
    BY Zenon, <2>2, <2>3
<1>11. \A k \in Jobs : job[k].todo = {} /\ job[k].at # "unblock"
  <2>1. lock \notin Jobs
    BY Zenon, <1>1 DEF Jobs
  <2> QED
    BY <2>1 DEF SemInv, JobOf
<1>12. ASSUME NEW c \in Callbacks, ~Stale(c), run[First(c.modes)], ~Changed(First(c.modes), d)
       PROVE  c \in Callbacks' /\ ~Stale(c)'
  <2>1. First(c.modes) \in Modes /\ (c \in fired \/ c = timer[First(c.modes)])
    BY Zenon, <1>12, CurrentCallback, FirstOf
  <2>2. seq'[First(c.modes)] = seq[First(c.modes)] /\ timer'[First(c.modes)] = timer[First(c.modes)]
    BY Zenon, <1>3, <1>12, <2>1
  <2>3. c \in Callbacks'
    BY ZenonT(60), <1>1, <1>12, <2>1, <2>2 DEF Callbacks
  <2> QED
    BY Zenon, <1>12, <2>2, <2>3 DEF Stale
<1>13. DeadlineArmed'
  <2>1. SUFFICES ASSUME NEW m \in Modes, d[m] > 0
                 PROVE  \E c \in Callbacks' : ~Stale(c)' /\ m \in c.modes
    BY Zenon, <1>1 DEF DeadlineArmed
  <2> PICK f : f = IF Combo(d) THEN "r" ELSE m
    BY Zenon
  <2>2. f \in Modes /\ Wants(f, d) /\ d[f] = d[m]
    BY Zenon, <2>1 DEF Wants, Combo, Modes
  <2>3. CASE run[f] /\ ~Changed(f, d)
    <3>1. d[f] = dl[f] /\ (Combo(d) <=> Combo(dl))
      BY Zenon, <2>3 DEF Changed
    <3>2. dl[m] = d[m]
      BY Zenon, <2>2, <3>1 DEF Combo, Modes
    <3>3. PICK c \in Callbacks : ~Stale(c) /\ m \in c.modes
      BY ZenonT(60), <1>1, <1>11, <2>1, <3>2 DEF TimerInv, DeadlineArmed
    <3>4. /\ c.modes = Modes => Combo(dl)
          /\ c.modes # Modes => c.modes = {First(c.modes)}
          /\ Combo(dl) => First(c.modes) = "r"
          /\ c.modes \in {{"r"}, {"w"}, Modes}
      BY Zenon, <3>3, CurrentCallback
    <3>5. First(c.modes) = f
      BY Zenon, <2>2, <3>1, <3>3, <3>4
    <3> QED
      BY Zenon, <1>12, <2>3, <3>3, <3>5
  <2>4. CASE ~(run[f] /\ ~Changed(f, d))
    <3> PICK c : c = timer'[f]
      BY Zenon
    <3>1. c = Callback(f, d, seq'[f]) /\ seq'[f] \in Nat
      BY ZenonT(60), <1>3, <2>2, <2>4
    <3>2. c # NoTimer /\ c.seq = seq'[f] /\ First(c.modes) = f /\ f \in c.modes /\ (Combo(d) => c.modes = Modes)
      BY <1>2, <2>2, <3>1, WantedCallback
    <3>3. c \in Callbacks' /\ ~Stale(c)'
      BY Zenon, <2>2, <3>2 DEF Callbacks, Stale
    <3> QED
      BY Zenon, <3>2, <3>3
  <2> QED
    BY Zenon, <2>3, <2>4
<1>14. ExpiryOf'
  <2>1. \A k \in Jobs \ {"set"} : job'[k] = job[k]
    BY Zenon, <1>1 DEF Begin, SemInv, TypeOK
  <2>2. T = {} \/ job'["set"].todo = T
    BY Zenon, <1>1 DEF Begin, SemInv, TypeOK, Jobs
  <2>3. T = {} => job' = job
    BY Zenon, <1>1 DEF Begin
  <2>4. "rt" \in Jobs /\ "rt" # "set"
    BY Zenon DEF Jobs
  <2>5. \A k \in Jobs : job'[k].at = "unblock" => \A m \in job'[k].todo : dl'[m] < 0
    BY ZenonT(60), <1>1, <1>11, <2>1, <2>2, <2>3
  <2>6. job'["rt"].todo = {}
    BY Zenon, <1>11, <2>1, <2>4
  <2> QED
    BY Zenon, <2>5, <2>6 DEF ExpiryOf
<1> QED
  BY ZenonT(60), <1>1, <1>6, <1>7, <1>8, <1>10, <1>13, <1>14 DEF TimerInv

----------------------------------------------------------------------------
(* The invariant *)

\* The other steps do not touch the deadlines or the timers.
LEMMA QuietTimers ==
  ASSUME SemInv, TimerInv,
         \/ \E m \in Modes : ResetCheck(m) \/ User(m) \/ Bump(m) \/ Reported(m)
         \/ \E j \in Jobs : Goready(j) \/ AdjustWaiters(j)
  PROVE  TimerInv'
<1>1. CASE \E m \in Modes : ResetCheck(m) \/ User(m) \/ Bump(m)
  <2>1. UNCHANGED <<fields, fired, job>>
    BY Zenon, <1>1 DEF ResetCheck, User, ResetStore, Submit, WaitCheck, Block, Recheck, Park, Swap,
                Bump, Throw, fields
  <2> QED
    BY Zenon, <2>1, TimersUntouched DEF fields
<1>2. CASE \E m \in Modes : Reported(m)
  <2>1. PICK m \in Modes, p \in Pollers : Netpoll(m, p)
    BY ZenonT(60), <1>2 DEF Reported
  <2>2. UNCHANGED <<fields, fired>> /\ job[p].todo = {} /\ p \in Jobs
    BY <2>1 DEF Netpoll, NoJob, Jobs, Pollers
  <2>3. /\ \A k \in Jobs \ {p} : job'[k] = job[k]
        /\ job'[p] = Rest(Parked(m))
    BY Zenon, <2>1, <2>2 DEF Netpoll, SemInv, TypeOK
  <2>4. Rest(Parked(m)).todo = {} /\ Rest(Parked(m)).at \notin {"unblock", "expire"}
    BY Zenon DEF Rest, NoJob
  <2>5. \A k \in Jobs : /\ job'[k].todo = job[k].todo
                        /\ job'[k].at \in {"unblock", "expire"} => job'[k].at = job[k].at
    BY Zenon, <2>2, <2>3, <2>4
  <2> QED
    BY Zenon, <2>2, <2>5, TimersUntouched DEF fields
<1>3. CASE \E j \in Jobs : Goready(j) \/ AdjustWaiters(j)
  <2>1. PICK j \in Jobs : Goready(j) \/ AdjustWaiters(j)
    BY Zenon, <1>3
  <2>2. UNCHANGED <<fields, fired>> /\ job[j].at \in {"ready", "adjust"}
    BY Zenon, <2>1 DEF Goready, AdjustWaiters
  <2>3. job[j].todo = {} /\ job[j] \in JobType
    BY Zenon, <2>2 DEF SemInv, JobOf, TypeOK
  <2>4. /\ \A k \in Jobs \ {j} : job'[k] = job[k]
        /\ job'[j].todo = {} /\ job'[j].at \notin {"unblock", "expire"}
    BY <2>1, <2>3 DEF Goready, AdjustWaiters, SemInv, TypeOK, NoJob, JobType
  <2>5. \A k \in Jobs : /\ job'[k].todo = job[k].todo
                        /\ job'[k].at \in {"unblock", "expire"} => job'[k].at = job[k].at
    BY Zenon, <2>3, <2>4
  <2> QED
    BY Zenon, <2>2, <2>5, TimersUntouched DEF fields
<1> QED
  BY Zenon, <1>1, <1>2, <1>3

\* A new descriptor: nothing is parked, armed or under way.
LEMMA InitInv == Init => IInv
<1> SUFFICES ASSUME Init PROVE IInv
  BY ZenonT(60)
<1>1. /\ NoJob \in JobType /\ NoTimer \in CallbackType
      /\ NoJob.at = "none" /\ NoJob.todo = {} /\ NoJob.wake = {} /\ NoJob.delta = 0
  BY DEF NoJob, NoTimer, JobType, CallbackType, Modes
<1>2. TypeOK
  <2>1. timer \in [Modes -> CallbackType] /\ fired \subseteq CallbackType
    BY Zenon, <1>1 DEF Init
  <2>2. job \in [Jobs -> JobType]
    BY Zenon, <1>1 DEF Init
  <2>3. /\ run \in [Modes -> BOOLEAN] /\ waitio \in [Modes -> BOOLEAN] /\ op \in [Modes -> BOOLEAN]
        /\ opened \in BOOLEAN /\ closing \in BOOLEAN /\ thrown \in BOOLEAN
    BY Zenon DEF Init
  <2> QED
    BY <2>1, <2>2, <2>3 DEF Init, TypeOK
<1>3. \A m \in Modes : SemOf(m) /\ WakeOf(m) /\ WatchOf(m)
  BY Zenon, <1>1 DEF Init, SemOf, WakeOf, WatchOf, Away
<1>4. Cardinality({}) = 0
  BY ZenonT(60), FS_EmptySet
<1>5. \A j \in Jobs : JobOf(j)
  BY <1>1, <1>4 DEF Init, JobOf, Jobs
<1>6. WaitersAccounted
  <2>1. {m \in Modes : sem[m] = "G"} = {}
    BY Zenon DEF Init
  <2> QED
    BY <1>1, <1>4, <2>1 DEF Init, WaitersAccounted, Jobs, Modes
<1>7. Callbacks = {}
  BY ZenonT(60) DEF Init, Callbacks
<1>8. TimerInv
  BY <1>1, <1>7 DEF Init, TimerInv, ArmedOf, Combo, ExpiryOf, SeqMatchesDeadline, DeadlineArmed,
                    Modes, Jobs
<1> QED
  BY Zenon, <1>2, <1>3, <1>5, <1>6, <1>8 DEF IInv, SemInv, Init

\* A step that changes nothing.
LEMMA StutterInv == IInv /\ UNCHANGED vars => IInv'
<1> SUFFICES ASSUME IInv, UNCHANGED vars PROVE IInv'
  BY ZenonT(60)
<1>1. SemInv'
  <2>1. TypeOK'
    BY Zenon DEF IInv, vars, SemInv, TypeOK
  <2>2. (\A j \in Jobs : JobOf(j)')
    BY Zenon DEF IInv, vars, SemInv, JobOf
  <2>3. (\A m \in Modes : SemOf(m)' /\ WakeOf(m)' /\ WatchOf(m)')
    BY Zenon DEF IInv, vars, SemInv, SemOf, WakeOf, WatchOf, Err
  <2> QED
    BY Zenon, <2>1, <2>2, <2>3 DEF IInv, vars, SemInv, WaitersAccounted
<1>2. TimerInv'
  BY Zenon, TimersUntouched DEF IInv, vars
<1> QED
  BY Zenon, <1>1, <1>2 DEF IInv

\* Every step keeps the invariant.
LEMMA NextInv == IInv /\ Next => IInv'
<1> SUFFICES ASSUME SemInv, TimerInv, Next PROVE SemInv' /\ TimerInv'
  BY Zenon DEF IInv
<1>1. CASE \E m \in Modes : ResetCheck(m) \/ User(m) \/ Bump(m) \/ Reported(m)
  <2>1. SemInv'
    BY Zenon, <1>1, ResetCheckSem, ResetStoreSem, SubmitSem, WaitCheckSem, BlockSem, RecheckSem, ParkSem,
       SwapSem, BumpSem, NetpollSem DEF User, Reported
  <2> QED
    BY Zenon, <1>1, <2>1, QuietTimers
<1>2. CASE \E m \in Modes : TimerFires(m)
  BY Zenon, <1>2, TimerFiresSem, TimerFiresTimers
<1>3. CASE \E j \in Jobs : Unblock(j) \/ ExpireWrite(j)
  BY Zenon, <1>3, UnblockSem, UnblockTimers, ExpireWriteSem, ExpireWriteTimers
<1>4. CASE \E j \in Jobs : Goready(j) \/ AdjustWaiters(j)
  BY Zenon, <1>4, GoreadySem, AdjustWaitersSem, QuietTimers
<1>5. CASE \E S \in SUBSET Modes \ {{}}, i \in Instants \cup {0, -1} : SetDeadline(S, i)
  BY Zenon, <1>5, SetDeadlineSem, SetDeadlineTimers
<1>6. CASE RunCallback
  BY Zenon, <1>6, StaleCallbackSem, StaleCallbackTimers, DeadlineCallbackSem, DeadlineCallbackTimers
     DEF RunCallback
<1>7. CASE PollUnblock
  BY Zenon, <1>7, PollUnblockSem, PollUnblockTimers
<1>8. CASE PollClose
  BY Zenon, <1>8, PollCloseSem, PollCloseTimers
<1>9. CASE PollOpen
  BY Zenon, <1>9, PollOpenSem, PollOpenTimers
<1> QED
  BY Zenon, <1>1, <1>2, <1>3, <1>4, <1>5, <1>6, <1>7, <1>8, <1>9 DEF Next, Work

\* The invariant holds of every descriptor, whatever deadlines are set on it and
\* however often it is used again.
THEOREM Invariance == Spec => []IInv
<1>1. IInv /\ [Next]_vars => IInv'
  BY Zenon, NextInv, StutterInv
<1> QED
  BY InitInv, <1>1, PTL DEF Spec

\* The fields of the descriptor, the jobs and the goroutines keep their types.
THEOREM TypeCorrect == Spec => []TypeOK
<1>1. IInv => TypeOK
  BY Zenon DEF IInv, SemInv
<1> QED
  BY Invariance, <1>1, PTL

\* None of the throws of netpollblock, netpollunblock, netpolldeadlineimpl,
\* pollClose and pollOpen is ever reached.
THEOREM NoThrow == Spec => []NeverThrows
<1>1. IInv => NeverThrows
  BY Zenon DEF IInv, SemInv, NeverThrows
<1> QED
  BY Invariance, <1>1, PTL

\* A goroutine that netpollblock has parked is in rg or wg with its operation
\* under way, or somebody is about to ready it; and if its wait should fail,
\* whoever set the deadline or evicted it has still to unblock it.
THEOREM NoLostWakeup == Spec => []ParkedIsWatched
<1>1. ASSUME IInv PROVE ParkedIsWatched
  <2> SUFFICES ASSUME NEW m \in Modes, pc[m] = "parked"
               PROVE  IF sem[m] = "G"
                      THEN /\ op[m]
                           /\ Err(m) /\ ~waitio[m] => \E j \in Jobs : m \in job[j].todo
                      ELSE \E j \in Jobs : m \in job[j].wake
    BY Zenon DEF ParkedIsWatched
  <2>1. SemOf(m) /\ WakeOf(m) /\ WatchOf(m)
    BY Zenon, <1>1 DEF IInv, SemInv
  <2>2. CASE sem[m] = "G"
    BY Zenon, <2>1, <2>2 DEF SemOf, WatchOf, Away
  <2>3. CASE sem[m] # "G"
    BY Zenon, <2>1, <2>3 DEF WakeOf
  <2> QED
    BY Zenon, <2>2, <2>3
<1>2. IInv => ParkedIsWatched
  BY Zenon, <1>1
<1> QED
  BY Invariance, <1>2, PTL

\* netpollWaiters counts the parked goroutines, up to the increments and
\* decrements under way.
THEOREM WaitersNeverDrift == Spec => []WaitersAccounted
<1>1. IInv => WaitersAccounted
  BY Zenon DEF IInv, SemInv
<1> QED
  BY Invariance, <1>1, PTL

\* rseq and wseq tell timers of old deadlines apart: a callback that passes
\* netpolldeadlineimpl's check was set for the deadline it expires.
THEOREM StaleTimersHarmless == Spec => []SeqMatchesDeadline
<1>1. IInv => SeqMatchesDeadline
  BY Zenon DEF IInv, TimerInv
<1> QED
  BY Invariance, <1>1, PTL

\* A deadline in the future always has a timer or a callback under way.
THEOREM DeadlinesNeverLost == Spec => []DeadlineArmed
<1>1. IInv => DeadlineArmed
  BY Zenon DEF IInv, TimerInv
<1> QED
  BY Invariance, <1>1, PTL

----------------------------------------------------------------------------
(* Completions *)

\* What a step may do to a completion that waits in rg or wg.
CompletionKept ==
  \A m \in Modes :
    sem[m] = "ready" /\ sem'[m] # "ready" =>
      \/ pc[m] \in {"block", "swap"} /\ pc'[m] = "idle"
      \/ pc[m] = "reset"
      \/ PollOpen

\* netpollunblock leaves pdReady as it is, whether or not it reports a completion.
LEMMA ReadyStays ==
  ASSUME TypeOK, NEW m \in Modes, sem[m] = "ready", NEW n \in Modes, NEW b \in BOOLEAN,
         sem' = [sem EXCEPT ![n] = Unblocked(n, b)]
  PROVE  sem'[m] = "ready"
<1>1. Unblocked(m, b) = "ready"
  BY Zenon DEF Unblocked
<1> QED
  BY Zenon, <1>1 DEF TypeOK

\* A completion leaves rg or wg only through the wait it is for, or through the
\* reset before the next operation.
THEOREM NoLostCompletion == Spec => CompletionsKept
<1>1. ASSUME IInv, Next PROVE CompletionKept
  <2> SUFFICES ASSUME NEW m \in Modes, sem[m] = "ready", sem'[m] # "ready"
               PROVE  \/ pc[m] \in {"block", "swap"} /\ pc'[m] = "idle"
                      \/ pc[m] = "reset"
                      \/ PollOpen
    BY Zenon DEF CompletionKept
  <2>1. TypeOK /\ sem'  # sem
    BY Zenon, <1>1 DEF IInv, SemInv
  <2>2. CASE \E n \in Modes : ResetCheck(n) \/ Submit(n) \/ WaitCheck(n) \/ Recheck(n) \/ Bump(n)
                              \/ TimerFires(n)
    BY Zenon, <2>1, <2>2 DEF ResetCheck, Submit, WaitCheck, Recheck, Bump, TimerFires
  <2>3. CASE \E n \in Modes : ResetStore(n) \/ Block(n) \/ Park(n) \/ Swap(n)
    <3>1. PICK n \in Modes : ResetStore(n) \/ Block(n) \/ Park(n) \/ Swap(n)
      BY Zenon, <2>3
    <3>2. n = m
      BY Zenon, <2>1, <3>1 DEF ResetStore, Block, Park, Swap, Throw, TypeOK
    <3> QED
      BY ZenonT(60), <2>1, <3>1, <3>2 DEF ResetStore, Block, Park, Swap, Throw, Consumed, Goto, TypeOK
  <2>4. CASE \E n \in Modes : Reported(n)
    BY Zenon, <2>1, <2>4, ReadyStays DEF Reported, Netpoll
  <2>5. CASE \E j \in Jobs : Unblock(j)
    <3>1. PICK j \in Jobs : Unblock(j)
      BY Zenon, <2>5
    <3>2. First(job[j].todo) \in Modes
      BY Zenon DEF First, Modes
    <3> QED
      BY Zenon, <2>1, <3>1, <3>2, ReadyStays DEF Unblock
  <2>6. CASE \E j \in Jobs : Goready(j) \/ AdjustWaiters(j) \/ ExpireWrite(j)
    BY Zenon, <2>1, <2>6 DEF Goready, AdjustWaiters, ExpireWrite
  <2>7. CASE \E S \in SUBSET Modes \ {{}}, i \in Instants \cup {0, -1} : SetDeadline(S, i)
    BY Zenon, <2>1, <2>7 DEF SetDeadline
  <2>8. CASE RunCallback \/ PollUnblock \/ PollClose
    BY Zenon, <2>1, <2>8 DEF RunCallback, StaleCallback, DeadlineCallback, PollUnblock, PollClose, Throw
  <2>9. CASE PollOpen
    BY Zenon, <2>9
  <2> QED
    BY Zenon, <1>1, <2>2, <2>3, <2>4, <2>5, <2>6, <2>7, <2>8, <2>9 DEF Next, User, Work
<1>2. IInv /\ [Next]_vars => [CompletionKept]_vars
  BY Zenon, <1>1
<1>3. Spec => [][CompletionKept]_vars
  BY Invariance, <1>2, PTL DEF Spec
<1> QED
  BY Zenon, <1>3 DEF CompletionKept, CompletionsKept

----------------------------------------------------------------------------
(* The descriptor implements PollSem *)

\* The deadline of a mode as PollSem sees it.
Abs(i) == IF i = 0 THEN "none" ELSE IF i < 0 THEN "past" ELSE "future"

\* Steps that change nothing PollSem sees.
LEMMA MapStutter ==
  ASSUME UNCHANGED <<closing, dl>>, \A m \in Modes : sem'[m] = "ready" <=> sem[m] = "ready"
  PROVE  UNCHANGED Poller!pollVars
<1>1. [m \in Modes |-> sem'[m] = "ready"] = [m \in Modes |-> sem[m] = "ready"]
  BY Zenon
<1> QED
  BY Zenon, <1>1 DEF Poller!pollVars

\* Steps that clear or set the semaphore of one mode.
LEMMA MapSem ==
  ASSUME UNCHANGED <<closing, dl>>, NEW m \in Modes, NEW b \in BOOLEAN,
         \A n \in Modes \ {m} : sem'[n] = sem[n],
         sem'[m] = "ready" <=> b
  PROVE  /\ ~b => Poller!PollReset(m)
         /\ ~b /\ sem[m] = "ready" => Poller!PollConsume(m)
         /\ b => Poller!PollNotify(m)
<1>1. [n \in Modes |-> sem'[n] = "ready"] = [[n \in Modes |-> sem[n] = "ready"] EXCEPT ![m] = b]
  BY Zenon
<1>2. b = TRUE \/ b = FALSE
  BY Zenon
<1> QED
  BY Zenon, <1>1, <1>2 DEF Poller!PollReset, Poller!PollConsume, Poller!PollNotify

\* Steps of a goroutine, and of jobs that do not change a deadline.
LEMMA MapQuiet ==
  ASSUME IInv,
         \/ \E m \in Modes : ResetCheck(m) \/ User(m) \/ Bump(m) \/ Reported(m) \/ TimerFires(m)
         \/ \E j \in Jobs : Unblock(j) \/ Goready(j) \/ AdjustWaiters(j)
         \/ \E c \in fired : StaleCallback(c)
         \/ PollClose
  PROVE  Poller!PollNext \/ UNCHANGED Poller!pollVars
<1>1. TypeOK /\ UNCHANGED <<closing, dl>>
  BY ZenonT(60) DEF IInv, SemInv, ResetCheck, User, ResetStore, Submit, WaitCheck, Block, Recheck, Park, Swap,
         Bump, Reported, Netpoll, TimerFires, Unblock, Goready, AdjustWaiters, StaleCallback, PollClose,
         Throw, fields
<1>2. CASE \E m \in Modes : ResetCheck(m) \/ Submit(m) \/ WaitCheck(m) \/ Recheck(m) \/ Bump(m)
                            \/ TimerFires(m)
  <2>1. UNCHANGED sem
    BY Zenon, <1>2 DEF ResetCheck, Submit, WaitCheck, Recheck, Bump, TimerFires
  <2> QED
    BY Zenon, <1>1, <2>1, MapStutter
<1>3. CASE \/ \E j \in Jobs : Goready(j) \/ AdjustWaiters(j)
           \/ \E c \in fired : StaleCallback(c)
           \/ PollClose
  <2>1. UNCHANGED sem
    BY Zenon, <1>3 DEF Goready, AdjustWaiters, StaleCallback, PollClose, Throw
  <2> QED
    BY Zenon, <1>1, <2>1, MapStutter
<1>4. CASE \E m \in Modes : ResetStore(m) \/ Block(m) \/ Park(m) \/ Swap(m)
  <2>1. PICK m \in Modes : ResetStore(m) \/ Block(m) \/ Park(m) \/ Swap(m)
    BY Zenon, <1>4
  <2>2. /\ \A n \in Modes \ {m} : sem'[n] = sem[n]
        /\ sem'[m] # "ready" \/ sem'[m] = sem[m]
    BY Zenon, <1>1, <2>1 DEF ResetStore, Block, Park, Swap, Throw, TypeOK
  <2>3. CASE sem'[m] # "ready"
    BY Zenon, <1>1, <2>2, <2>3, MapSem DEF Poller!PollNext, Poller!Modes, Modes
  <2>4. CASE sem'[m] = sem[m]
    BY Zenon, <1>1, <2>2, <2>4, MapStutter
  <2> QED
    BY Zenon, <2>2, <2>3, <2>4
<1>5. CASE \E m \in Modes : Reported(m)
  <2>1. PICK m \in Modes, p \in Pollers : Netpoll(m, p)
    BY Zenon, <1>5 DEF Reported
  <2>2. sem' = [sem EXCEPT ![m] = "ready"]
    BY Zenon, <2>1 DEF Netpoll, Unblocked
  <2>3. sem'[m] = "ready" /\ \A n \in Modes \ {m} : sem'[n] = sem[n]
    BY Zenon, <1>1, <2>2 DEF TypeOK
  <2>4. Poller!PollNotify(m)
    BY Zenon, <1>1, <2>3, MapSem
  <2> QED
    BY Zenon, <2>4 DEF Poller!PollNext, Poller!Modes, Modes
<1>6. CASE \E j \in Jobs : Unblock(j)
  <2>1. PICK j \in Jobs : Unblock(j)
    BY Zenon, <1>6
  <2> PICK n : n = First(job[j].todo)
    BY Zenon
  <2>2. n \in Modes /\ sem' = [sem EXCEPT ![n] = Unblocked(n, FALSE)]
    BY Zenon, <2>1 DEF Unblock, First, Modes
  <2>3. Unblocked(n, FALSE) = "ready" <=> sem[n] = "ready"
    BY Zenon, <1>1, <2>2 DEF Unblocked, TypeOK
  <2>4. \A m \in Modes : sem'[m] = "ready" <=> sem[m] = "ready"
    BY Zenon, <1>1, <2>2, <2>3 DEF TypeOK
  <2> QED
    BY Zenon, <1>1, <2>4, MapStutter
<1> QED
  BY Zenon, <1>2, <1>3, <1>4, <1>5, <1>6 DEF User

\* Steps that expire the deadline of one mode.
LEMMA MapExpire ==
  ASSUME TypeOK, NEW m \in Modes, dl[m] > 0, ~closing, dl' = [dl EXCEPT ![m] = -1],
         UNCHANGED <<closing, sem>>
  PROVE  Poller!PollNext
<1>1. /\ Abs(dl[m]) = "future" /\ Abs(dl'[m]) = "past"
      /\ \A n \in Modes \ {m} : dl'[n] = dl[n]
  BY DeadlinesInt DEF Abs, TypeOK
<1>2. [n \in Modes |-> Abs(dl'[n])] =
        [n \in Modes |-> IF n \in {m} THEN "past" ELSE [k \in Modes |-> Abs(dl[k])][n]]
  BY <1>1
<1>3. Poller!PollExpire({m})
  BY Zenon, <1>1, <1>2 DEF Poller!PollExpire, Poller!Modes, Modes, Abs
<1>4. {m} \in SUBSET Poller!Modes
  BY Zenon DEF Poller!Modes, Modes
<1> QED
  BY Zenon, <1>3, <1>4 DEF Poller!PollNext

\* pollSetDeadline.
LEMMA MapSetDeadline ==
  ASSUME IInv, NEW S \in SUBSET Modes, NEW i \in Instants \cup {0, -1}, SetDeadline(S, i)
  PROVE  Poller!PollNext
<1>1. /\ dl' = [m \in Modes |-> IF m \in S THEN i ELSE dl[m]]
      /\ UNCHANGED <<closing, sem>> /\ ~closing
  BY Zenon DEF SetDeadline
<1>2. Abs(i) \in Poller!Deadlines /\ S \in SUBSET Poller!Modes
  BY Zenon DEF Abs, Poller!Deadlines, Poller!Modes, Modes
<1>3. [n \in Modes |-> Abs(dl'[n])] =
        [n \in Modes |-> IF n \in S THEN Abs(i) ELSE [k \in Modes |-> Abs(dl[k])][n]]
  BY Zenon, <1>1
<1>4. Poller!PollSetDeadline(S, Abs(i))
  BY Zenon, <1>1, <1>3 DEF Poller!PollSetDeadline, Poller!Modes, Modes, Abs
<1> QED
  BY Zenon, <1>2, <1>4 DEF Poller!PollNext

\* A callback that is not stale expires a deadline in the future.
LEMMA MapCallback ==
  ASSUME IInv, NEW c \in fired, DeadlineCallback(c)
  PROVE  Poller!PollNext
<1>1. SemInv /\ TimerInv /\ TypeOK /\ ~Stale(c) /\ c \in Callbacks
  BY Zenon DEF IInv, SemInv, DeadlineCallback, Callbacks
<1>2. ~Inconsistent(c) /\ First(c.modes) \in c.modes /\ First(c.modes) \in Modes
  BY Zenon, <1>1, CurrentConsistent
<1>3. dl[First(c.modes)] > 0 /\ ~closing
  BY Zenon, <1>1, <1>2, CurrentCallback
<1>4. dl' = [dl EXCEPT ![First(c.modes)] = -1] /\ UNCHANGED <<closing, sem>>
  BY Zenon, <1>2 DEF DeadlineCallback
<1> QED
  BY Zenon, <1>1, <1>2, <1>3, <1>4, MapExpire

\* The write half of a callback that serves both modes: the lock has kept the
\* write deadline as the callback found it.
LEMMA MapExpireWrite ==
  ASSUME IInv, NEW j \in Jobs, ExpireWrite(j)
  PROVE  Poller!PollNext
<1>1. TypeOK /\ JobOf(j) /\ ExpiryOf
  BY Zenon DEF IInv, SemInv, TimerInv
<1>2. j = "rt" /\ "w" \in job["rt"].todo /\ job["rt"].at = "expire"
  BY Zenon, <1>1 DEF ExpireWrite, JobOf
<1>3. dl["w"] > 0 /\ ~closing /\ "w" \in Modes
  BY Zenon, <1>1, <1>2 DEF ExpiryOf, Modes
<1>4. dl' = [dl EXCEPT !["w"] = -1] /\ UNCHANGED <<closing, sem>>
  BY Zenon DEF ExpireWrite
<1> QED
  BY Zenon, <1>1, <1>3, <1>4, MapExpire

\* pollOpen: the reuse of an evicted descriptor, or the next try for one that
\* netpollopen refused.
LEMMA MapPollOpen ==
  ASSUME IInv, PollOpen
  PROVE  Poller!PollNext \/ UNCHANGED Poller!pollVars
<1>1. TypeOK /\ ~opened /\ \A m \in Modes : pc[m] = "idle" /\ sem[m] = "nil"
  BY Zenon DEF IInv, SemInv, SemOf, PollOpen, Away
<1>2. /\ closing' = FALSE /\ sem' = [m \in Modes |-> "nil"] /\ dl' = [m \in Modes |-> 0]
  BY Zenon, <1>1 DEF PollOpen
<1>3. CASE closing
  <2>1. [m \in Modes |-> sem'[m] = "ready"] = [m \in Modes |-> FALSE]
    BY Zenon, <1>2
  <2>2. [m \in Modes |-> Abs(dl'[m])] = [m \in Modes |-> "none"]
    BY Zenon, <1>2 DEF Abs
  <2>3. Poller!PollReuse
    BY Zenon, <1>2, <1>3, <2>1, <2>2 DEF Poller!PollReuse, Poller!Modes, Modes, Abs
  <2> QED
    BY Zenon, <2>3 DEF Poller!PollNext
<1>4. CASE ~closing
  <2>1. \A m \in Modes : dl[m] = 0
    BY Zenon, <1>1, <1>4 DEF IInv, TimerInv
  <2>2. dl' = dl /\ closing' = closing
    BY Zenon, <1>1, <1>2, <1>4, <2>1 DEF TypeOK
  <2>3. \A m \in Modes : sem'[m] = "ready" <=> sem[m] = "ready"
    BY Zenon, <1>1, <1>2
  <2> QED
    BY Zenon, <2>2, <2>3, MapStutter
<1> QED
  BY Zenon, <1>3, <1>4

\* Every step of the descriptor is a step of PollSem or changes nothing it sees.
LEMMA MapNext == IInv /\ [Next]_vars => [Poller!PollNext]_Poller!pollVars
<1> SUFFICES ASSUME IInv, [Next]_vars PROVE Poller!PollNext \/ UNCHANGED Poller!pollVars
  BY Zenon
<1>1. CASE UNCHANGED vars
  BY Zenon, <1>1, MapStutter DEF vars
<1>2. CASE PollUnblock
  <2>1. Poller!PollEvict
    BY Zenon, <1>2 DEF PollUnblock, Poller!PollEvict
  <2> QED
    BY Zenon, <2>1 DEF Poller!PollNext
<1> QED
  BY Zenon, <1>1, <1>2, MapQuiet, MapSetDeadline, MapCallback, MapExpireWrite, MapPollOpen
     DEF Next, Work, RunCallback

\* One pollDesc behaves as the binary semaphores with deadlines and eviction
\* that internal/poll relies on (and module FDWindows waits through).
THEOREM Refinement == Spec => ImplementsPollSem
<1>1. Init => Poller!PollInit
  <2>1. ASSUME Init
        PROVE  [m \in Modes |-> sem[m] = "ready"] = [m \in Modes |-> FALSE]
    BY Zenon, <2>1 DEF Init
  <2>2. ASSUME Init
        PROVE  [m \in Modes |-> Abs(dl[m])] = [m \in Modes |-> "none"]
    BY Zenon, <2>2 DEF Init, Abs
  <2> QED
    BY Zenon, <2>1, <2>2 DEF Init, Poller!PollInit, Poller!Modes, Modes, Abs
<1> QED
  BY <1>1, Invariance, MapNext, PTL DEF Spec, ImplementsPollSem, Poller!PollSemSpec
=============================================================================
