------------------------------ MODULE PollDesc ------------------------------
(***************************************************************************)
(* runtime/netpoll.go: one pollDesc of the runtime poller, as Windows uses *)
(* it.  In each mode one goroutine at a time resets the descriptor,        *)
(* submits an operation and waits for it (module FDWindows); meanwhile     *)
(* netpoll reports completions without the lock, and deadlines, timers and *)
(* pollUnblock change the descriptor under the lock.                       *)
(*                                                                         *)
(* A step is what other threads see as one: a compare-and-swap loop on rg  *)
(* or wg; or writing the fields the lock protects together with the        *)
(* publishInfo that shows them to netpollcheckerr.  Unblocking the         *)
(* waiters, readying them and counting them are steps of their own.        *)
(***************************************************************************)
EXTENDS Integers, FiniteSets

CONSTANTS UserModes,  \* the modes in which a goroutine does I/O
          Instants,   \* the deadlines that may be set (positive numbers)
          MaxSeq,     \* bound on rseq and wseq, which the code lets run free
          MaxBump     \* bound on parked goroutines netpollWaiters lags behind

Modes == {"r", "w"}

ASSUME UserModesAssumption == UserModes \subseteq Modes
ASSUME InstantsAssumption == Instants \subseteq Nat \ {0}
ASSUME BoundsAssumption == MaxSeq \in Nat /\ MaxBump \in Nat

VARIABLES
  opened,    \* the descriptor is in use, not in pollcache
  closing,   \* pd.closing
  sem,       \* rg and wg: "nil", "ready", "wait" or "G"
  dl,        \* rd and wd: 0 for none, an instant, or -1 when expired
  run,       \* rrun and wrun
  seq,       \* rseq and wseq
  timer,     \* rt and wt: the callback each is set to run, if any
  fired,     \* callbacks of timers that have gone off and not yet run
  lock,      \* who holds pd.lock: "free" or a job
  job,       \* what each caller into the poller has still to do
  pc,        \* where the goroutine of each mode is
  waitio,    \* netpollblock's waitio: it is in pollWaitCanceled
  op,        \* the kernel has an operation of this mode
  waiters,   \* netpollWaiters
  bump,      \* increments of netpollWaiters netpollblockcommit has still to do
  thrown     \* the runtime threw

fields == <<opened, closing, dl, run, seq, timer>>
vars == <<opened, closing, sem, dl, run, seq, timer, fired, lock, job, pc, waitio, op,
          waiters, bump, thrown>>

\* The Ms in netpoll.  Any number may be; the model lets two overlap.
Pollers == {"poll1", "poll2"}

\* pollSetDeadline, pollUnblock, the two timers' callbacks, and netpoll.
Jobs == {"set", "close", "rt", "wt", "poll1", "poll2"}

NoJob == [at |-> "none", todo |-> {}, wake |-> {}, delta |-> 0]

\* A timer's callback: the modes it expires, the sequence number and the instant
\* it was set with.
NoTimer == [modes |-> {}, seq |-> 0, when |-> 0]

TimerOf == [r |-> "rt", w |-> "wt"]

Init ==
  /\ opened = TRUE
  /\ closing = FALSE
  /\ sem = [m \in Modes |-> "nil"]
  /\ dl = [m \in Modes |-> 0]
  /\ run = [m \in Modes |-> FALSE]
  /\ seq = [m \in Modes |-> 1]
  /\ timer = [m \in Modes |-> NoTimer]
  /\ fired = {}
  /\ lock = "free"
  /\ job = [j \in Jobs |-> NoJob]
  /\ pc = [m \in Modes |-> "idle"]
  /\ waitio = [m \in Modes |-> FALSE]
  /\ op = [m \in Modes |-> FALSE]
  /\ waiters = 0
  /\ bump = [m \in Modes |-> 0]
  /\ thrown = FALSE

Goto(m, l) == pc' = [pc EXCEPT ![m] = l]

Throw == thrown' = TRUE /\ UNCHANGED <<opened, closing, sem, dl, run, seq, timer, fired,
                                       lock, job, pc, waitio, op, waiters, bump>>

\* netpollcheckerr: what publishInfo last showed.
Err(m) == closing \/ dl[m] < 0

----------------------------------------------------------------------------
(* The goroutine of a mode: pollReset, the operation, pollWait *)

ResetCheck(m) ==
  /\ pc[m] = "idle" /\ m \in UserModes /\ opened
  /\ ~Err(m)
  /\ Goto(m, "reset")
  /\ UNCHANGED <<fields, sem, fired, lock, job, waitio, op, waiters, bump, thrown>>

ResetStore(m) ==
  /\ pc[m] = "reset"
  /\ sem' = [sem EXCEPT ![m] = "nil"]
  /\ Goto(m, "submit")
  /\ UNCHANGED <<fields, fired, lock, job, waitio, op, waiters, bump, thrown>>

Submit(m) ==
  /\ pc[m] = "submit"
  /\ \/ op' = [op EXCEPT ![m] = TRUE] /\ Goto(m, "wait")
     \/ op' = op /\ Goto(m, "idle")
  /\ UNCHANGED <<fields, sem, fired, lock, job, waitio, waiters, bump, thrown>>

\* netpollcheckerr in pollWait, before and after netpollblock.  After an error
\* waitIO cancels the operation and calls pollWaitCanceled.
WaitCheck(m) ==
  /\ pc[m] = "wait"
  /\ waitio' = [waitio EXCEPT ![m] = Err(m)]
  /\ Goto(m, "block")
  /\ UNCHANGED <<fields, sem, fired, lock, job, op, waiters, bump, thrown>>

\* The wait is over: a completion was consumed.
Consumed(m) ==
  /\ Goto(m, "idle")
  /\ waitio' = [waitio EXCEPT ![m] = FALSE]

\* netpollblock until it has set the semaphore to pdWait.
Block(m) ==
  /\ pc[m] = "block"
  /\ \/ /\ sem[m] = "ready"
        /\ sem' = [sem EXCEPT ![m] = "nil"]
        /\ Consumed(m)
        /\ UNCHANGED <<fields, fired, lock, job, op, waiters, bump, thrown>>
     \/ /\ sem[m] = "nil"
        /\ sem' = [sem EXCEPT ![m] = "wait"]
        /\ Goto(m, "recheck")
        /\ UNCHANGED <<fields, fired, lock, job, waitio, op, waiters, bump, thrown>>
     \/ sem[m] \in {"wait", "G"} /\ Throw

\* Mutant: netpollblock does not check again after setting pdWait.
RecheckSkipped(m) ==
  /\ pc[m] = "recheck"
  /\ Goto(m, "park")
  /\ UNCHANGED <<fields, sem, fired, lock, job, waitio, op, waiters, bump, thrown>>

Recheck(m) ==
  /\ pc[m] = "recheck"
  /\ Goto(m, IF waitio[m] \/ ~Err(m) THEN "park" ELSE "swap")
  /\ UNCHANGED <<fields, sem, fired, lock, job, waitio, op, waiters, bump, thrown>>

\* gopark calls netpollblockcommit, which may find that it need not park.
Park(m) ==
  /\ pc[m] = "park"
  /\ bump[m] < MaxBump
  /\ IF sem[m] = "wait"
     THEN /\ sem' = [sem EXCEPT ![m] = "G"]
          /\ bump' = [bump EXCEPT ![m] = @ + 1]
          /\ Goto(m, "parked")
     ELSE Goto(m, "swap") /\ UNCHANGED <<sem, bump>>
  /\ UNCHANGED <<fields, fired, lock, job, waitio, op, waiters, thrown>>

\* netpollAdjustWaiters(1), on the thread that parked the goroutine.
Bump(m) ==
  /\ bump[m] > 0
  /\ bump' = [bump EXCEPT ![m] = @ - 1]
  /\ waiters' = waiters + 1
  /\ UNCHANGED <<fields, sem, fired, lock, job, pc, waitio, op, thrown>>

\* Mutant: the value swapped out is not looked at.
SwapForgets(m) ==
  /\ pc[m] = "swap"
  /\ sem' = [sem EXCEPT ![m] = "nil"]
  /\ Goto(m, IF waitio[m] THEN "block" ELSE "wait")
  /\ UNCHANGED <<fields, fired, lock, job, waitio, op, waiters, bump, thrown>>

\* gpp.Swap(pdNil), and the loops of pollWait and pollWaitCanceled.
Swap(m) ==
  /\ pc[m] = "swap"
  /\ IF sem[m] = "G" THEN Throw
     ELSE /\ sem' = [sem EXCEPT ![m] = "nil"]
          /\ IF sem[m] = "ready" THEN Consumed(m)
             ELSE Goto(m, IF waitio[m] THEN "block" ELSE "wait") /\ UNCHANGED waitio
          /\ UNCHANGED <<fields, fired, lock, job, op, waiters, bump, thrown>>

----------------------------------------------------------------------------
(* netpollunblock, and what its callers do afterwards *)

\* The semaphore of m after netpollunblock, and whether a goroutine was parked.
Unblocked(m, ioready) ==
  CASE sem[m] = "ready"              -> "ready"
    [] sem[m] = "nil" /\ ~ioready    -> "nil"
    [] OTHER                         -> IF ioready THEN "ready" ELSE "nil"
Parked(m) == IF sem[m] = "G" THEN {m} ELSE {}

First(S) == IF "r" \in S THEN "r" ELSE "w"

\* What is left after unlocking: the parked goroutines to ready and to discount.
Rest(W) == IF W = {} THEN NoJob
           ELSE [at |-> "ready", todo |-> {}, wake |-> W, delta |-> 0 - Cardinality(W)]

\* Under the lock, one waiter after the other.  A timer's callback expires the
\* write deadline only after it has unblocked the reader.
Unblock(j) ==
  /\ job[j].at = "unblock"
  /\ LET m == First(job[j].todo)
         left == job[j].todo \ {m}
         wake == job[j].wake \cup Parked(m) IN
     /\ sem' = [sem EXCEPT ![m] = Unblocked(m, FALSE)]
     /\ job' = [job EXCEPT ![j] =
                  IF left = {} THEN Rest(wake)
                  ELSE [at |-> IF j = "rt" THEN "expire" ELSE "unblock", todo |-> left,
                        wake |-> wake, delta |-> 0 - Cardinality(wake)]]
     /\ lock' = IF left = {} THEN "free" ELSE lock
  /\ UNCHANGED <<fields, fired, pc, waitio, op, waiters, bump, thrown>>

\* Mutant: the goroutine taken out of rg or wg is not readied.
GoreadySkipped(j) ==
  /\ job[j].at = "ready"
  /\ job' = [job EXCEPT ![j].at = "adjust", ![j].wake = {}]
  /\ UNCHANGED <<fields, sem, fired, lock, pc, waitio, op, waiters, bump, thrown>>

\* netpollgoready, or netpoll's list of goroutines to run.
Goready(j) ==
  /\ job[j].at = "ready"
  /\ pc' = [m \in Modes |-> IF m \in job[j].wake THEN "swap" ELSE pc[m]]
  /\ job' = [job EXCEPT ![j].at = "adjust", ![j].wake = {}]
  /\ UNCHANGED <<fields, sem, fired, lock, waitio, op, waiters, bump, thrown>>

\* Mutant: netpollWaiters is not decremented.
AdjustWaitersSkipped(j) ==
  /\ job[j].at = "adjust"
  /\ job' = [job EXCEPT ![j] = NoJob]
  /\ UNCHANGED <<fields, sem, fired, lock, pc, waitio, op, waiters, bump, thrown>>

AdjustWaiters(j) ==
  /\ job[j].at = "adjust"
  /\ waiters' = waiters + job[j].delta
  /\ job' = [job EXCEPT ![j] = NoJob]
  /\ UNCHANGED <<fields, sem, fired, lock, pc, waitio, op, bump, thrown>>

\* A job begins with the lock, and with modes to unblock.
Begin(j, S) ==
  /\ lock = "free" /\ job[j] = NoJob
  /\ job' = IF S = {} THEN job
            ELSE [job EXCEPT ![j] = [at |-> "unblock", todo |-> S, wake |-> {}, delta |-> 0]]
  /\ lock' = IF S = {} THEN "free" ELSE j

\* netpoll, on p, has a completion: netpollready, without the lock.
Netpoll(m, p) ==
  /\ op[m] /\ job[p] = NoJob
  /\ op' = [op EXCEPT ![m] = FALSE]
  /\ sem' = [sem EXCEPT ![m] = Unblocked(m, TRUE)]
  /\ job' = [job EXCEPT ![p] = Rest(Parked(m))]
  /\ UNCHANGED <<fields, fired, lock, pc, waitio, waiters, bump, thrown>>

----------------------------------------------------------------------------
(* pollSetDeadline *)

Combo(d) == d["r"] > 0 /\ d["r"] = d["w"]

\* The timer of mode m for deadlines d.  One timer, the read timer, serves both
\* when they fall on the same instant.
Wants(m, d) == d[m] > 0 /\ ~(m = "w" /\ Combo(d))
Callback(m, d, s) ==
  [modes |-> IF Combo(d) THEN Modes ELSE {m}, seq |-> s, when |-> d[m]]

\* Mutant: timers are left alone when deadlines start or stop to coincide.
ChangedIgnoringCombo(m, d) == d[m] # dl[m]

Changed(m, d) == d[m] # dl[m] \/ Combo(d) # Combo(dl)

\* Mutant: a changed deadline does not invalidate the timers.
SetTimersSameSeq(d) ==
  /\ seq' = seq
  /\ run' = [m \in Modes |-> IF run[m] /\ ~Changed(m, d) THEN TRUE ELSE Wants(m, d)]
  /\ timer' = [m \in Modes |->
                 IF run[m] /\ ~Changed(m, d) THEN timer[m]
                 ELSE IF Wants(m, d) THEN Callback(m, d, seq[m])
                 ELSE IF run[m] THEN NoTimer ELSE timer[m]]

\* rrun and wrun are as they were at the last change, whether or not the timer
\* has gone off since.
SetTimers(d) ==
  /\ seq' = [m \in Modes |-> IF run[m] /\ Changed(m, d) THEN seq[m] + 1 ELSE seq[m]]
  /\ run' = [m \in Modes |-> IF run[m] /\ ~Changed(m, d) THEN TRUE ELSE Wants(m, d)]
  /\ timer' = [m \in Modes |->
                 IF run[m] /\ ~Changed(m, d) THEN timer[m]
                 ELSE IF Wants(m, d) THEN Callback(m, d, seq'[m])
                 ELSE IF run[m] THEN NoTimer ELSE timer[m]]

SetDeadline(S, i) ==
  LET d == [m \in Modes |-> IF m \in S THEN i ELSE dl[m]] IN
  /\ opened /\ ~closing
  /\ \A m \in Modes : seq[m] < MaxSeq
  /\ Begin("set", {m \in Modes : d[m] < 0})
  /\ dl' = d
  /\ SetTimers(d)
  /\ UNCHANGED <<opened, closing, sem, fired, pc, waitio, op, waiters, bump, thrown>>

----------------------------------------------------------------------------
(* Timers and netpolldeadlineimpl *)

\* A timer goes off; its callback has yet to take the lock.
TimerFires(m) ==
  /\ timer[m] # NoTimer
  /\ fired' = fired \cup {timer[m]}
  /\ timer' = [timer EXCEPT ![m] = NoTimer]
  /\ UNCHANGED <<opened, closing, sem, dl, run, seq, lock, job, pc, waitio, op, waiters, bump, thrown>>

\* Mutant: callbacks of old timers are not told apart.
StaleNever(c) == FALSE

Stale(c) == c.seq # seq[First(c.modes)]

Inconsistent(c) ==
  \/ "r" \in c.modes /\ (dl["r"] <= 0 \/ ~run["r"])
  \/ "w" \in c.modes /\ (dl["w"] <= 0 \/ (~run["w"] /\ "r" \notin c.modes))

StaleCallback(c) ==
  /\ lock = "free" /\ Stale(c)
  /\ fired' = fired \ {c}
  /\ UNCHANGED <<fields, sem, lock, job, pc, waitio, op, waiters, bump, thrown>>

DeadlineCallback(c) ==
  /\ lock = "free" /\ ~Stale(c)
  /\ IF Inconsistent(c) THEN Throw
     ELSE /\ fired' = fired \ {c}
          /\ Begin(TimerOf[First(c.modes)], c.modes)
          /\ dl' = [dl EXCEPT ![First(c.modes)] = -1]
          /\ UNCHANGED <<opened, closing, run, seq, timer, sem, pc, waitio, op, waiters, bump, thrown>>

\* The write half of a callback that serves both modes.
ExpireWrite(j) ==
  /\ job[j].at = "expire"
  /\ dl' = [dl EXCEPT !["w"] = -1]
  /\ job' = [job EXCEPT ![j].at = "unblock"]
  /\ UNCHANGED <<opened, closing, run, seq, timer, sem, fired, lock, pc, waitio, op, waiters, bump, thrown>>

----------------------------------------------------------------------------
(* pollUnblock, pollClose and pollOpen *)

\* Mutant: pollUnblock leaves the waiters where they are.
PollUnblockQuiet ==
  /\ opened /\ ~closing
  /\ Begin("close", {})
  /\ closing' = TRUE
  /\ seq' = [m \in Modes |-> seq[m] + 1]
  /\ run' = [m \in Modes |-> FALSE]
  /\ timer' = [m \in Modes |-> IF run[m] THEN NoTimer ELSE timer[m]]
  /\ UNCHANGED <<opened, dl, sem, fired, pc, waitio, op, waiters, bump, thrown>>

PollUnblock ==
  /\ opened /\ ~closing
  /\ Begin("close", Modes)
  /\ closing' = TRUE
  /\ seq' = [m \in Modes |-> seq[m] + 1]
  /\ run' = [m \in Modes |-> FALSE]
  /\ timer' = [m \in Modes |-> IF run[m] THEN NoTimer ELSE timer[m]]
  /\ UNCHANGED <<opened, dl, sem, fired, pc, waitio, op, waiters, bump, thrown>>

\* destroy calls pollClose when nobody uses the FD any more: no goroutine is in
\* an operation or in SetDeadline, and Close is past its evict.
PollClose ==
  /\ opened /\ closing
  /\ \A m \in Modes : pc[m] = "idle"
  /\ job["set"] = NoJob /\ job["close"] = NoJob
  /\ IF \E m \in Modes : sem[m] \in {"wait", "G"} THEN Throw
     ELSE /\ opened' = FALSE
          /\ UNCHANGED <<closing, sem, dl, run, seq, timer, fired, lock, job, pc, waitio,
                         op, waiters, bump, thrown>>

\* Mutant: the descriptor keeps the deadlines of its last use.
PollOpenKeepsDeadlines ==
  /\ ~opened /\ lock = "free"
  /\ \A m \in Modes : seq[m] < MaxSeq
  /\ opened' = TRUE
  /\ closing' = FALSE
  /\ seq' = [m \in Modes |-> seq[m] + 1]
  /\ sem' = [m \in Modes |-> "nil"]
  /\ UNCHANGED <<dl, run, timer, fired, lock, job, pc, waitio, op, waiters, bump, thrown>>

\* pollcache hands the descriptor out again; callbacks of old timers may be about.
\* When netpollopen refuses the handle the descriptor goes straight back.
PollOpen ==
  /\ ~opened /\ lock = "free"
  /\ \A m \in Modes : seq[m] < MaxSeq
  /\ IF \E m \in Modes : sem[m] \in {"wait", "G"} THEN Throw
     ELSE /\ opened' \in BOOLEAN
          /\ closing' = FALSE
          /\ seq' = [m \in Modes |-> seq[m] + 1]
          /\ sem' = [m \in Modes |-> "nil"]
          /\ dl' = [m \in Modes |-> 0]
          /\ UNCHANGED <<run, timer, fired, lock, job, pc, waitio, op, waiters, bump, thrown>>

----------------------------------------------------------------------------
\* A completion in mode m is reported.
Reported(m) == \E p \in Pollers : Netpoll(m, p)

User(m) ==
  \/ ResetStore(m) \/ Submit(m) \/ WaitCheck(m) \/ Block(m) \/ Recheck(m)
  \/ Park(m) \/ Swap(m)

Work(j) == Unblock(j) \/ Goready(j) \/ AdjustWaiters(j) \/ ExpireWrite(j)

RunCallback == \E c \in fired : StaleCallback(c) \/ DeadlineCallback(c)

Next ==
  /\ ~thrown
  /\ \/ \E m \in Modes : ResetCheck(m) \/ User(m) \/ Bump(m) \/ Reported(m) \/ TimerFires(m)
     \/ \E j \in Jobs : Work(j)
     \/ \E S \in SUBSET Modes \ {{}}, i \in Instants \cup {0, -1} : SetDeadline(S, i)
     \/ RunCallback
     \/ PollUnblock \/ PollClose \/ PollOpen

Spec == Init /\ [][Next]_vars

\* Goroutines and threads that can run do run, and a cancelled operation is
\* completed: then netpoll reports it.
Fairness ==
  /\ \A m \in Modes : WF_vars(User(m)) /\ WF_vars(Bump(m)) /\ WF_vars(waitio[m] /\ Reported(m))
  /\ \A j \in Jobs : WF_vars(Work(j))
  /\ WF_vars(RunCallback)

FairSpec == Spec /\ Fairness

----------------------------------------------------------------------------
(* Properties *)

CallbackType == [modes : SUBSET Modes, seq : Nat, when : Nat]
JobType == [at : {"none", "unblock", "expire", "ready", "adjust"},
            todo : SUBSET Modes, wake : SUBSET Modes, delta : Int]

\* The fields of the descriptor, the callers' jobs and the goroutines keep
\* their types.
TypeOK ==
  /\ opened \in BOOLEAN /\ closing \in BOOLEAN
  /\ sem \in [Modes -> {"nil", "ready", "wait", "G"}]
  /\ dl \in [Modes -> Instants \cup {0, -1}]
  /\ run \in [Modes -> BOOLEAN]
  /\ seq \in [Modes -> Nat]
  /\ timer \in [Modes -> CallbackType]
  /\ fired \subseteq CallbackType
  /\ lock \in Jobs \cup {"free"}
  /\ job \in [Jobs -> JobType]
  /\ pc \in [Modes -> {"idle", "reset", "submit", "wait", "block", "recheck", "park",
                       "parked", "swap"}]
  /\ waitio \in [Modes -> BOOLEAN]
  /\ op \in [Modes -> BOOLEAN]
  /\ waiters \in Int
  /\ bump \in [Modes -> Nat]
  /\ thrown \in BOOLEAN

\* None of the runtime's consistency checks fails: no double wait, no corrupted
\* or blocked descriptor when it is closed or reused, no inconsistent deadline.
NeverThrows == ~thrown

\* No goroutine sleeps through what it waits for.  One that is parked is in rg
\* or wg, or somebody is about to ready it; and if its operation is complete, or
\* it should fail because of a deadline or eviction, whoever brought that about
\* has still to unblock it.
ParkedIsWatched ==
  \A m \in Modes :
    pc[m] = "parked" =>
      IF sem[m] = "G"
      THEN /\ op[m]
           /\ Err(m) /\ ~waitio[m] => \E j \in Jobs : m \in job[j].todo
      ELSE \E j \in Jobs : m \in job[j].wake

Callbacks == fired \cup ({timer[m] : m \in Modes} \ {NoTimer})

\* A timer callback whose sequence number is current was set for the deadlines
\* it will expire: one from an earlier deadline, or from an earlier use of the
\* descriptor, never expires a later one.
SeqMatchesDeadline ==
  \A c \in Callbacks : ~Stale(c) => \A m \in c.modes : dl[m] = c.when

\* Every deadline that has not passed will: some timer or callback for it is
\* armed or on its way.
DeadlineArmed ==
  \A m \in Modes :
    opened /\ ~closing /\ dl[m] > 0 =>
      \/ \E c \in Callbacks : ~Stale(c) /\ m \in c.modes
      \/ \E j \in Jobs : m \in job[j].todo

\* netpollWaiters is the number of parked goroutines, up to the increments and
\* decrements under way: it never drifts.
WaitersAccounted ==
  waiters + bump["r"] + bump["w"]
    + job["set"].delta + job["close"].delta + job["rt"].delta + job["wt"].delta
    + job["poll1"].delta + job["poll2"].delta
  = Cardinality({m \in Modes : sem[m] = "G"})

\* A completion is lost only to the wait it is for, or to the reset before the
\* next operation: netpollblock's last swap and a timeout that races the
\* completion do not drop it.
CompletionsKept ==
  [][\A m \in Modes :
       sem[m] = "ready" /\ sem'[m] # "ready" =>
         \/ pc[m] \in {"block", "swap"} /\ pc'[m] = "idle"
         \/ pc[m] = "reset"
         \/ PollOpen]_vars

\* A wait whose operation is complete ends.
CompletedWaitEnds ==
  \A m \in Modes : pc[m] = "parked" /\ ~op[m] ~> pc[m] = "idle"

\* Eviction ends every wait: the goroutine stops waiting for its operation,
\* cancels it, and its wait for the cancelled operation ends as well.
EvictionEndsWaits ==
  \A m \in Modes : closing /\ pc[m] # "idle" ~> pc[m] = "idle"

\* The descriptor behaves as the abstract poller that internal/poll relies on.
Poller == INSTANCE PollSem WITH
  ready <- [m \in Modes |-> sem[m] = "ready"],
  evicted <- closing,
  deadline <- [m \in Modes |-> IF dl[m] = 0 THEN "none" ELSE IF dl[m] < 0 THEN "past" ELSE "future"]

ImplementsPollSem == Poller!PollSemSpec
=============================================================================
