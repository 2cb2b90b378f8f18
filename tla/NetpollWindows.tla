--------------------------- MODULE NetpollWindows ---------------------------
(***************************************************************************)
(* runtime/netpoll_windows.go, and the protocol by which the scheduler     *)
(* (proc.go) has one M at a time block in netpoll and wakes it.  The M     *)
(* publishes in sched.pollUntil how long its poll may last.  Whoever needs *)
(* an M earlier (wakeNetPoller, or another M in findRunnable) compares and *)
(* breaks the poll with a packet of its own.  Other Ms call netpoll(0) at  *)
(* any time and may take any packet off the port, that one included.       *)
(*                                                                         *)
(* How findRunnable works out the time it wants to poll to (spinning, the  *)
(* timer heaps) is not modelled: it may be any time.  The completion port  *)
(* is external, a set of packets: the break packet, those of operations,   *)
(* and the wait completion packet of each M's high resolution timer.       *)
(***************************************************************************)
EXTENDS Integers

CONSTANTS Ms,         \* the Ms
          Instants,   \* times; 0 stands for none
          Operations  \* operations whose completion packets arrive

ASSUME InstantsAssumption == Instants \subseteq Nat \ {0}
ASSUME PacketsAssumption == "break" \notin Ms \cup Operations

VARIABLES
  hiRes,      \* haveHighResSleep: Ms have high resolution timers (not on XP)
  polling,    \* sched.lastpoll is zero
  pollUntil,  \* sched.pollUntil
  wakeSig,    \* netpollWakeSig
  queue,      \* packets on the completion port
  armed,      \* the Ms whose wait completion packet waits for its timer
  pc,         \* where each M is
  until,      \* its pollUntil in findRunnable, or when in wakeNetPoller
  delay,      \* netpoll's delay: "block", "timed" or "zero"
  entries,    \* the packets netpoll has to go through
  owner,      \* it polls for findRunnable: it has set sched.lastpoll to zero
  asked       \* history: the times for which the present poll was found to be
              \* early enough, or was to be broken

vars == <<hiRes, polling, pollUntil, wakeSig, queue, armed, pc, until, delay, entries, owner, asked>>
schedVars == <<polling, pollUntil, owner, asked>>
portVars  == <<wakeSig, queue, armed>>

Packets == {"break"} \cup Operations \cup Ms
Times == Instants \cup {0}

Init ==
  /\ hiRes \in BOOLEAN
  /\ polling = FALSE
  /\ pollUntil = 0
  /\ wakeSig = FALSE
  /\ queue = {}
  /\ armed = {}
  /\ pc = [t \in Ms |-> "run"]
  /\ until = [t \in Ms |-> 0]
  /\ delay = [t \in Ms |-> "zero"]
  /\ entries = [t \in Ms |-> {}]
  /\ owner = [t \in Ms |-> FALSE]
  /\ asked = {}

Goto(t, l) == pc' = [pc EXCEPT ![t] = l]

\* A poll until time a (0 for no end) goes on beyond time b.
Beyond(a, b) == a = 0 \/ a > b

\* The M goes on with something else, or stops; its locals are gone.
Rest(t) ==
  /\ Goto(t, "run")
  /\ until' = [until EXCEPT ![t] = 0]
  /\ delay' = [delay EXCEPT ![t] = "zero"]

----------------------------------------------------------------------------
(* findRunnable *)

\* The M has found nothing to run, and w is the next timer it knows of.
FindRunnable(t, w) ==
  /\ pc[t] = "run"
  /\ until' = [until EXCEPT ![t] = w]
  /\ Goto(t, "swap")
  /\ UNCHANGED <<hiRes, schedVars, portVars, delay, entries>>

\* sched.lastpoll.Swap(0), which is not tried when there is no timer and no
\* goroutine waits for the network.
BecomePoller(t) ==
  /\ pc[t] = "swap"
  /\ ~polling
  /\ polling' = TRUE
  /\ owner' = [owner EXCEPT ![t] = TRUE]
  /\ asked' = {}
  /\ Goto(t, "store")
  /\ UNCHANGED <<hiRes, pollUntil, portVars, until, delay, entries>>

NotPoller(t) ==
  /\ pc[t] = "swap"
  /\ polling \/ until[t] = 0
  /\ IF until[t] # 0
     THEN Goto(t, "load") /\ UNCHANGED <<until, delay>>
     ELSE Rest(t)
  /\ UNCHANGED <<hiRes, schedVars, portVars, entries>>

\* The delay, which is zero when the time has come already.
Delays(w) == IF w = 0 THEN {"block"} ELSE {"timed", "zero"}

\* Mutant: the end of the poll is not published.
StorePollUntilSkipped(t) ==
  /\ pc[t] = "store"
  /\ \E d \in Delays(until[t]) : delay' = [delay EXCEPT ![t] = d]
  /\ Goto(t, "netpoll")
  /\ UNCHANGED <<hiRes, schedVars, portVars, until, entries>>

StorePollUntil(t) ==
  /\ pc[t] = "store"
  /\ pollUntil' = until[t]
  /\ \E d \in Delays(until[t]) : delay' = [delay EXCEPT ![t] = d]
  /\ Goto(t, "netpoll")
  /\ UNCHANGED <<hiRes, polling, owner, asked, portVars, until, entries>>

\* Mutant: the end of the poll is still there when the next one begins.
ClearPollUntilSkipped(t) ==
  /\ pc[t] = "clear"
  /\ Goto(t, "release")
  /\ UNCHANGED <<hiRes, schedVars, portVars, until, delay, entries>>

ClearPollUntil(t) ==
  /\ pc[t] = "clear"
  /\ pollUntil' = 0
  /\ Goto(t, "release")
  /\ UNCHANGED <<hiRes, polling, owner, asked, portVars, until, delay, entries>>

\* sched.lastpoll.Store(now)
StoreLastpoll(t) ==
  /\ pc[t] = "release"
  /\ polling' = FALSE
  /\ owner' = [owner EXCEPT ![t] = FALSE]
  /\ Rest(t)
  /\ UNCHANGED <<hiRes, pollUntil, asked, portVars, entries>>

\* Somebody else polls: break that poll if it would go on for too long.  The
\* end of findRunnable and of wakeNetPoller.
LoadPollUntil(t) ==
  /\ pc[t] = "load"
  /\ asked' = asked \cup {until[t]}
  /\ IF Beyond(pollUntil, until[t])
     THEN Goto(t, "break") /\ UNCHANGED <<until, delay>>
     ELSE Rest(t)
  /\ UNCHANGED <<hiRes, polling, pollUntil, owner, portVars, entries>>

----------------------------------------------------------------------------
(* wakeNetPoller *)

WakeNetPoller(t, w) ==
  /\ pc[t] = "run"
  /\ until' = [until EXCEPT ![t] = w]
  /\ Goto(t, "wake")
  /\ UNCHANGED <<hiRes, schedVars, portVars, delay, entries>>

\* Without a poller the call ends in wakep.
LoadLastpoll(t) ==
  /\ pc[t] = "wake"
  /\ IF polling
     THEN Goto(t, "load") /\ UNCHANGED <<until, delay>>
     ELSE Rest(t)
  /\ UNCHANGED <<hiRes, schedVars, portVars, entries>>

----------------------------------------------------------------------------
(* netpollBreak *)

\* A netpoll that forwards the packet goes on; the others are done.
AfterBreak(t) ==
  IF entries[t] # {} \/ owner[t]
  THEN Goto(t, "process") /\ UNCHANGED <<until, delay>>
  ELSE Rest(t)

\* Mutant: the packet is posted whether or not one is in flight.
BreakSwapAlways(t) ==
  /\ pc[t] = "break"
  /\ wakeSig' = TRUE
  /\ Goto(t, "post")
  /\ UNCHANGED <<hiRes, schedVars, queue, armed, until, delay, entries>>

\* netpollWakeSig.CompareAndSwap(0, 1)
BreakSwap(t) ==
  /\ pc[t] = "break"
  /\ wakeSig' = TRUE
  /\ IF wakeSig THEN AfterBreak(t) ELSE Goto(t, "post") /\ UNCHANGED <<until, delay>>
  /\ UNCHANGED <<hiRes, schedVars, queue, armed, entries>>

BreakPost(t) ==
  /\ pc[t] = "post"
  /\ queue' = queue \cup {"break"}
  /\ AfterBreak(t)
  /\ UNCHANGED <<hiRes, schedVars, wakeSig, armed, entries>>

----------------------------------------------------------------------------
(* netpoll *)

\* netpoll(0): startTheWorld, findRunnable before it steals, pollWork, sysmon.
PollNow(t) ==
  /\ pc[t] = "run"
  /\ Goto(t, "netpoll")
  /\ UNCHANGED <<hiRes, schedVars, portVars, until, delay, entries>>

Leave(t) ==
  IF owner[t]
  THEN Goto(t, "clear") /\ UNCHANGED <<until, delay>>
  ELSE Rest(t)

UsesTimer(t) == delay[t] = "timed" /\ hiRes

\* netpollQueueTimer takes the packet back and associates it with the timer
\* anew.  The timer may have gone off by then, and the packet been queued.
QueueTimer(t) ==
  /\ pc[t] = "netpoll" /\ UsesTimer(t)
  /\ \/ /\ queue' = queue \ {t}
        /\ armed' = armed \cup {t}
        /\ Goto(t, "wait")
        /\ UNCHANGED <<until, delay>>
     \/ /\ queue' \in {queue \ {t}, queue \cup {t}}
        /\ armed' = armed \ {t}
        /\ Leave(t)
  /\ UNCHANGED <<hiRes, schedVars, wakeSig, entries>>

\* There is no such timer, or its packet cannot be taken back now.
NoTimer(t) ==
  /\ pc[t] = "netpoll"
  /\ UsesTimer(t) => t \in armed
  /\ Goto(t, "wait")
  /\ UNCHANGED <<hiRes, schedVars, portVars, until, delay, entries>>

\* GetQueuedCompletionStatusEx takes some packets, GetQueuedCompletionStatus one.
Dequeue(t) ==
  /\ pc[t] = "wait"
  /\ \E S \in (SUBSET queue) \ {{}} :
       /\ entries' = [entries EXCEPT ![t] = S]
       /\ queue' = queue \ S
  /\ Goto(t, "process")
  /\ UNCHANGED <<hiRes, schedVars, wakeSig, armed, until, delay>>

\* WAIT_TIMEOUT
TimeOut(t) ==
  /\ pc[t] = "wait"
  /\ delay[t] # "block" /\ queue = {}
  /\ Leave(t)
  /\ UNCHANGED <<hiRes, schedVars, portVars, entries>>

\* Mutant: a poll that does not wait keeps the break packet to itself.
ProcessKeeps(t, p) ==
  /\ pc[t] = "process"
  /\ p \in entries[t]
  /\ entries' = [entries EXCEPT ![t] = @ \ {p}]
  /\ wakeSig' = (p # "break" /\ wakeSig)
  /\ UNCHANGED <<hiRes, schedVars, queue, armed, pc, until, delay>>

Process(t, p) ==
  /\ pc[t] = "process"
  /\ p \in entries[t]
  /\ entries' = [entries EXCEPT ![t] = @ \ {p}]
  /\ wakeSig' = (p # "break" /\ wakeSig)
  /\ Goto(t, IF p = "break" /\ delay[t] = "zero" THEN "break" ELSE "process")
  /\ UNCHANGED <<hiRes, schedVars, queue, armed, until, delay>>

Processed(t) ==
  /\ pc[t] = "process"
  /\ entries[t] = {}
  /\ Leave(t)
  /\ UNCHANGED <<hiRes, schedVars, portVars, entries>>

----------------------------------------------------------------------------
(* The kernel *)

Complete(o) ==
  /\ queue' = queue \cup {o}
  /\ UNCHANGED <<hiRes, schedVars, wakeSig, armed, pc, until, delay, entries>>

TimerPacket(t) ==
  /\ t \in armed
  /\ armed' = armed \ {t}
  /\ queue' = queue \cup {t}
  /\ UNCHANGED <<hiRes, schedVars, wakeSig, pc, until, delay, entries>>

----------------------------------------------------------------------------
Step(t) ==
  \/ BecomePoller(t) \/ NotPoller(t) \/ StorePollUntil(t) \/ ClearPollUntil(t)
  \/ StoreLastpoll(t) \/ LoadPollUntil(t) \/ LoadLastpoll(t)
  \/ BreakSwap(t) \/ BreakPost(t) \/ QueueTimer(t) \/ NoTimer(t) \/ Dequeue(t)
  \/ (\E p \in Packets : Process(t, p)) \/ Processed(t)

Next ==
  \/ \E t \in Ms :
       \/ Step(t) \/ PollNow(t) \/ TimeOut(t) \/ TimerPacket(t)
       \/ \E w \in Times : FindRunnable(t, w)
       \/ \E w \in Instants : WakeNetPoller(t, w)
  \/ \E o \in Operations : Complete(o)

Spec == Init /\ [][Next]_vars

\* Every M that can go on does.  The kernel gives a packet to a thread that is
\* waiting for one sooner or later, however often others look, and a poll that
\* does not wait returns.
Fairness ==
  \A t \in Ms :
    /\ WF_vars(Step(t))
    /\ SF_vars(Dequeue(t))
    /\ WF_vars(delay[t] = "zero" /\ TimeOut(t))

FairSpec == Spec /\ Fairness

----------------------------------------------------------------------------
(* Properties *)

\* The scheduler's fields, the port and every M keep their types.
TypeOK ==
  /\ hiRes \in BOOLEAN
  /\ polling \in BOOLEAN
  /\ pollUntil \in Times
  /\ wakeSig \in BOOLEAN
  /\ queue \subseteq Packets
  /\ armed \subseteq Ms
  /\ pc \in [Ms -> {"run", "swap", "store", "clear", "release", "load", "wake",
                    "break", "post", "netpoll", "wait", "process"}]
  /\ until \in [Ms -> Times]
  /\ delay \in [Ms -> {"block", "timed", "zero"}]
  /\ entries \in [Ms -> SUBSET Packets]
  /\ owner \in [Ms -> BOOLEAN]
  /\ asked \subseteq Instants

\* The Ms that have a break packet in hand: about to post it, or taken off the
\* port and not looked at.
Carries(t) == pc[t] = "post" \/ "break" \in entries[t]

\* "Failing to cas indicates there is an in-flight wakeup": while netpollWakeSig
\* is set there is exactly one break packet, on the port or in the hands of an
\* M, and while it is not set there is none.
WakeupInFlight ==
  /\ wakeSig <=> ("break" \in queue \/ \E t \in Ms : Carries(t))
  /\ "break" \in queue => \A t \in Ms : ~Carries(t)
  /\ \A t, u \in Ms : Carries(t) /\ Carries(u) => t = u
  /\ \A t \in Ms : ~(pc[t] = "post" /\ "break" \in entries[t])

\* "When polling the pollUntil field is either zero or the time to which the
\* current poll is expected to run": one M polls at a time, and
\* sched.pollUntil tells how long.
PollUntilIsTrue ==
  \A t \in Ms :
    owner[t] =>
      /\ \A u \in Ms : owner[u] => u = t
      /\ pollUntil = (IF pc[t] \in {"store", "release"} THEN 0 ELSE until[t])

\* "This can have a spurious wakeup but should never miss a wakeup": while an M
\* polls beyond a time for which wakeNetPoller or findRunnable looked at that
\* very poll, a break packet is in flight or about to be.
NeverMissesWakeup ==
  \A t \in Ms, w \in asked :
    /\ owner[t] /\ pc[t] \in {"store", "netpoll", "wait"}
    /\ Beyond(until[t], w)
    => wakeSig \/ \E u \in Ms : pc[u] = "break"

\* The M that polls is woken by a break, even though polls that do not wait may
\* take the packet first: they forward it.
BreakEndsPoll ==
  \A t \in Ms : wakeSig /\ owner[t] /\ pc[t] = "wait" ~> pc[t] # "wait"
=============================================================================
