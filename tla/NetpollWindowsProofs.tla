------------------------ MODULE NetpollWindowsProofs ------------------------
(***************************************************************************)
(* The break protocol of netpoll, for any number of Ms.                    *)
(***************************************************************************)
EXTENDS NetpollWindows, TLAPS

\* Who may be where: the poller is between its two writes to sched.lastpoll, only
\* it waits, and packets are in hand only while netpoll goes through them.
Where ==
  /\ \A t \in Ms : owner[t] => polling
  /\ ~polling => pollUntil = 0
  /\ \A t \in Ms :
       /\ owner[t] => pc[t] \in {"store", "netpoll", "wait", "process", "break", "post",
                                 "clear", "release"}
       /\ ~owner[t] => pc[t] \notin {"store", "clear", "release"} /\ delay[t] = "zero"
       /\ entries[t] # {} => pc[t] \in {"process", "break", "post"}
       /\ pc[t] \in {"wake", "load"} => until[t] # 0

\* The inductive invariant.
IInv == TypeOK /\ Where /\ PollUntilIsTrue /\ WakeupInFlight /\ NeverMissesWakeup

----------------------------------------------------------------------------
(* Every action keeps the invariant. *)

\* findRunnable finds nothing to run: the M only notes how long it wants to poll.
LEMMA FindRunnableInductive ==
  ASSUME NEW t \in Ms, NEW w \in Times, IInv, FindRunnable(t, w)
  PROVE  IInv'
<1> USE PacketsAssumption, InstantsAssumption DEF IInv, TypeOK, schedVars, portVars
<1>1. TypeOK'
  BY Zenon DEF Where, Packets, Times, FindRunnable, Goto
<1>2. Where'
  BY Zenon DEF Where, Times, FindRunnable, Goto
<1>3. PollUntilIsTrue'
  BY DEF PollUntilIsTrue, Where, FindRunnable, Goto
<1>4. WakeupInFlight'
  BY DEF WakeupInFlight, Where, Carries, Packets, FindRunnable, Goto
<1>5. NeverMissesWakeup'
  BY DEF NeverMissesWakeup, Where, PollUntilIsTrue, Beyond, Times, FindRunnable, Goto
<1> QED  BY Zenon, <1>1, <1>2, <1>3, <1>4, <1>5

\* wakeNetPoller is called: the M only notes for when.
LEMMA WakeNetPollerInductive ==
  ASSUME NEW t \in Ms, NEW w \in Instants, IInv, WakeNetPoller(t, w)
  PROVE  IInv'
<1> USE PacketsAssumption, InstantsAssumption DEF IInv, TypeOK, schedVars, portVars
<1>1. TypeOK'
  BY Zenon DEF Where, Packets, Times, WakeNetPoller, Goto
<1>2. Where'
  BY Zenon DEF Where, Times, WakeNetPoller, Goto
<1>3. PollUntilIsTrue'
  BY DEF PollUntilIsTrue, Where, WakeNetPoller, Goto
<1>4. WakeupInFlight'
  BY DEF WakeupInFlight, Where, Carries, Packets, WakeNetPoller, Goto
<1>5. NeverMissesWakeup'
  BY DEF NeverMissesWakeup, Where, PollUntilIsTrue, Beyond, Times, WakeNetPoller, Goto
<1> QED  BY Zenon, <1>1, <1>2, <1>3, <1>4, <1>5

\* sched.lastpoll.Swap(0) takes the poll: there was no poller, so sched.pollUntil
\* is zero, and the new poll has been asked for nothing.
LEMMA BecomePollerInductive ==
  ASSUME NEW t \in Ms, IInv, BecomePoller(t)
  PROVE  IInv'
<1> USE PacketsAssumption, InstantsAssumption DEF IInv, TypeOK, schedVars, portVars
<1>1. TypeOK'
  BY Zenon DEF Where, Packets, Times, BecomePoller, Goto
<1>2. Where'
  BY Zenon DEF Where, Times, BecomePoller, Goto
<1>3. PollUntilIsTrue'
  BY DEF PollUntilIsTrue, Where, BecomePoller, Goto
<1>4. WakeupInFlight'
  BY DEF WakeupInFlight, Where, Carries, Packets, BecomePoller, Goto
<1>5. NeverMissesWakeup'
  BY Zenon DEF NeverMissesWakeup, Where, PollUntilIsTrue, Beyond, Times, BecomePoller, Goto
<1> QED  BY Zenon, <1>1, <1>2, <1>3, <1>4, <1>5

\* findRunnable does not poll: nothing that the others see changes.
LEMMA NotPollerInductive ==
  ASSUME NEW t \in Ms, IInv, NotPoller(t)
  PROVE  IInv'
<1> USE PacketsAssumption, InstantsAssumption DEF IInv, TypeOK, schedVars, portVars
<1>1. TypeOK'
  BY DEF Where, Packets, Times, NotPoller, Rest, Goto
<1>2. Where'
  BY DEF Where, Times, NotPoller, Rest, Goto
<1>3. PollUntilIsTrue'
  BY DEF PollUntilIsTrue, Where, NotPoller, Rest, Goto
<1>4. WakeupInFlight'
  BY DEF WakeupInFlight, Where, Carries, Packets, NotPoller, Rest, Goto
<1>5. NeverMissesWakeup'
  BY DEF NeverMissesWakeup, Where, PollUntilIsTrue, Beyond, Times, NotPoller, Rest, Goto
<1> QED  BY Zenon, <1>1, <1>2, <1>3, <1>4, <1>5

\* The poller publishes its end: what it was asked for before found zero there,
\* and a break is on its way.
LEMMA StorePollUntilInductive ==
  ASSUME NEW t \in Ms, IInv, StorePollUntil(t)
  PROVE  IInv'
<1> USE PacketsAssumption, InstantsAssumption DEF IInv, TypeOK, schedVars, portVars
<1>1. TypeOK'
  BY ZenonT(60) DEF Where, Packets, Times, StorePollUntil, Delays, Goto
<1>2. Where'
  BY ZenonT(60) DEF Where, Times, StorePollUntil, Delays, Goto
<1>3. PollUntilIsTrue'
  BY ZenonT(60) DEF PollUntilIsTrue, Where, StorePollUntil, Delays, Goto
<1>4. WakeupInFlight'
  BY DEF WakeupInFlight, Where, Carries, Packets, StorePollUntil, Delays, Goto
<1>5. NeverMissesWakeup'
  BY DEF NeverMissesWakeup, Where, PollUntilIsTrue, Beyond, Times, StorePollUntil, Delays, Goto
<1> QED  BY Zenon, <1>1, <1>2, <1>3, <1>4, <1>5

\* The poller takes its end back when it no longer waits.
LEMMA ClearPollUntilInductive ==
  ASSUME NEW t \in Ms, IInv, ClearPollUntil(t)
  PROVE  IInv'
<1> USE PacketsAssumption, InstantsAssumption DEF IInv, TypeOK, schedVars, portVars
<1>1. TypeOK'
  BY Zenon DEF Where, Packets, Times, ClearPollUntil, Goto
<1>2. Where'
  BY Zenon DEF Where, Times, ClearPollUntil, Goto
<1>3. PollUntilIsTrue'
  BY DEF PollUntilIsTrue, Where, ClearPollUntil, Goto
<1>4. WakeupInFlight'
  BY DEF WakeupInFlight, Where, Carries, Packets, ClearPollUntil, Goto
<1>5. NeverMissesWakeup'
  BY DEF NeverMissesWakeup, Where, PollUntilIsTrue, Beyond, Times, ClearPollUntil, Goto
<1> QED  BY Zenon, <1>1, <1>2, <1>3, <1>4, <1>5

\* The poller gives up the poll, with sched.pollUntil zero.
LEMMA StoreLastpollInductive ==
  ASSUME NEW t \in Ms, IInv, StoreLastpoll(t)
  PROVE  IInv'
<1> USE PacketsAssumption, InstantsAssumption DEF IInv, TypeOK, schedVars, portVars
<1>1. TypeOK'
  BY Zenon DEF Where, Packets, Times, StoreLastpoll, Rest, Goto
<1>2. Where'
  BY DEF Where, Times, PollUntilIsTrue, StoreLastpoll, Rest, Goto
<1>3. PollUntilIsTrue'
  BY DEF PollUntilIsTrue, Where, StoreLastpoll, Rest, Goto
<1>4. WakeupInFlight'
  BY DEF WakeupInFlight, Where, Carries, Packets, StoreLastpoll, Rest, Goto
<1>5. NeverMissesWakeup'
  BY DEF NeverMissesWakeup, Where, PollUntilIsTrue, Beyond, Times, StoreLastpoll, Rest, Goto
<1> QED  BY Zenon, <1>1, <1>2, <1>3, <1>4, <1>5

\* An M that looks at sched.pollUntil breaks the poll unless it ends in time.
LEMMA LoadPollUntilInductive ==
  ASSUME NEW t \in Ms, IInv, LoadPollUntil(t)
  PROVE  IInv'
<1> USE PacketsAssumption, InstantsAssumption DEF IInv, TypeOK, schedVars, portVars
<1>1. TypeOK'
  <2>1. until[t] \in Instants
    BY Zenon DEF Where, Times, LoadPollUntil
  <2>2. asked' \subseteq Instants
    BY Zenon, <2>1 DEF LoadPollUntil
  <2>3. pc' \in [Ms -> {"run", "swap", "store", "clear", "release", "load", "wake",
                       "break", "post", "netpoll", "wait", "process"}]
    BY DEF LoadPollUntil, Rest, Goto
  <2>4. until' \in [Ms -> Times] /\ delay' \in [Ms -> {"block", "timed", "zero"}]
    BY Zenon DEF LoadPollUntil, Rest, Times
  <2> QED  BY Zenon, <2>2, <2>3, <2>4 DEF LoadPollUntil
<1>2. Where'
  BY DEF Where, Times, LoadPollUntil, Rest, Goto
<1>3. PollUntilIsTrue'
  BY DEF PollUntilIsTrue, Where, LoadPollUntil, Rest, Goto
<1>4. WakeupInFlight'
  BY DEF WakeupInFlight, Where, Carries, Packets, LoadPollUntil, Rest, Goto
<1>5. NeverMissesWakeup'
  BY DEF NeverMissesWakeup, Where, PollUntilIsTrue, Beyond, Times, LoadPollUntil, Rest, Goto
<1> QED  BY Zenon, <1>1, <1>2, <1>3, <1>4, <1>5

\* wakeNetPoller finds out whether there is a poller.
LEMMA LoadLastpollInductive ==
  ASSUME NEW t \in Ms, IInv, LoadLastpoll(t)
  PROVE  IInv'
<1> USE PacketsAssumption, InstantsAssumption DEF IInv, TypeOK, schedVars, portVars
<1>1. TypeOK'
  BY DEF Where, Packets, Times, LoadLastpoll, Rest, Goto
<1>2. Where'
  BY DEF Where, Times, LoadLastpoll, Rest, Goto
<1>3. PollUntilIsTrue'
  BY DEF PollUntilIsTrue, Where, LoadLastpoll, Rest, Goto
<1>4. WakeupInFlight'
  BY DEF WakeupInFlight, Where, Carries, Packets, LoadLastpoll, Rest, Goto
<1>5. NeverMissesWakeup'
  BY DEF NeverMissesWakeup, Where, PollUntilIsTrue, Beyond, Times, LoadLastpoll, Rest, Goto
<1> QED  BY Zenon, <1>1, <1>2, <1>3, <1>4, <1>5

\* netpollBreak's compare-and-swap: a packet is in flight already, or this M
\* is the one to post it.
LEMMA BreakSwapInductive ==
  ASSUME NEW t \in Ms, IInv, BreakSwap(t)
  PROVE  IInv'
<1> USE PacketsAssumption, InstantsAssumption DEF IInv, TypeOK, schedVars, portVars
<1>1. TypeOK'
  BY DEF Where, Packets, Times, BreakSwap, AfterBreak, Rest, Goto
<1>2. Where'
  BY DEF Where, Times, BreakSwap, AfterBreak, Rest, Goto
<1>3. PollUntilIsTrue'
  BY DEF PollUntilIsTrue, Where, BreakSwap, AfterBreak, Rest, Goto
<1>4. WakeupInFlight'
  BY DEF WakeupInFlight, Where, Carries, Packets, BreakSwap, AfterBreak, Rest, Goto
<1>5. NeverMissesWakeup'
  BY Zenon DEF NeverMissesWakeup, Where, PollUntilIsTrue, Beyond, Times, WakeupInFlight, Carries, BreakSwap, AfterBreak, Rest, Goto
<1> QED  BY Zenon, <1>1, <1>2, <1>3, <1>4, <1>5

\* netpollBreak posts the packet.
LEMMA BreakPostInductive ==
  ASSUME NEW t \in Ms, IInv, BreakPost(t)
  PROVE  IInv'
<1> USE PacketsAssumption, InstantsAssumption DEF IInv, TypeOK, schedVars, portVars
<1>1. TypeOK'
  BY DEF Where, Packets, Times, BreakPost, AfterBreak, Rest, Goto
<1>2. Where'
  BY DEF Where, Times, BreakPost, AfterBreak, Rest, Goto
<1>3. PollUntilIsTrue'
  BY DEF PollUntilIsTrue, Where, BreakPost, AfterBreak, Rest, Goto
<1>4. WakeupInFlight'
  BY DEF WakeupInFlight, Where, Carries, Packets, BreakPost, AfterBreak, Rest, Goto
<1>5. NeverMissesWakeup'
  BY DEF NeverMissesWakeup, Where, PollUntilIsTrue, Beyond, Times, BreakPost, AfterBreak, Rest, Goto
<1> QED  BY Zenon, <1>1, <1>2, <1>3, <1>4, <1>5

\* netpoll(0) is called.
LEMMA PollNowInductive ==
  ASSUME NEW t \in Ms, IInv, PollNow(t)
  PROVE  IInv'
<1> USE PacketsAssumption, InstantsAssumption DEF IInv, TypeOK, schedVars, portVars
<1>1. TypeOK'
  BY Zenon DEF Where, Packets, Times, PollNow, Goto
<1>2. Where'
  BY Zenon DEF Where, Times, PollNow, Goto
<1>3. PollUntilIsTrue'
  BY DEF PollUntilIsTrue, Where, PollNow, Goto
<1>4. WakeupInFlight'
  BY DEF WakeupInFlight, Where, Carries, Packets, PollNow, Goto
<1>5. NeverMissesWakeup'
  BY DEF NeverMissesWakeup, Where, PollUntilIsTrue, Beyond, Times, PollNow, Goto
<1> QED  BY Zenon, <1>1, <1>2, <1>3, <1>4, <1>5

\* netpollQueueTimer moves no packet but that of its own timer.
LEMMA QueueTimerInductive ==
  ASSUME NEW t \in Ms, IInv, QueueTimer(t)
  PROVE  IInv'
<1> USE PacketsAssumption, InstantsAssumption DEF IInv, TypeOK, schedVars, portVars
<1>1. TypeOK'
  <2>1. queue' \subseteq Packets
    <3>1. queue' = queue \ {t} \/ queue' = queue \cup {t}
      BY Zenon DEF QueueTimer
    <3> QED  BY Zenon, <3>1 DEF Packets
  <2>2. armed' \subseteq Ms
    BY Zenon DEF QueueTimer
  <2>3. pc' \in [Ms -> {"run", "swap", "store", "clear", "release", "load", "wake",
                       "break", "post", "netpoll", "wait", "process"}]
    BY DEF QueueTimer, Leave, Rest, Goto
  <2>4. until' \in [Ms -> Times] /\ delay' \in [Ms -> {"block", "timed", "zero"}]
    BY Zenon DEF QueueTimer, Leave, Rest, Times
  <2> QED  BY Zenon, <2>1, <2>2, <2>3, <2>4 DEF QueueTimer
<1>2. Where'
  BY DEF Where, Times, QueueTimer, Leave, Rest, Goto
<1>3. PollUntilIsTrue'
  BY DEF PollUntilIsTrue, Where, QueueTimer, Leave, Rest, Goto
<1>4. WakeupInFlight'
  BY DEF WakeupInFlight, Where, Carries, Packets, QueueTimer, Leave, Rest, Goto
<1>5. NeverMissesWakeup'
  BY DEF NeverMissesWakeup, Where, PollUntilIsTrue, Beyond, Times, QueueTimer, Leave, Rest, Goto
<1> QED  BY Zenon, <1>1, <1>2, <1>3, <1>4, <1>5

\* netpoll goes to wait.
LEMMA NoTimerInductive ==
  ASSUME NEW t \in Ms, IInv, NoTimer(t)
  PROVE  IInv'
<1> USE PacketsAssumption, InstantsAssumption DEF IInv, TypeOK, schedVars, portVars
<1>1. TypeOK'
  BY Zenon DEF Where, Packets, Times, NoTimer, Goto
<1>2. Where'
  BY Zenon DEF Where, Times, NoTimer, Goto
<1>3. PollUntilIsTrue'
  BY DEF PollUntilIsTrue, Where, NoTimer, Goto
<1>4. WakeupInFlight'
  BY DEF WakeupInFlight, Where, Carries, Packets, NoTimer, Goto
<1>5. NeverMissesWakeup'
  BY DEF NeverMissesWakeup, Where, PollUntilIsTrue, Beyond, Times, NoTimer, Goto
<1> QED  BY Zenon, <1>1, <1>2, <1>3, <1>4, <1>5

\* The packets netpoll takes off the port are in its hands.
LEMMA DequeueInductive ==
  ASSUME NEW t \in Ms, IInv, Dequeue(t)
  PROVE  IInv'
<1> USE PacketsAssumption, InstantsAssumption DEF IInv, TypeOK, schedVars, portVars
<1>1. TypeOK'
  BY DEF Where, Packets, Times, Dequeue, Goto
<1>2. Where'
  BY ZenonT(60) DEF Where, Times, Dequeue, Goto
<1>3. PollUntilIsTrue'
  BY DEF PollUntilIsTrue, Where, Dequeue, Goto
<1>4. WakeupInFlight'
  BY DEF WakeupInFlight, Where, Carries, Packets, Dequeue, Goto
<1>5. NeverMissesWakeup'
  BY DEF NeverMissesWakeup, Where, PollUntilIsTrue, Beyond, Times, Dequeue, Goto
<1> QED  BY Zenon, <1>1, <1>2, <1>3, <1>4, <1>5

\* netpoll ends without packets.
LEMMA TimeOutInductive ==
  ASSUME NEW t \in Ms, IInv, TimeOut(t)
  PROVE  IInv'
<1> USE PacketsAssumption, InstantsAssumption DEF IInv, TypeOK, schedVars, portVars
<1>1. TypeOK'
  BY DEF Where, Packets, Times, TimeOut, Leave, Rest, Goto
<1>2. Where'
  BY DEF Where, Times, TimeOut, Leave, Rest, Goto
<1>3. PollUntilIsTrue'
  BY DEF PollUntilIsTrue, Where, TimeOut, Leave, Rest, Goto
<1>4. WakeupInFlight'
  BY DEF WakeupInFlight, Where, Carries, Packets, TimeOut, Leave, Rest, Goto
<1>5. NeverMissesWakeup'
  BY DEF NeverMissesWakeup, Where, PollUntilIsTrue, Beyond, Times, TimeOut, Leave, Rest, Goto
<1> QED  BY Zenon, <1>1, <1>2, <1>3, <1>4, <1>5

\* netpoll resets netpollWakeSig with the only break packet there is.  If it does
\* not wait itself, it goes on to forward it; if it does, it is the poller and
\* has woken.
LEMMA ProcessInductive ==
  ASSUME NEW t \in Ms, NEW p \in Packets, IInv, Process(t, p)
  PROVE  IInv'
<1> USE PacketsAssumption, InstantsAssumption DEF IInv, TypeOK, schedVars, portVars
<1>1. TypeOK'
  BY Zenon DEF Where, Packets, Times, Process, Goto
<1>2. Where'
  BY ZenonT(60) DEF Where, Times, Process, Goto
<1>3. PollUntilIsTrue'
  BY DEF PollUntilIsTrue, Where, Process, Goto
<1>4. WakeupInFlight'
  <2>1. CASE p = "break"
    <3>1. Carries(t) /\ "break" \notin queue /\ \A u \in Ms : Carries(u) => u = t
      BY Zenon, <2>1 DEF WakeupInFlight, Carries, Process
    <3>2. \A u \in Ms : ~Carries(u)'
      BY Zenon, <2>1, <3>1 DEF Carries, Process, Goto
    <3>3. ~wakeSig' /\ "break" \notin queue'
      BY Zenon, <2>1, <3>1 DEF Process
    <3>4. \A u \in Ms : ~(pc'[u] = "post" /\ "break" \in entries'[u])
      BY Zenon, <3>2 DEF Carries
    <3> QED  BY Zenon, <3>2, <3>3, <3>4 DEF WakeupInFlight
  <2>2. CASE p # "break"
    <3>1. \A u \in Ms : /\ "break" \in entries'[u] <=> "break" \in entries[u]
                        /\ pc'[u] = "post" <=> pc[u] = "post"
      BY Zenon, <2>2 DEF Process, Goto
    <3>2. (wakeSig' <=> wakeSig) /\ queue' = queue
      BY Zenon, <2>2 DEF Process
    <3>3. \A u \in Ms : Carries(u)' <=> Carries(u)
      BY Zenon, <3>1 DEF Carries
    <3> QED  BY Zenon, <3>1, <3>2, <3>3 DEF WakeupInFlight
  <2> QED  BY Zenon, <2>1, <2>2
<1>5. NeverMissesWakeup'
  BY DEF NeverMissesWakeup, Where, PollUntilIsTrue, Beyond, Times, WakeupInFlight, Carries, Process, Goto
<1> QED  BY Zenon, <1>1, <1>2, <1>3, <1>4, <1>5

\* netpoll returns after the last packet.
LEMMA ProcessedInductive ==
  ASSUME NEW t \in Ms, IInv, Processed(t)
  PROVE  IInv'
<1> USE PacketsAssumption, InstantsAssumption DEF IInv, TypeOK, schedVars, portVars
<1>1. TypeOK'
  BY DEF Where, Packets, Times, Processed, Leave, Rest, Goto
<1>2. Where'
  BY DEF Where, Times, Processed, Leave, Rest, Goto
<1>3. PollUntilIsTrue'
  BY DEF PollUntilIsTrue, Where, Processed, Leave, Rest, Goto
<1>4. WakeupInFlight'
  BY DEF WakeupInFlight, Where, Carries, Packets, Processed, Leave, Rest, Goto
<1>5. NeverMissesWakeup'
  BY DEF NeverMissesWakeup, Where, PollUntilIsTrue, Beyond, Times, Processed, Leave, Rest, Goto
<1> QED  BY Zenon, <1>1, <1>2, <1>3, <1>4, <1>5

\* A timer's packet arrives.
LEMMA TimerPacketInductive ==
  ASSUME NEW t \in Ms, IInv, TimerPacket(t)
  PROVE  IInv'
<1> USE PacketsAssumption, InstantsAssumption DEF IInv, TypeOK, schedVars, portVars
<1>1. TypeOK'
  BY Zenon DEF Where, Packets, Times, TimerPacket
<1>2. Where'
  BY Zenon DEF Where, Times, TimerPacket
<1>3. PollUntilIsTrue'
  BY Zenon DEF PollUntilIsTrue, Where, TimerPacket
<1>4. WakeupInFlight'
  BY Zenon DEF WakeupInFlight, Where, Carries, Packets, TimerPacket
<1>5. NeverMissesWakeup'
  BY Zenon DEF NeverMissesWakeup, Where, PollUntilIsTrue, Beyond, Times, TimerPacket
<1> QED  BY Zenon, <1>1, <1>2, <1>3, <1>4, <1>5

\* An operation's packet arrives.
LEMMA CompleteInductive ==
  ASSUME NEW o \in Operations, IInv, Complete(o)
  PROVE  IInv'
<1> USE PacketsAssumption, InstantsAssumption DEF IInv, TypeOK, schedVars, portVars
<1>1. TypeOK'
  BY Zenon DEF Where, Packets, Times, Complete
<1>2. Where'
  BY Zenon DEF Where, Times, Complete
<1>3. PollUntilIsTrue'
  BY Zenon DEF PollUntilIsTrue, Where, Complete
<1>4. WakeupInFlight'
  BY Zenon DEF WakeupInFlight, Where, Carries, Packets, Complete
<1>5. NeverMissesWakeup'
  BY Zenon DEF NeverMissesWakeup, Where, PollUntilIsTrue, Beyond, Times, Complete
<1> QED  BY Zenon, <1>1, <1>2, <1>3, <1>4, <1>5

----------------------------------------------------------------------------
\* At the start there is no poller, no packet and nobody in netpoll.
LEMMA InitIInv == Init => IInv
BY Zenon, InstantsAssumption
   DEF Init, IInv, TypeOK, Where, PollUntilIsTrue, WakeupInFlight, Carries, NeverMissesWakeup,
       Packets, Times

\* Every step of findRunnable, wakeNetPoller, netpollBreak, netpoll and the
\* kernel keeps the invariant.
LEMMA NextIInv == IInv /\ [Next]_vars => IInv'
<1> SUFFICES ASSUME IInv, [Next]_vars PROVE IInv'
  BY Zenon
<1>1. ASSUME NEW t \in Ms, Step(t) PROVE IInv'
  BY Zenon, <1>1, BecomePollerInductive, NotPollerInductive, StorePollUntilInductive,
     ClearPollUntilInductive, StoreLastpollInductive, LoadPollUntilInductive,
     LoadLastpollInductive, BreakSwapInductive, BreakPostInductive,
     QueueTimerInductive, NoTimerInductive, DequeueInductive,
     ProcessInductive, ProcessedInductive
     DEF Step
<1>2. ASSUME NEW t \in Ms, PollNow(t) \/ TimeOut(t) \/ TimerPacket(t) PROVE IInv'
  BY Zenon, <1>2, PollNowInductive, TimeOutInductive, TimerPacketInductive
<1>3. ASSUME NEW t \in Ms, NEW w \in Times, FindRunnable(t, w) PROVE IInv'
  BY Zenon, <1>3, FindRunnableInductive
<1>4. ASSUME NEW t \in Ms, NEW w \in Instants, WakeNetPoller(t, w) PROVE IInv'
  BY Zenon, <1>4, WakeNetPollerInductive
<1>5. ASSUME NEW o \in Operations, Complete(o) PROVE IInv'
  BY Zenon, <1>5, CompleteInductive
<1>6. CASE UNCHANGED vars
  BY Zenon, <1>6 DEF vars, IInv, TypeOK, Where, PollUntilIsTrue, WakeupInFlight, Carries,
              NeverMissesWakeup
<1> QED  BY Zenon, <1>1, <1>2, <1>3, <1>4, <1>5, <1>6 DEF Next

\* The inductive invariant holds throughout.
THEOREM Invariance == Spec => []IInv
BY InitIInv, NextIInv, PTL DEF Spec

\* The scheduler's fields, netpollWakeSig, the port and the Ms keep their types.
THEOREM TypeCorrect == Spec => []TypeOK
<1>1. IInv => TypeOK
  BY Zenon DEF IInv
<1> QED  BY <1>1, Invariance, PTL

\* netpollBreak may rely on netpollWakeSig: while it is set exactly one break
\* packet is in flight.
THEOREM OneWakeupInFlight == Spec => []WakeupInFlight
<1>1. IInv => WakeupInFlight
  BY Zenon DEF IInv
<1> QED  BY <1>1, Invariance, PTL

\* wakeNetPoller may rely on sched.pollUntil: there is one poller, and while it
\* polls the field is the time to which its poll is expected to run.
THEOREM PollUntilTrusted == Spec => []PollUntilIsTrue
<1>1. IInv => PollUntilIsTrue
  BY Zenon DEF IInv
<1> QED  BY <1>1, Invariance, PTL

\* No wakeup of the poll in progress is missed, however many Ms wake it, and
\* however many take its packets off the port with netpoll(0).
THEOREM NoMissedWakeup == Spec => []NeverMissesWakeup
<1>1. IInv => NeverMissesWakeup
  BY Zenon DEF IInv
<1> QED  BY <1>1, Invariance, PTL
=============================================================================
