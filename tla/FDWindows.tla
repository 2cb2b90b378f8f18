----------------------------- MODULE FDWindows -----------------------------
(***************************************************************************)
(* internal/poll/fd_windows.go: how an operation on a Windows handle is    *)
(* started, waited for, cancelled and finished (execIO, waitIO,            *)
(* waitEventIO), and what Close, SetDeadline and DisassociateIOCP do to it *)
(* meanwhile.  The kernels differ in what they offer: Windows XP has no    *)
(* CancelIoEx and cannot skip completions, Windows 7 has both but cannot   *)
(* take a handle back off a completion port, later ones can.               *)
(*                                                                         *)
(* The locks and references are those of FDLifetime, which fdMutex         *)
(* implements; the poller is PollSem.  The kernel, its completion port and *)
(* its events are external and appear as the code uses them.               *)
(***************************************************************************)
EXTENDS FDLifetime, PollSem, Naturals

CONSTANTS Workers,      \* goroutines that read and write
          Loopers,      \* those of them whose calls may take several operations
          Controllers,  \* goroutines that close, set deadlines, disassociate
          Handles       \* the handles considered, one of which is the FD's

\* A handle: the kernel it lives on, what it is, whether it was opened without
\* FILE_FLAG_OVERLAPPED, whether another port has it already, whether it is a
\* stream socket, and whether a layered provider stands in front of the socket
\* (it has no XP1_IFS_HANDLES).
HandleType ==
  [os : {"xp", "win7", "win10"}, kind : {"net", "file", "pipe"},
   blocking : BOOLEAN, onPort : BOOLEAN, stream : BOOLEAN, layered : BOOLEAN]

ASSUME HandlesAssumption == Handles \subseteq HandleType
ASSUME ActorsAssumption ==
  Workers \cup Controllers \subseteq Goroutines /\ Loopers \subseteq Workers

VARIABLES
  h,           \* the handle of this FD
  associated,  \* fd.associated
  events,      \* readDeadlineEvent and writeDeadlineEvent exist
  own,         \* readDeadline and writeDeadline: "none", "future" or "past"
  dlEvent,     \* whether the deadline event of each mode is signalled
  pc, mode,    \* where each goroutine is, and the mode of its operation
  pinned,      \* LockOSThread is in force
  moved,       \* the goroutine left the thread that submitted its operation
  io,          \* the kernel's view of the operation of each goroutine
  ioEvent,     \* whether the event in its OVERLAPPED is signalled
  cancelled,   \* a cancel has reached it
  timeout,     \* the wait under way has a time limit
  waitErr,     \* what waitIO will return
  res,         \* what the call each goroutine is in will return
  todo, until, \* SetDeadline: the modes still to do, and the deadline
  packets      \* completion packets queued on the port for each mode

fdVars   == <<associated, events>>
evVars   == <<own, dlEvent>>
opVars   == <<pinned, moved, io, ioEvent, cancelled, timeout, waitErr>>
argVars  == <<todo, until>>
vars     == <<phase, hold, ready, evicted, deadline, h, associated, events, own, dlEvent,
              pc, mode, pinned, moved, io, ioEvent, cancelled, timeout, waitErr, res,
              todo, until, packets>>

----------------------------------------------------------------------------
(* What the kernel offers, and FD.Init *)

SupportCancelIoEx == h.os # "xp"
CanDetach         == h.os = "win10"
CanSetModes       == h.os # "xp"

\* truncatedRecvSkipsCompletion
TruncationSkips == h.os # "win10"

\* Mutant: datagram sockets skip completions on every kernel.
CanSkipAlways == TRUE

\* canSkipCompletionPortOnSuccess
CanSkip == h.kind # "net" \/ (~h.layered /\ ~(TruncationSkips /\ ~h.stream))

\* Init leaves these handles off the poller: fd.pd.runtimeCtx stays zero.
EventDriven == h.kind # "net" /\ ~CanDetach
Refused     == ~EventDriven /\ h.onPort
OnPoller    == ~h.blocking /\ ~EventDriven /\ ~Refused

OffPoller == ~h.blocking /\ ~OnPoller

\* Init returns before SetFileCompletionNotificationModes for a refused handle.
SkipOnSuccess == ~h.blocking /\ ~Refused /\ CanSkip /\ CanSetModes

\* Mutant: synchronous completions are never waited for.
WaitOnSuccessNever == FALSE

WaitOnSuccess == ~h.blocking /\ ~SkipOnSuccess

\* A handle that a kernel able to move it finds on another port is an error of
\* Init, and there is no FD.
Init ==
  /\ LifetimeInit
  /\ PollInit
  /\ h \in {x \in Handles : x.onPort => x.kind = "net" /\ x.os # "win10" /\ ~x.blocking}
  /\ associated = OnPoller
  /\ events = (~h.blocking /\ (EventDriven \/ (Refused /\ ~SupportCancelIoEx)))
  /\ own = [m \in Modes |-> "none"]
  /\ dlEvent = [m \in Modes |-> FALSE]
  /\ pc = [g \in Goroutines |-> "idle"]
  /\ mode = [g \in Goroutines |-> "r"]
  /\ pinned = [g \in Goroutines |-> FALSE]
  /\ moved = [g \in Goroutines |-> FALSE]
  /\ io = [g \in Goroutines |-> "none"]
  /\ ioEvent = [g \in Goroutines |-> FALSE]
  /\ cancelled = [g \in Goroutines |-> FALSE]
  /\ timeout = [g \in Goroutines |-> FALSE]
  /\ waitErr = [g \in Goroutines |-> "nil"]
  /\ res = [g \in Goroutines |-> "nil"]
  /\ todo = [g \in Goroutines |-> {}]
  /\ until = [g \in Goroutines |-> "none"]
  /\ packets = [m \in Modes |-> 0]

Goto(g, l) == pc' = [pc EXCEPT ![g] = l]
Return(g, e) == res' = [res EXCEPT ![g] = e]

\* The call is over and g forgets about it.
Done(g) ==
  /\ Goto(g, "idle")
  /\ mode' = [mode EXCEPT ![g] = "r"]
  /\ Return(g, "nil")

\* The poller's error, as convertErr reports it.
PollError(m) == IF evicted THEN "errClosing" ELSE "timeout"

Closing == phase # "open"

\* An operation on an overlapped handle that the poller does not drive reports
\* itself through an event of its own.
ByEvent == ~h.blocking /\ ~associated

----------------------------------------------------------------------------
(* Read, Write and the other operations that take a lock and call execIO *)

\* A file has one offset, so its operations take both locks.
Needs(g) == IF h.kind = "file" THEN Modes ELSE {mode[g]}

NextLock(g) == IF "r" \in Needs(g) \ hold[g] THEN "r" ELSE "w"

CallIO(g, m) ==
  /\ pc[g] = "idle"
  /\ g \in Workers
  /\ mode' = [mode EXCEPT ![g] = m]
  /\ Goto(g, "lock")
  /\ UNCHANGED <<lifetimeVars, pollVars, h, fdVars, evVars, opVars, res, argVars, packets>>

Lock(g) ==
  /\ pc[g] = "lock"
  /\ Acquire(g, NextLock(g))
  /\ Goto(g, IF Needs(g) \subseteq hold'[g] THEN "exec" ELSE "lock")
  /\ UNCHANGED <<pollVars, h, fdVars, evVars, mode, opVars, res, argVars, packets>>

LockFails(g) ==
  /\ pc[g] = "lock"
  /\ Closing
  /\ Return(g, "errClosing")
  /\ Goto(g, "unlock")
  /\ UNCHANGED <<lifetimeVars, pollVars, h, fdVars, evVars, mode, opVars, argVars, packets>>

\* Seek and RawWrite have the locks and start no operation.
NoIO(g) ==
  /\ pc[g] = "exec"
  /\ h.kind = "file" \/ mode[g] = "w"
  /\ Goto(g, "unlock")
  /\ UNCHANGED <<lifetimeVars, pollVars, h, fdVars, evVars, mode, opVars, res, argVars, packets>>

\* Mutant: no LockOSThread.
PrepareUnpinned(g) ==
  /\ pc[g] = "exec"
  /\ IF OnPoller /\ PollErr(mode[g])
     THEN Return(g, PollError(mode[g])) /\ Goto(g, "unlock")
     ELSE UNCHANGED res /\ Goto(g, "reset")
  /\ UNCHANGED <<lifetimeVars, pollVars, h, fdVars, evVars, mode, opVars, argVars, packets>>

\* LockOSThread where there is no CancelIoEx, then the first half of pd.prepare.
Prepare(g) ==
  /\ pc[g] = "exec"
  /\ IF OnPoller /\ PollErr(mode[g])
     THEN /\ Return(g, PollError(mode[g]))
          /\ Goto(g, "unlock")
          /\ UNCHANGED pinned
     ELSE /\ pinned' = [pinned EXCEPT ![g] = ~SupportCancelIoEx]
          /\ Goto(g, "reset")
          /\ UNCHANGED res
  /\ UNCHANGED <<lifetimeVars, pollVars, h, fdVars, evVars, mode, moved, io, ioEvent,
                 cancelled, timeout, waitErr, argVars, packets>>

Reset(g) ==
  /\ pc[g] = "reset"
  /\ IF OnPoller THEN PollReset(mode[g]) ELSE UNCHANGED pollVars
  /\ Goto(g, "check")
  /\ UNCHANGED <<lifetimeVars, h, fdVars, evVars, mode, opVars, res, argVars, packets>>

\* keepsOwnDeadlines and deadlineTimeout, before the operation starts.
CheckDeadline(g) ==
  /\ pc[g] = "check"
  /\ IF events /\ own[mode[g]] = "past"
     THEN /\ Return(g, "timeout")
          /\ Goto(g, "unlock")
          /\ pinned' = [pinned EXCEPT ![g] = FALSE]
     ELSE /\ Goto(g, "submit")
          /\ UNCHANGED <<res, pinned>>
  /\ UNCHANGED <<lifetimeVars, pollVars, h, fdVars, evVars, mode, moved, io, ioEvent,
                 cancelled, timeout, waitErr, argVars, packets>>

\* The operation of g is over: its completion is reported by a packet or by its
\* event.  A synchronous handle reports nothing; its thread just returns.
Report(g) ==
  /\ packets' = IF associated THEN [packets EXCEPT ![mode[g]] = @ + 1] ELSE packets
  /\ ioEvent' = [ioEvent EXCEPT ![g] = ByEvent]

Silent == UNCHANGED <<packets, ioEvent>>

\* submit refuses the operation.
SubmitFails(g) ==
  /\ pc[g] = "submit"
  /\ Return(g, "failed")
  /\ pinned' = [pinned EXCEPT ![g] = FALSE]
  /\ Goto(g, "unlock")
  /\ UNCHANGED <<lifetimeVars, pollVars, h, fdVars, evVars, mode, moved, io, ioEvent,
                 cancelled, timeout, waitErr, argVars, packets>>

\* submit completes the operation at once.  The kernel reports it like any
\* other unless it was told to skip that.
SubmitCompletes(g) ==
  /\ pc[g] = "submit"
  /\ ~h.blocking
  /\ io' = [io EXCEPT ![g] = "ok"]
  /\ IF SkipOnSuccess THEN Silent ELSE Report(g)
  /\ Goto(g, IF WaitOnSuccess THEN "wait" ELSE "result")
  /\ UNCHANGED <<lifetimeVars, pollVars, h, fdVars, evVars, mode, pinned, moved,
                 cancelled, timeout, waitErr, res, argVars>>

\* ERROR_IO_PENDING, or a thread that blocks in ReadFile or WriteFile.
SubmitPends(g) ==
  /\ pc[g] = "submit"
  /\ io' = [io EXCEPT ![g] = "pending"]
  /\ Goto(g, IF h.blocking THEN "blocked" ELSE "wait")
  /\ UNCHANGED <<lifetimeVars, pollVars, h, fdVars, evVars, mode, pinned, moved, ioEvent,
                 cancelled, timeout, waitErr, res, argVars, packets>>

Unblocked(g) ==
  /\ pc[g] = "blocked"
  /\ io[g] # "pending"
  /\ Goto(g, "result")
  /\ UNCHANGED <<lifetimeVars, pollVars, h, fdVars, evVars, mode, opVars, res, argVars, packets>>

----------------------------------------------------------------------------
(* waitIO on the poller *)

PollWaitReady(g) ==
  /\ pc[g] \in {"wait", "drain"}
  /\ ~ByEvent
  /\ PollConsume(mode[g])
  /\ Goto(g, "result")
  /\ UNCHANGED <<lifetimeVars, h, fdVars, evVars, mode, opVars, res, argVars, packets>>

PollWaitFails(g) ==
  /\ pc[g] = "wait"
  /\ ~ByEvent
  /\ PollErr(mode[g])
  /\ waitErr' = [waitErr EXCEPT ![g] = PollError(mode[g])]
  /\ Goto(g, "cancel")
  /\ UNCHANGED <<lifetimeVars, pollVars, h, fdVars, evVars, mode, pinned, moved, io, ioEvent,
                 cancelled, timeout, res, argVars, packets>>

\* CancelIoEx names the operation.  CancelIo, which stands in for it where it is
\* missing, reaches only operations the calling thread submitted.
Reaches(g) == SupportCancelIoEx \/ ~moved[g]

\* Mutant: the operation is cancelled but not waited for.
CancelAndGo(g) ==
  /\ pc[g] = "cancel"
  /\ cancelled' = [cancelled EXCEPT ![g] = io[g] = "pending" /\ (@ \/ Reaches(g))]
  /\ Goto(g, "result")
  /\ UNCHANGED <<lifetimeVars, pollVars, h, fdVars, evVars, mode, pinned, moved, io, ioEvent,
                 timeout, waitErr, res, argVars, packets>>

\* The cancel of waitIO and of cancelEventIO; both then wait in "drain".
Cancel(g) ==
  /\ pc[g] = "cancel"
  /\ cancelled' = [cancelled EXCEPT ![g] = io[g] = "pending" /\ (@ \/ Reaches(g))]
  /\ Goto(g, "drain")
  /\ UNCHANGED <<lifetimeVars, pollVars, h, fdVars, evVars, mode, pinned, moved, io, ioEvent,
                 timeout, waitErr, res, argVars, packets>>

----------------------------------------------------------------------------
(* waitEventIO *)

\* WaitForSingleObject, or WaitForMultipleObjects when the operation is done:
\* the lower of two signalled handles is the one reported.
EventSignalled(g) ==
  /\ pc[g] \in IF events THEN {"waiting", "drain"} ELSE {"wait", "drain"}
  /\ ByEvent
  /\ ioEvent[g]
  /\ ioEvent' = [ioEvent EXCEPT ![g] = FALSE]
  /\ Goto(g, "result")
  /\ UNCHANGED <<lifetimeVars, pollVars, h, fdVars, evVars, mode, pinned, moved, io,
                 cancelled, timeout, waitErr, res, argVars, packets>>

\* The head of the loop: deadlineTimeout.
EventTimeout(g) ==
  /\ pc[g] = "wait"
  /\ ByEvent /\ events
  /\ timeout' = [timeout EXCEPT ![g] = own[mode[g]] = "future"]
  /\ IF own[mode[g]] = "past"
     THEN waitErr' = [waitErr EXCEPT ![g] = "timeout"] /\ Goto(g, "cancel")
     ELSE UNCHANGED waitErr /\ Goto(g, "waiting")
  /\ UNCHANGED <<lifetimeVars, pollVars, h, fdVars, evVars, mode, pinned, moved, io, ioEvent,
                 cancelled, res, argVars, packets>>

DeadlineSignalled(g) ==
  /\ pc[g] = "waiting"
  /\ ~ioEvent[g]
  /\ dlEvent[mode[g]]
  /\ dlEvent' = [dlEvent EXCEPT ![mode[g]] = FALSE]
  /\ IF Closing /\ ~SupportCancelIoEx
     THEN waitErr' = [waitErr EXCEPT ![g] = "errClosing"] /\ Goto(g, "cancel")
     ELSE UNCHANGED waitErr /\ Goto(g, "wait")
  /\ UNCHANGED <<lifetimeVars, pollVars, h, fdVars, own, mode, pinned, moved, io, ioEvent,
                 cancelled, timeout, res, argVars, packets>>

\* The time limit the wait began with runs out.  It is that of the deadline
\* stored last, or of the one before while SetDeadline has yet to signal.
WaitTimesOut(g) ==
  /\ pc[g] = "waiting"
  /\ ~ioEvent[g] /\ ~dlEvent[mode[g]]
  /\ timeout[g]
  /\ \/ own[mode[g]] = "past"
     \/ \E c \in Controllers : pc[c] = "signal" /\ mode[c] = mode[g]
  /\ waitErr' = [waitErr EXCEPT ![g] = "timeout"]
  /\ Goto(g, "cancel")
  /\ UNCHANGED <<lifetimeVars, pollVars, h, fdVars, evVars, mode, pinned, moved, io, ioEvent,
                 cancelled, timeout, res, argVars, packets>>

----------------------------------------------------------------------------
(* The end of execIO, and the deferred unlock *)

\* Mutant: only a pipe's operation is taken to be cancelled by Close.
ResultOfPipes(g) ==
  CASE io[g] = "ok"      -> "ok"
    [] io[g] = "pending" -> IF waitErr[g] # "nil" THEN waitErr[g] ELSE "incomplete"
    [] io[g] = "aborted" -> IF waitErr[g] # "nil" THEN waitErr[g]
                            ELSE IF h.kind = "pipe" /\ Closing THEN "errClosing"
                            ELSE "aborted"

\* What execIO makes of the result of the operation.
ResultOf(g) ==
  CASE io[g] = "ok"      -> "ok"
    [] io[g] = "pending" -> IF waitErr[g] # "nil" THEN waitErr[g] ELSE "incomplete"
    [] io[g] = "aborted" -> IF waitErr[g] # "nil" THEN waitErr[g]
                            ELSE IF (h.kind = "pipe" \/ OffPoller) /\ Closing THEN "errClosing"
                            ELSE "aborted"

\* The operation goes back to its pool, its buffers are unpinned, its event is
\* closed, the thread is let go.
Result(g) ==
  /\ pc[g] = "result"
  /\ Return(g, ResultOf(g))
  /\ io' = [io EXCEPT ![g] = IF @ = "pending" THEN @ ELSE "none"]
  /\ ioEvent' = [ioEvent EXCEPT ![g] = FALSE]
  /\ cancelled' = [cancelled EXCEPT ![g] = FALSE]
  /\ timeout' = [timeout EXCEPT ![g] = FALSE]
  /\ waitErr' = [waitErr EXCEPT ![g] = "nil"]
  /\ pinned' = [pinned EXCEPT ![g] = FALSE]
  /\ moved' = [moved EXCEPT ![g] = FALSE]
  /\ Goto(g, "unlock")
  /\ UNCHANGED <<lifetimeVars, pollVars, h, fdVars, evVars, mode, argVars, packets>>

\* Write and its kin go on with the rest of the buffer, RawRead asks its callback
\* again, Accept drops a connection that was reset: one call, another operation.
Repeat(g) ==
  /\ pc[g] = "unlock"
  /\ g \in Loopers /\ Needs(g) \subseteq hold[g]
  /\ \/ res[g] = "ok" /\ (mode[g] = "w" \/ h.kind = "net")
     \/ res[g] = "failed" /\ mode[g] = "r" /\ h.kind = "net"
  /\ Return(g, "nil")
  /\ Goto(g, "exec")
  /\ UNCHANGED <<lifetimeVars, pollVars, h, fdVars, evVars, mode, opVars, argVars, packets>>

Unlock(g) ==
  /\ pc[g] = "unlock"
  /\ Release(g, IF "r" \in hold[g] THEN "r" ELSE "w")
  /\ IF hold'[g] = {} THEN Done(g) ELSE UNCHANGED <<pc, mode, res>>
  /\ UNCHANGED <<pollVars, h, fdVars, evVars, opVars, argVars, packets>>

\* rwlock failed before it took anything.
UnlockNothing(g) ==
  /\ pc[g] = "unlock"
  /\ hold[g] = {}
  /\ Done(g)
  /\ UNCHANGED <<lifetimeVars, pollVars, h, fdVars, evVars, opVars, argVars, packets>>

----------------------------------------------------------------------------
(* Close and destroy *)

CallClose(g) ==
  /\ pc[g] = "idle"
  /\ g \in Controllers
  /\ StartClose(g)
  /\ Goto(g, "interrupt")
  /\ UNCHANGED <<pollVars, h, fdVars, evVars, mode, opVars, res, argVars, packets>>

\* Any call on a closed FD, and DisassociateIOCP while a read is under way.
CallRefused(g) ==
  /\ pc[g] = "idle"
  /\ g \in Controllers
  /\ Closing \/ Holding("r") # {}
  /\ UNCHANGED vars

\* Mutant: Close cancels only a pipe's operations.
CloseInterruptsPipes(g) ==
  /\ pc[g] = "interrupt"
  /\ cancelled' = IF h.kind = "pipe" /\ SupportCancelIoEx
                  THEN [x \in Goroutines |-> cancelled[x] \/ io[x] = "pending"]
                  ELSE cancelled
  /\ Goto(g, "wake")
  /\ UNCHANGED <<lifetimeVars, pollVars, h, fdVars, evVars, mode, pinned, moved, io, ioEvent,
                 timeout, waitErr, res, argVars, packets>>

\* CancelIoEx for the whole handle.  CancelIo would reach the operations of the
\* closing thread, and it has none: every operation keeps its thread to itself.
CloseInterrupts(g) ==
  /\ pc[g] = "interrupt"
  /\ cancelled' = IF (h.kind = "pipe" \/ OffPoller) /\ SupportCancelIoEx
                  THEN [x \in Goroutines |-> cancelled[x] \/ io[x] = "pending"]
                  ELSE cancelled
  /\ Goto(g, "wake")
  /\ UNCHANGED <<lifetimeVars, pollVars, h, fdVars, evVars, mode, pinned, moved, io, ioEvent,
                 timeout, waitErr, res, argVars, packets>>

CloseWakes(g) ==
  /\ pc[g] = "wake"
  /\ dlEvent' = IF events /\ ~SupportCancelIoEx THEN [m \in Modes |-> TRUE] ELSE dlEvent
  /\ Goto(g, "evict")
  /\ UNCHANGED <<lifetimeVars, pollVars, h, fdVars, own, mode, opVars, res, argVars, packets>>

\* Mutant: Close evicts only what is still on the port.
CloseEvictsAssociated(g) ==
  /\ pc[g] = "evict"
  /\ IF associated THEN PollEvict ELSE UNCHANGED pollVars
  /\ Goto(g, "decref")
  /\ UNCHANGED <<lifetimeVars, h, fdVars, evVars, mode, opVars, res, argVars, packets>>

CloseEvicts(g) ==
  /\ pc[g] = "evict"
  /\ IF OnPoller THEN PollEvict ELSE UNCHANGED pollVars
  /\ Goto(g, "decref")
  /\ UNCHANGED <<lifetimeVars, h, fdVars, evVars, mode, opVars, res, argVars, packets>>

CloseDecref(g) ==
  /\ pc[g] = "decref"
  /\ Release(g, "close")
  /\ Goto(g, "destroywait")
  /\ UNCHANGED <<pollVars, h, fdVars, evVars, mode, opVars, res, argVars, packets>>

\* destroy, run by whoever gave back the last reference.  It closes the events,
\* and posts csema last.
Destroy ==
  /\ DestroyFD
  /\ events' = FALSE
  /\ UNCHANGED <<pollVars, h, associated, evVars, pc, mode, opVars, res, argVars, packets>>

\* waitForDestroy gets csema.
CloseReturns(g) ==
  /\ pc[g] = "destroywait"
  /\ phase = "destroyed"
  /\ Done(g)
  /\ UNCHANGED <<lifetimeVars, pollVars, h, fdVars, evVars, opVars, argVars, packets>>

\* closeWaitLimit runs out.
CloseAbandons(g) ==
  /\ pc[g] = "destroywait"
  /\ h.blocking /\ ~SupportCancelIoEx
  /\ phase # "destroyed"
  /\ Done(g)
  /\ UNCHANGED <<lifetimeVars, pollVars, h, fdVars, evVars, opVars, argVars, packets>>

----------------------------------------------------------------------------
(* SetDeadline, SetReadDeadline and SetWriteDeadline *)

CallSetDeadline(g, S, d) ==
  /\ pc[g] = "idle"
  /\ g \in Controllers
  /\ Acquire(g, "ref")
  /\ todo' = [todo EXCEPT ![g] = S]
  /\ until' = [until EXCEPT ![g] = d]
  /\ Goto(g, "deadline")
  /\ UNCHANGED <<pollVars, h, fdVars, evVars, mode, opVars, res, packets>>

SetPollDeadline(g) ==
  /\ pc[g] = "deadline"
  /\ OnPoller
  /\ PollSetDeadline(todo[g], until[g])
  /\ Goto(g, "unref")
  /\ UNCHANGED <<lifetimeVars, h, fdVars, evVars, mode, opVars, res, argVars, packets>>

\* setDeadlineNoPoller stores the deadline of a mode, then signals its event.
StoreDeadline(g, m) ==
  /\ pc[g] = "deadline"
  /\ ~OnPoller /\ events
  /\ m \in todo[g] /\ (m = "w" => "r" \notin todo[g])
  /\ own' = [own EXCEPT ![m] = until[g]]
  /\ mode' = [mode EXCEPT ![g] = m]
  /\ todo' = [todo EXCEPT ![g] = @ \ {m}]
  /\ Goto(g, "signal")
  /\ UNCHANGED <<lifetimeVars, pollVars, h, fdVars, dlEvent, opVars, res, until, packets>>

\* Mutant: the deadline is stored and nobody is told.
SignalDeadlineSkipped(g) ==
  /\ pc[g] = "signal"
  /\ Goto(g, IF todo[g] = {} THEN "unref" ELSE "deadline")
  /\ UNCHANGED <<lifetimeVars, pollVars, h, fdVars, evVars, mode, opVars, res, argVars, packets>>

SignalDeadline(g) ==
  /\ pc[g] = "signal"
  /\ dlEvent' = [dlEvent EXCEPT ![mode[g]] = TRUE]
  /\ Goto(g, IF todo[g] = {} THEN "unref" ELSE "deadline")
  /\ UNCHANGED <<lifetimeVars, pollVars, h, fdVars, own, mode, opVars, res, argVars, packets>>

NoDeadline(g) ==
  /\ pc[g] = "deadline"
  /\ ~OnPoller /\ ~events
  /\ Goto(g, "unref")
  /\ UNCHANGED <<lifetimeVars, pollVars, h, fdVars, evVars, mode, opVars, res, argVars, packets>>

Unref(g) ==
  /\ pc[g] = "unref"
  /\ Release(g, "ref")
  /\ todo' = [todo EXCEPT ![g] = {}]
  /\ until' = [until EXCEPT ![g] = "none"]
  /\ Done(g)
  /\ UNCHANGED <<pollVars, h, fdVars, evVars, opVars, packets>>

\* Fchmod, Fchdir, GetFileType and GetFileInformationByHandle only keep the
\* handle from being closed.
CallInfo(g) ==
  /\ pc[g] = "idle"
  /\ g \in Controllers
  /\ Acquire(g, "ref")
  /\ Goto(g, "unref")
  /\ UNCHANGED <<pollVars, h, fdVars, evVars, mode, opVars, res, argVars, packets>>

----------------------------------------------------------------------------
(* DisassociateIOCP *)

\* tryReadWriteLock takes the read lock, then the write lock, without waiting.
CallDisassociate(g) ==
  /\ pc[g] = "idle"
  /\ g \in Controllers
  /\ Acquire(g, "r")
  /\ Goto(g, "trylock")
  /\ UNCHANGED <<pollVars, h, fdVars, evVars, mode, opVars, res, argVars, packets>>

TryLock(g) ==
  /\ pc[g] = "trylock"
  /\ Acquire(g, "w")
  /\ Goto(g, "disassociate")
  /\ UNCHANGED <<pollVars, h, fdVars, evVars, mode, opVars, res, argVars, packets>>

TryLockFails(g) ==
  /\ pc[g] = "trylock"
  /\ Closing \/ Holding("w") # {}
  /\ Goto(g, "unlock")
  /\ UNCHANGED <<lifetimeVars, pollVars, h, fdVars, evVars, mode, opVars, res, argVars, packets>>

\* A handle that cannot leave the port is counted as off it all the same.
Disassociate(g) ==
  /\ pc[g] = "disassociate"
  /\ associated' = FALSE
  /\ events' = (events \/ (associated /\ ~CanDetach /\ ~SupportCancelIoEx))
  /\ Goto(g, "unlock")
  /\ UNCHANGED <<lifetimeVars, pollVars, h, evVars, mode, opVars, res, argVars, packets>>

\* NtSetInformationFile or CreateEvent fails.
DisassociateFails(g) ==
  /\ pc[g] = "disassociate"
  /\ associated
  /\ CanDetach \/ (~SupportCancelIoEx /\ ~events)
  /\ Goto(g, "unlock")
  /\ UNCHANGED <<lifetimeVars, pollVars, h, fdVars, evVars, mode, opVars, res, argVars, packets>>

----------------------------------------------------------------------------
(* The scheduler, the clock and the kernel *)

\* A goroutine that parks may resume on another thread.
Migrate(g) ==
  /\ pc[g] = "wait"
  /\ ~pinned[g] /\ ~moved[g]
  /\ moved' = [moved EXCEPT ![g] = TRUE]
  /\ UNCHANGED <<lifetimeVars, pollVars, h, fdVars, evVars, pc, mode, pinned, io, ioEvent,
                 cancelled, timeout, waitErr, res, argVars, packets>>

DeadlinePasses(m) ==
  /\ own[m] = "future"
  /\ own' = [own EXCEPT ![m] = "past"]
  /\ UNCHANGED <<lifetimeVars, pollVars, h, fdVars, dlEvent, pc, mode, opVars, res, argVars, packets>>

TimerFires(S) ==
  /\ PollExpire(S)
  /\ UNCHANGED <<lifetimeVars, h, fdVars, evVars, pc, mode, opVars, res, argVars, packets>>

IoCompletes(g) ==
  /\ io[g] = "pending"
  /\ io' = [io EXCEPT ![g] = "ok"]
  /\ Report(g)
  /\ UNCHANGED <<lifetimeVars, pollVars, h, fdVars, evVars, pc, mode, pinned, moved,
                 cancelled, timeout, waitErr, res, argVars>>

\* A datagram does not fit the buffer.  An older kernel told to skip the
\* completions of synchronous successes forgets this one too.
IoTruncates(g) ==
  /\ io[g] = "pending"
  /\ h.kind = "net" /\ ~h.stream /\ mode[g] = "r"
  /\ io' = [io EXCEPT ![g] = "ok"]
  /\ IF associated /\ SkipOnSuccess /\ TruncationSkips THEN Silent ELSE Report(g)
  /\ UNCHANGED <<lifetimeVars, pollVars, h, fdVars, evVars, pc, mode, pinned, moved,
                 cancelled, timeout, waitErr, res, argVars>>

IoAborts(g) ==
  /\ io[g] = "pending"
  /\ cancelled[g]
  /\ io' = [io EXCEPT ![g] = "aborted"]
  /\ Report(g)
  /\ UNCHANGED <<lifetimeVars, pollVars, h, fdVars, evVars, pc, mode, pinned, moved,
                 cancelled, timeout, waitErr, res, argVars>>

\* Mutant: netpoll reports a packet that is not there.
NetpollSpurious(m) ==
  /\ packets[m] >= 0
  /\ packets' = [packets EXCEPT ![m] = @ - 1]
  /\ PollNotify(m)
  /\ UNCHANGED <<lifetimeVars, h, fdVars, evVars, pc, mode, opVars, res, argVars>>

\* netpoll takes a packet off the port and makes its descriptor ready.
Netpoll(m) ==
  /\ packets[m] > 0
  /\ packets' = [packets EXCEPT ![m] = @ - 1]
  /\ PollNotify(m)
  /\ UNCHANGED <<lifetimeVars, h, fdVars, evVars, pc, mode, opVars, res, argVars>>

----------------------------------------------------------------------------
Call(g) ==
  \/ \E m \in Modes : CallIO(g, m)
  \/ CallClose(g) \/ CallRefused(g)
  \/ \E S \in SUBSET Modes \ {{}}, d \in Deadlines : CallSetDeadline(g, S, d)
  \/ CallInfo(g) \/ CallDisassociate(g)

Step(g) ==
  \/ Lock(g) \/ LockFails(g) \/ NoIO(g) \/ Prepare(g) \/ Reset(g) \/ CheckDeadline(g)
  \/ SubmitFails(g) \/ SubmitCompletes(g) \/ SubmitPends(g) \/ Unblocked(g)
  \/ PollWaitReady(g) \/ PollWaitFails(g) \/ Cancel(g)
  \/ EventSignalled(g) \/ EventTimeout(g) \/ DeadlineSignalled(g) \/ WaitTimesOut(g)
  \/ Result(g) \/ Repeat(g) \/ Unlock(g) \/ UnlockNothing(g)
  \/ CloseInterrupts(g) \/ CloseWakes(g) \/ CloseEvicts(g) \/ CloseDecref(g)
  \/ CloseReturns(g) \/ CloseAbandons(g)
  \/ SetPollDeadline(g) \/ (\E m \in Modes : StoreDeadline(g, m)) \/ SignalDeadline(g)
  \/ NoDeadline(g) \/ Unref(g)
  \/ TryLock(g) \/ TryLockFails(g) \/ Disassociate(g) \/ DisassociateFails(g)

Kernel ==
  \/ \E g \in Goroutines : IoCompletes(g) \/ IoTruncates(g) \/ IoAborts(g) \/ Migrate(g)
  \/ \E m \in Modes : Netpoll(m) \/ DeadlinePasses(m)
  \/ \E S \in SUBSET Modes : TimerFires(S)

Next == (\E g \in Goroutines : Call(g) \/ Step(g)) \/ Destroy \/ Kernel

Spec == Init /\ [][Next]_vars

\* The scheduler runs every goroutine that can run, the kernel carries out a
\* cancel that reached an operation, and netpoll is called again and again.
\* Nothing makes data arrive, a caller call or a deadline pass.
Fairness ==
  /\ \A g \in Goroutines : WF_vars(Step(g)) /\ WF_vars(IoAborts(g))
  /\ \A m \in Modes : WF_vars(Netpoll(m))
  /\ WF_vars(Destroy)

FairSpec == Spec /\ Fairness

----------------------------------------------------------------------------
(* Properties *)

Waiting == {"wait", "waiting", "cancel", "drain"}
InExec  == Waiting \cup {"exec", "reset", "check", "submit", "blocked", "result"}
PCs     == InExec \cup {"idle", "lock", "unlock", "interrupt", "wake", "evict", "decref",
                        "destroywait", "deadline", "signal", "unref", "trylock",
                        "disassociate"}
Errors  == {"nil", "ok", "errClosing", "timeout", "failed", "aborted", "incomplete"}

\* Every field of the FD, of the operations and of the calls keeps its type.
TypeOK ==
  /\ phase \in {"open", "closing", "destroyed"}
  /\ hold \in [Goroutines -> SUBSET Kind]
  /\ ready \in [Modes -> BOOLEAN]
  /\ evicted \in BOOLEAN
  /\ deadline \in [Modes -> Deadlines]
  /\ h \in Handles
  /\ associated \in BOOLEAN
  /\ events \in BOOLEAN
  /\ own \in [Modes -> Deadlines]
  /\ dlEvent \in [Modes -> BOOLEAN]
  /\ pc \in [Goroutines -> PCs]
  /\ mode \in [Goroutines -> Modes]
  /\ pinned \in [Goroutines -> BOOLEAN]
  /\ moved \in [Goroutines -> BOOLEAN]
  /\ io \in [Goroutines -> {"none", "pending", "ok", "aborted"}]
  /\ ioEvent \in [Goroutines -> BOOLEAN]
  /\ cancelled \in [Goroutines -> BOOLEAN]
  /\ timeout \in [Goroutines -> BOOLEAN]
  /\ waitErr \in [Goroutines -> {"nil", "errClosing", "timeout"}]
  /\ res \in [Goroutines -> Errors]
  /\ todo \in [Goroutines -> SUBSET Modes]
  /\ until \in [Goroutines -> Deadlines]
  /\ packets \in [Modes -> Nat]

\* While the kernel has an operation, its goroutine is inside execIO with the
\* locks of the FD: the OVERLAPPED and the buffers are not returned to their
\* pool or unpinned, and the handle is not closed, before the kernel is done.
KernelDoneFirst ==
  \A g \in Goroutines :
    io[g] = "pending" =>
      /\ pc[g] \in Waiting \cup {"blocked"}
      /\ Needs(g) \subseteq hold[g]
      /\ phase # "destroyed"

\* A completion the poller has for a mode belongs to the operation now waiting
\* in that mode, and there is only one: no operation is woken by what an
\* earlier one, timed out, cancelled or synchronous, left behind.
NoStaleCompletion ==
  \A m \in Modes :
    ready[m] \/ packets[m] > 0 =>
      /\ packets[m] = IF ready[m] THEN 0 ELSE 1
      /\ \E g \in Goroutines :
           mode[g] = m /\ pc[g] \in Waiting /\ io[g] \in {"ok", "aborted"}

\* An operation never returns with ERROR_IO_INCOMPLETE, and one that was
\* cancelled always says why: execIO maps ERROR_OPERATION_ABORTED to closing or
\* to the deadline.
ResultExplained == \A g \in Goroutines : res[g] \notin {"incomplete", "aborted"}

\* destroy closes a poll descriptor that was evicted and has nothing to deliver
\* (poll_runtime_pollClose throws without the first).
DestroyedQuiet ==
  phase = "destroyed" /\ OnPoller =>
    evicted /\ \A m \in Modes : ~ready[m] /\ packets[m] = 0

\* Where CancelIoEx is missing Close wakes the operations that wait on an event,
\* and each cancels itself: once Close has signalled, no operation is left to
\* wait without the signal, or it would wait for ever and Close with it.
CloseWakesWaiters ==
  \A g \in Workers :
    /\ \E c \in Controllers : pc[c] \in {"evict", "decref", "destroywait"}
    /\ events /\ ByEvent /\ ~SupportCancelIoEx
    /\ pc[g] \in {"wait", "waiting"} /\ io[g] = "pending"
    => dlEvent[mode[g]]

\* Close returns, whatever operations are pending on the handle.
CloseCompletes == \A c \in Controllers : pc[c] = "destroywait" ~> pc[c] = "idle"

\* Close returns where an operation cancels itself when Close wakes it: on the
\* poller, and wherever CancelIoEx is missing (events, or giving up).
CloseCompletesByWaking ==
  \A c \in Controllers :
    pc[c] = "destroywait" /\ (associated \/ ~SupportCancelIoEx) ~> pc[c] = "idle"

\* Elsewhere Close ends the operations that were pending when it cancelled them.
CloseEndsPending ==
  \A c \in Controllers, g \in Workers :
    pc[c] = "interrupt" /\ io[g] = "pending" /\ (h.kind = "pipe" \/ OffPoller)
      /\ SupportCancelIoEx ~> io[g] # "pending"

\* An operation the kernel has finished with returns to its caller.
DoneReturns == \A g \in Workers : io[g] \in {"ok", "aborted"} ~> pc[g] = "idle"

DeadlinePast(m) == IF OnPoller THEN deadline[m] = "past" ELSE own[m] = "past"

\* A deadline that passes, or is set in the past, ends the operation that is
\* waiting, unless it is moved first: SetDeadline covers pending I/O.
DeadlineEnds ==
  \A g \in Workers :
    pc[g] \in Waiting /\ DeadlinePast(mode[g]) ~>
      pc[g] = "unlock" \/ ~DeadlinePast(mode[g])

\* The same where whoever keeps the deadline also drives the operation, which
\* leaves out a handle that DisassociateIOCP took off the poller.
DeadlineEndsOwn ==
  \A g \in Workers :
    pc[g] \in Waiting /\ DeadlinePast(mode[g]) /\ (OnPoller => associated) ~>
      pc[g] = "unlock" \/ ~DeadlinePast(mode[g])
=============================================================================
