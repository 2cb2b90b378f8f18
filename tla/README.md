# goxp: a verification of the Windows I/O core and file operations

goxp is Go 1.27.1 for Windows XP. Most of the fork replaces calls that XP or
Windows 7 lack. Two parts of it are hard.

One is asynchronous I/O: the fork runs the same `internal/poll` on kernels that
cannot cancel another thread's I/O (XP), that cannot take a handle back off a
completion port (XP, Windows 7), that drop some completions (Windows 7), and on
later ones. The other is files: where the kernel has no POSIX delete and rename,
or no way to list a directory by handle, sequences of older calls stand in for
them, and other programs run between the calls.

This directory models both, the first from the locks of one descriptor up to
the thread that blocks in the completion port, checks them with TLC and proves
parts of them with TLAPS.

Paths below are relative to `src/src/`.

## The system

| Part | Source | State | Operations |
|---|---|---|---|
| fdMutex | `internal/poll/fd_mutex.go` | one 64-bit word (closed, two lock bits, three counts), two semaphores | incref, decref, increfAndClose, rwlock, rwunlock, and the FD methods on them |
| Windows FD | `internal/poll/fd_windows.go`, `fd_poll_runtime.go` | handle, `associated`, `waitOnSuccess`, deadline events, own deadlines, `csema` | Init, execIO and its callers, waitIO, waitEventIO, Close, destroy, SetDeadline, DisassociateIOCP |
| poll descriptor | `runtime/netpoll.go` | rg/wg, deadlines, timers, sequence numbers, closing | pollOpen, pollClose, pollReset, pollWait, pollWaitCanceled, pollSetDeadline, pollUnblock, netpollready, timer callbacks |
| netpoll | `runtime/netpoll_windows.go`, polling section of `runtime/proc.go` | the port, `netpollWakeSig`, `sched.lastpoll`, `sched.pollUntil`, timers of Ms | netpoll, netpollBreak, netpollQueueTimer, wakeNetPoller, findRunnable's poll |
| directory listing | `os/dir_windows.go`, `os/file_windows.go` | `dirInfo`: reader, buffer, handles, positions | readdir with three readers, Seek, Close |
| handle-relative operations | `internal/syscall/windows/at_windows.go` | the files of a volume, their names and attributes, open handles | Deleteat, Renameat and their fallbacks |
| RemoveAll | `os/removeall_at.go` | the walk: page, names left, errors | removeAllFrom |

A call of `Read` takes a lock of fdMutex, prepares the poll descriptor, submits
an operation to the kernel, waits for it on the poller or on an event, cancels
it if a deadline or Close ends the wait, waits for the cancelled operation too,
and unlocks. `Close` marks the FD closed, interrupts and wakes what it can,
evicts the poll descriptor, and waits for the last user to destroy the FD.
netpoll turns completion packets into ready poll descriptors.

`RemoveAll` tries to delete a name, and if it is a directory lists it, removes
each entry with `Deleteat`, and removes the directory. Where the volume has no
POSIX semantics, `Deleteat` clears the read-only attribute, moves the file to a
staging directory and marks it there, so that the name is free although
somebody holds the file open; `Renameat` moves the target aside in the same way.

What is hard, and what must hold:

* buffers and handle stay alive until the kernel is done with an operation;
* a completion wakes the operation it belongs to, and no other;
* nobody sleeps through the event that should wake it: a lock release, a
  completion, a deadline, Close, a break of the poll;
* Close and deadlines end pending operations on every kernel;
* timers of old deadlines, or of an earlier use of a descriptor, do nothing;
* counts and clocks do not overflow into something else;
* a listing gives each entry once, whatever reader it falls back to;
* a step that fails, a crash, or a name that changes hands between two calls
  costs no file that nobody asked to delete.

`PROJECT.json` lists these as hazards with the lines where they bite and the
properties that cover them.

## Modules

| Module | What it is |
|---|---|
| `FDLifetime` | abstract: who may use an FD, when it may be closed and destroyed |
| `FDMutex` | `fd_mutex.go`, every method; implements `FDLifetime` |
| `FDMutexProofs` | TLAPS proofs about `FDMutex` |
| `PollSem` | abstract: what a poll descriptor promises `internal/poll` |
| `PollDesc` | one pollDesc of `netpoll.go`; implements `PollSem` |
| `PollDescProofs` | TLAPS proofs about `PollDesc` |
| `FDWindows` | the I/O paths of `fd_windows.go`, on top of `FDLifetime` and `PollSem` |
| `FDWindowsProofs` | TLAPS proofs about `FDWindows` |
| `EventDeadline` | the arithmetic of deadlines the FD keeps itself |
| `EventDeadlineProofs` | TLAPS proofs about `EventDeadline` |
| `NetpollWindows` | netpoll, its break protocol and the Ms that use it |
| `NetpollWindowsProofs` | TLAPS proofs about `NetpollWindows` |
| `ReadDir` | `File.readdir`, with Seek and Close |
| `ReadDirInv` | the inductive invariants of `ReadDir` |
| `ReadDirProofs` | TLAPS proofs about `ReadDir` |
| `AtWindows` | Deleteat and Renameat on a volume other programs use too |
| `RemoveAll` | removeAllFrom, extends `AtWindows` |
| `RemoveAllInv` | the inductive invariants of `RemoveAll` |
| `RemoveAllProofs`, `RemoveAllHeld` | TLAPS proofs about `RemoveAll` and `AtWindows`; the second extends the first and is about a RemoveAll that nothing troubles |
| `MC*` | instances for TLC, one `.cfg` per run |

The composition is by abstraction: `FDWindows` extends `FDLifetime` and
`PollSem` and takes its lock, reference and poller steps from their actions;
`FDMutex` and `PollDesc` are proved to implement those two specifications.
`NetpollWindows` stands apart: it is about which thread takes a packet off the
port, where `FDWindows` only needs that some thread does. `RemoveAll` extends
`AtWindows`: its walk calls Deleteat and goes on where Deleteat returns, while
other callers run Deleteat and Renameat on the same names.

Definitions marked `Mutant` are plausible bugs, each of which some property
must catch. They take part in no specification.

### FDMutex

The fields of the state word are separate variables and the word changes in
one step, as the compare-and-swap does. A turn of a loop that fails its swap
changes nothing and is not a step. `hold[g]` and `op[g]` are the program
counters' memory of what a goroutine must give back. A panic (`overflow`) ends
the goroutine and leaves the mutex as it is, as a panic that is recovered does.

### FDWindows

`h` is the handle: its kernel (XP, Windows 7, Windows 10), what it is, whether
it is synchronous, on another port already, a stream socket, behind a layered
provider. From it follow what `Init` decides (`OnPoller`, `SkipOnSuccess`,
`WaitOnSuccess`, `events`). A worker's call is: locks, `Prepare` and `Reset`,
`CheckDeadline`, one of the `Submit` actions, then `waitIO` on the poller
(`PollWaitReady`, `PollWaitFails`, `Cancel`) or `waitEventIO` (`EventTimeout`,
`EventSignalled`, `DeadlineSignalled`, `WaitTimesOut`, `Cancel`), `Result`, and
`Repeat` or `Unlock`. All reads and writes share these actions: they differ in
the system call, which the model does not tell apart. A file takes both locks.

External, and modelled from how the code uses it: the kernel (`IoCompletes`,
`IoTruncates`, `IoAborts`, where completions are reported), the clock, and the
scheduler moving a goroutine to another thread (`Migrate`). `CancelIo`, which
stands in for `CancelIoEx` on XP, reaches only operations of the calling
thread. `fd.pd.runtimeCtx` is set exactly when `OnPoller`, and stays so after
`DisassociateIOCP`.

### PollDesc

`sem` is rg and wg. One goroutine per mode in `UserModes` does I/O, because
fdMutex admits one. `job` holds what each caller has left to do after the
field update that `publishInfo` makes visible: unblocking under the lock,
readying and counting after it. Two Ms in netpoll overlap there (`Pollers`), with
each other and with the other callers. An armed timer is a callback with the modes it
expires, its sequence number and the instant it was set for.

### EventDeadline

`FDWindows` knows deadlines as none, future and past. Here they are int64
nanoseconds that wrap and uint32 milliseconds whose largest value means for
ever, with small widths. `DelaysInRange` and `DelaysFitTimeout` say for which
delays that arithmetic is exact; the instance is one of those, which TLC checks
as an assumption of `MCEventDeadline`. A SetDeadline stores the deadline in one step
and signals the event in another (`SetEvent`), and up to `Setters` calls are between
the two; a wait that times out there ends by the deadline it began with (`aim`).
Loading the deadline, reading the clock and beginning to wait are one step.

### NetpollWindows

One M at a time polls for `findRunnable` (`owner`), published by
`sched.lastpoll` being zero and `sched.pollUntil`. Others compare and break.
`netpoll(0)` may be called by anyone and may take any packet. `asked` is a
history variable. `hiRes` says whether Ms have high resolution timers, whose
packets go through the port (`haveHighResSleep`); XP has none. The times are
free: neither timer heaps nor spinning are modelled.

### ReadDir

The directory's entries are the numbers 1..N in scan order and 0 for "." and
"..", with sizes that say which buffers they fit. A call loads or creates the
dirInfo (`Load`, `Cas`), locks it (`Lock`), and then alternates between queries
(`InfoEx`, `NtQuery`, `FindFirst`) and draining (`Drain`, `FindNext`). Each query
is one step with every answer the kernel may give: a run of entries of any
length, the end, an entry too large, a refusal that leads to the next reader, an
error. The kernel keeps a scan position per handle. `listed` is what all calls
have returned since the last Seek. The directory does not change meanwhile.

### AtWindows and RemoveAll

`Base` is the directory being removed, `Names` are the names in it. `where[f]` is
the name a file has; setting it aside gives it a name made from its own id, so
the file itself stands for that name. Every NT call is a step of its own and may
fail. `h` and `h2` are the handles of a call: on the file to delete and on the one
reopened to clear its attribute (`wh`), or on the source and the target of a
rename (`th`). Between two steps other programs open files with or without
sharing deletion, create, move and close them, and a caller may crash, which
closes its handles and undoes nothing.

The kernel's part is external: which opens, renames and dispositions it grants,
and that a file marked for deletion goes with its last handle. A volume either
has POSIX semantics, or has not, with the staging directory on it or elsewhere.

Three ghosts say what the properties need to know. `doomed`: a delete has opened
this file, or a rename has put its source in this file's place. (A target can turn
out to be the source: it has the name already, or another rename of the same file
got there first. The code sets it aside, renames it and deletes it; it counts as
replaced, so `OnlyNamedFilesHarmed` says nothing of it.) `excused`: a
failed call, a crash, or another call on the same file may have left this file
anywhere. `trouble`: RemoveAll has a reason to fail. Another call is one, and so
is an earlier call of the same caller: the first may have marked the directory,
which a program holds open, and the second then finds it there and cannot open
it. The instance has one call per caller and does not tell these apart; the proof
of `HeldFilesDoNotBlock` for any number of calls needs it.

`removeAllFrom` recurses; here an entry is a file, a link or an empty directory,
so the recursion is one level deep (`Child`, `Sub`, `Gone`), and `Sub` takes the
open and the empty listing of such a directory in one step.

## Runs

| Run | Instance | Shows |
|---|---|---|
| `fd_mutex` | 4 goroutines, `MaxRef` 2 | safety of fdMutex, both overflows included, and that it implements FDLifetime |
| `fd_mutex_live` | 3 goroutines, `MaxRef` 6 | Close fails the sleepers and the FD is destroyed |
| `fd_windows` | 2 workers, 1 controller, 5 handles | safety with a reader and a writer that repeat |
| `fd_windows_live` | 1 worker, 1 controller, 9 handles | Close, deadlines and completions end operations |
| `poll_desc` | reader, one instant, `MaxSeq` 3 | safety of pollDesc and that it implements PollSem |
| `poll_timers` | no I/O, two instants, `MaxSeq` 4 | timers, combined deadlines, reuse |
| `poll_desc_live` | reader, `MaxSeq` 2 | waits end |
| `event_deadline` | 7-bit clock, 3 ns per ms | waits end neither early nor late |
| `netpoll` | 2 Ms, 2 instants, 1 operation, with and without timers of Ms | the break protocol, and that a break ends the poll |
| `read_dir` | 2 readers, 3 calls, 1 Seek or Close, 1 fault, 8 file systems, 3 directories | each entry once, the end at the end, handles owned, calls return |
| `remove_all` | a RemoveAll and a second caller, 2 files, 2 names, 8 disks, 1 upset, pages of 1 | no file harmed, strays explained, nil means gone, RemoveAll returns |

Why the bounds are enough. fdMutex: two goroutines contend, one closes, one
more overflows the counts. FDWindows: each mode has one operation at a time, so
two workers fill both, and calls that wait for a lock add nothing; the live run
takes one worker and every kind of handle instead. PollDesc: the read and
write sides are alike, so one mode does I/O while both have deadlines;
`MaxSeq` allows a deadline to be set, moved and the descriptor reused;
`MaxBump` 1 lets `netpollWaiters` lag behind a parked goroutine. EventDeadline:
the delays run from past ones to the largest that does not overflow the
rounding, which takes the largest timeout there is, and the instants wrap; two
calls of SetDeadline overlap. NetpollWindows: a poller, and an M that wakes
it or takes its packets in a `netpoll(0)`; the safety properties are proved for
any number of Ms; a second operation would be a second packet of the kind the
protocol ignores. ReadDir: a directory that is empty, one with an entry that
takes a larger buffer and one with an entry that fits none; buffers of one and
two units; calls for two entries and for all; three calls let a third go on
after a failure and a fallback. RemoveAll: pages of one name make every page
boundary happen with two entries; one upset puts one failure, crash or foreign
step at every place; what a second one could do to the safety properties the
proofs cover.

Each module has a type invariant. The one of `FDWindows` is a property of
`fd_windows`; it and those of `FDMutex`, `PollDesc`, `EventDeadline`,
`NetpollWindows` and `ReadDir` are proved. The one of RemoveAll holds on the
instance above and can be checked by adding it to the `.cfg`.

Deadlock is not checked where the model may really stop: `fd_mutex` (panics may
end every goroutine), the runs of PollDesc (at `MaxSeq`), `read_dir` and
`remove_all` (when the calls are used up).

Symmetry is used only in runs without liveness properties.

### Disagreements with the code's own words

One run is expected to find a violation, of `CloseCompletes`. It states what a
test says, quoted in `PROJECT.json`.

* `close_adopted`: a socket that another completion port has, where CancelIoEx
  exists. A Read that has its lock and submits its operation just after Close's
  one cancel is neither refused nor cancelled, and Close waits for ever.

TLC finds more on other instances of the same modules. They are not among the
runs, but can be reproduced by changing the constants as given (the rest as in
`MCCloseAdopted.cfg`, `MCEventDeadline.cfg` or `MCReadDir.cfg`) and checking that
one property:

| Property | Instance | What happens |
|---|---|---|
| `CloseCompletes` | `Handles <- SocketOnly` | `Conn.File` takes a Windows 7 socket off the poller and leaves its poll descriptor; Close then neither cancels nor signals (`fd_windows.go:902`, against `net/net.go:136`) |
| `CloseCompletes` | `Handles <- BlockingOnly` | a ReadFile on a synchronous pipe, entered after Close's cancel, is never ended, against the comment at `fd_windows.go:838` |
| `CloseWakesWaiters` | `Handles <- AdoptedXP`, `Loopers = {w1}`, `SPECIFICATION Spec` | a call of several operations spends Close's one signal on one that completes, and waits again without it (`fd_windows.go:597`) |
| `DeadlineEnds` | `Handles <- SocketOnly` | deadlines of a socket taken off the poller still go to the poller (`net/net.go:152`) |
| `NeverEarly` | `Delays <- Long`, `INFINITE = 7` | a deadline more than 2^32 - 2 ms away is reported when the capped wait runs out (`fd_windows.go:660`) |
| `NeverLate` | `Delays <- Ancient`, `INFINITE = 7` | a deadline some 292 years past wraps to one far ahead (`fd_windows.go:620`) |
| `NeverPanics` | `Readers = {r1}`, `Directories <- OneEntry`, `FileSystems <- OnXP`, `BufSize = 2`, `SeekRaces = TRUE`, `MaxCalls = 2`, `MaxFaults = 0`, `SPECIFICATION Spec` | Seek and Close close the dirInfo without its lock, and a readdir under way finds its buffer gone (`os/file_windows.go:202`), although `os/types.go:17` says that the methods of File are safe for concurrent use |
| `EachOnceInOrder` | `FileSystems` the set of `Modern` with `continues = FALSE`, `Readers = {r1}`, `BufSize = 2` | a file system that lists with FileFullDirectoryRestartInfo and then refuses FileFullDirectoryInfo: the native reader starts again and returns the first entries twice, against `os/dir.go:56`; whether such a file system exists `src/` does not say |

These are results about the models. None has been reproduced on Windows.

The passing runs state what does hold: `CloseCompletesByWaking` for handles on
the poller and on XP (calls of one operation), `CloseEndsPending` for what is
pending when Close cancels, `DeadlineEndsOwn` where whoever keeps the deadline
drives the operation, `NeverEarly` and `NeverLate` for delays within range, and
the properties of ReadDir for calls that do not overlap a Seek or Close, on
file systems that go on with a class they have once listed with.

## Fairness

* `FDMutex`: weak fairness of every goroutine's started call. The scheduler
  runs runnable goroutines, and users give references back (`FDWindows` is
  about when they do). No call has to begin.
* `FDWindows`: weak fairness of every goroutine's steps, of netpoll for each
  mode, of destroy, and of the kernel carrying out a cancel that reached an
  operation. Nothing makes data arrive, a caller call, or a deadline pass.
* `PollDesc`: weak fairness of goroutines, of callers into the poller and of
  callbacks that fired; netpoll reports an operation that was cancelled.
* `NetpollWindows`: weak fairness of every M, strong fairness of dequeuing: a
  thread that waits on the port gets a packet in the end although others keep
  taking and forwarding it.
* `ReadDir`, `RemoveAll`: weak fairness of the steps of a call under way. The
  kernel answers every call; no call has to begin, and no other program has to
  close a file it holds.

## Proofs

A safety property of these modules is seldom inductive. Each proof states an
inductive invariant (`IInv`; `FInv` and `QInv` for two properties of RemoveAll;
`Safe` and `Listing` for ReadDir), proves it action by action, and reads the properties off it. TLC checked every one
of them on the instances above before it was proved. Facts on cardinality come from
`FiniteSetTheorems`.

### EventDeadline

`EventDeadlineProofs`, for every width of the integers, every length of the
millisecond, every `INFINITE` and every clock. The theorems name what they suppose of
the delays, because `setDeadlineNoPoller` takes any. `DelaysInRange`: the clock is an
int64; no delay carries an instant onto 0, which stands for no deadline; the time left
of a deadline long past, and of one far ahead rounded up, fit an int64. Outside it the
properties fail, as the table of instances shows for `Ancient`. The instants
themselves may overflow.

`IInv` says that the deadline kept is the instant asked for or that instant less
2^64, so that the difference `deadlineTimeout` takes is the true one (`LeftExact`), and
that a wait which nobody signalled, and no setter is about to signal, has a timeout
worked out from the present deadline.
`RoundedUp` is the rounding to milliseconds. From it `TypeCorrect` and
`WaitsEndInTime` (`NeverLate`, also when the timeout is capped). `WaitsNotCutShort`
(`NeverEarly`) supposes `DelaysFitTimeout` too, that no timeout is capped (49 days):
with the cap a wait does end early, as the table shows for `Long`.

### FDMutex

`FDMutexProofs`, for every finite set of goroutines and every positive `MaxRef`.
That the reference count is right needs to know what a goroutine holds at each
place in its method, and that semaphores balance needs that a closed mutex has no
waiters. `IInv` adds `Control` (place determines holdings) and `CloseControl` to
the properties. From it: `TypeCorrect`, `MutualExclusion`, `DestroyOnceUnused`,
`SleepersAccounted`, `NoInconsistentPanic`; `WakeupsNotLost`, by a second invariant
(`Attended`: some goroutine, lock or semaphore unit still stands for the waiters)
that rests on `IInv`; and `Refinement`, that every step is a step of FDLifetime or a
stutter.

### PollDesc

`PollDescProofs`, for every set of instants and every bound on
sequence numbers and pending increments. The invariant has two halves.

`SemInv` is about rg and wg. `SemOf`: a goroutine that waits has its operation in
the kernel or its completion in the semaphore, never both. `JobOf`: a caller into
the poller has modes left to unblock exactly while it has the lock, and has counted
off as many goroutines as it will ready. `WakeOf`: a goroutine that is parked and no
longer in rg or wg has exactly one job that will ready it. `WatchOf`: one that is in
rg or wg when its wait should fail has a job that will take it out.

`TimerInv` is about deadlines. `FiredOf` and `ArmedOf`: of the callbacks a timer has
ever started at most one is current, and then the run flag is set. `ExpiryOf`: a job
unblocks only modes whose wait should fail, and the callback that serves both
deadlines has found both on its instant.

From it: `TypeCorrect`, `NoThrow`, `NoLostWakeup`, `WaitersNeverDrift`,
`StaleTimersHarmless`, `DeadlinesNeverLost`; the action property
`NoLostCompletion`; and `Refinement`, that every step is a step of PollSem or a
stutter.

### FDWindows

`FDWindowsProofs`, for any goroutines and any set of handles, kernels included.
`HoldOf` says which locks a goroutine has at each step, `OpOf` what the kernel may
be doing for it there and that whoever cancelled an operation has left the reason,
`TokenOf` that the poller has at most one completion of a mode and the operation it
belongs to is waiting. The last is where the argument is: that a completion cannot
be an older operation's follows from one holder of a lock being one operation of a
mode (`Exclusive`), from waitIO waiting for the operation it cancelled, and from
`associated` being cleared only by a caller with both locks. `Evicted` says that
Close evicts before anybody can be the last to leave. From these:
`MemorySafeFromKernel` (`KernelDoneFirst`), `CompletionsMatch`
(`NoStaleCompletion`), `CancelsExplained` (`ResultExplained`) and
`QuietWhenDestroyed` (`DestroyedQuiet`), besides `TypeCorrect`.

FDWindows takes its lock and poller steps from FDLifetime and PollSem, which FDMutex
and PollDesc are proved to implement. That the three together are the composed
program is an argument about the modules, not a theorem.

### NetpollWindows

`NetpollWindowsProofs`, for all sets of Ms, operations and instants, with and
without timers of Ms. `IInv` adds `Where` (which places belong to the poller,
what an M's locals are there) to `TypeOK`, `PollUntilIsTrue`, `WakeupInFlight`
and `NeverMissesWakeup`. From it: `TypeCorrect`, `OneWakeupInFlight`,
`PollUntilTrusted`, `NoMissedWakeup`.

### ReadDir

`ReadDirProofs`, for any finite set of goroutines, any directories, any buffer
sizes and any number of calls, seeks and failures, where Seek and Close do not run
during a call (`~SeekRaces`): with such a race `NeverPanics` fails, as the table of
instances shows. What the calls return supposes `Continues` too, that
GetFileInformationByHandleEx goes on with a scan it has started; the table has the
instance where it does not. There are two invariants, in `ReadDirInv`.

`Safe` is `TypeOK` with `Control` (who has which dirInfo at each place of a call, that
only one call has the lock and the one that made a dirInfo alone knows it until its
CAS), `Handles` (a dirInfo that owns a reopened handle or a search is the file's or
the one being closed) and `Buffers` (entries not yet drained have a buffer). It
gives `TypeCorrect` and `NoHandleForgotten` (`HandlesOwned`). That no call finds its
buffer gone is part of `Control` and not a result of its own: what could take the
buffer away is the race that `~SeekRaces` leaves out.

`Listing` says how far the reader at work has come. What has been listed, by calls
that returned and by the one that has the lock, is the entries up to that point
(`Run`). For the first reader it is the entry before the buffer's rest
(`GoodInfoEx`), for a search by name the last entry it gave (`GoodFind`). The native
reader (`GoodNt`) is the hard case: a buffer that must grow restarts the scan, and
`ntSeen` counts the entries skipped until the `ntPos` that were listed have come by
again. That none is skipped too many needs that every entry listed fits the present
buffer: then an entry that does not fit is ahead of all of them, and the scan stands
where the listing does. It also needs that an entry is passed over, with an error,
only where the buffer cannot grow, so that no restart follows. From it:
`ListedInOrder` (`EachOnceInOrder`) and `EndAfterAll` (`EndIsTheEnd`).

That a new dirInfo can be had, one that no call refers to, is a count:
`InfosSuffice`, `FreshExists`.

### AtWindows and RemoveAll

For all sets of callers, names, disks and requests, any finite set of files, any
page size and any number of calls and upsets: `NoFileHarmedByMistake`
(`OnlyNamedFilesHarmed`), `NoUnexplainedStray` (`StraysExplained`),
`NilIsBelieved` (`NilMeansGone`), `DeletedNamesFree` (`DeleteFreesName`) and
`HeldFilesHarmless` (`HeldFilesDoNotBlock`). The first three follow from `IInv`:

* `Shape`: the types the other parts need;
* `OwnPlace`: only a file itself is ever at the name made from its id, so that
  setting a file aside replaces nothing;
* `BaseStays`: the directory keeps its name until it is gone, and no other file
  takes it;
* `HandlesOf`: what a call knows of its handles from where it is, above all that
  a delete past its open works on a doomed file;
* `BaseOf`: which calls have the directory open, and that a success they report
  about it is true;
* `Accounted`: some call is responsible for each file that is aside and not
  marked, or the file is excused;
* `FoundAside`: a call that found a file at the name made from its id has it
  still there.

`RemoveAllInv` states it and `RemoveAllProofs` proves it, for other programs, crashes, the walk,
Deleteat and Renameat in turn. The lemmas `Works` and `WorksMoving`
carry what the steps have in common: a call's step moves no file, or one file to a
name that then is its own.

`DeletedNamesFree` needs `FInv` on top of it: no two files are at one name
(`OneEach`), a file that is marked and not excused is off the names of the
directory (`MarkedOff`), and a file a call works on leaves the name it was found at
only to be off, also through the steps of every other call (`FreesOf`).

`HeldFilesHarmless` (in `RemoveAllHeld`) is about behaviours without `trouble`, so its
invariant `QInv` describes one call that runs alone among programs that hold files
without getting in its way. `DeleteOf`, `DoneOf` and `VerdictOf` say what each of
its four uses of Deleteat has done and answers, `KeptOf` that the directory is there
until the last of them, and `PageOf` that the pages cover it: every file still
inside is not yet listed, or still to be removed, or the one being removed, and
after a short page there is none that was not listed. So the directory is empty when
removedirat is called; files that are marked and still held are no longer inside.

### Assumptions

Those the modules name: finitely many goroutines and files, positive widths,
instants and page size, that packets of different kinds differ, that handles are of
`HandleType` and workers and controllers are goroutines (`ActorsAssumption`),
that readdir's first buffers are not larger than the largest (`SizesAssumption`), that
a count is not zero (readdir takes zero for all entries) and a directory a sequence of
sizes (`InputsAssumption`), that file systems are of `FSType`,
that names, files and the other places differ (`PlacesAssumption`), that a name
belongs to one file on a disk before anything happens (`DisksAssumption`), and that
calls use names of the directory and renames stay within it (`RequestsAssumption`).

### Only model-checked

* All liveness, and with it `CloseCompletesByWaking`, `DeadlineEndsOwn`,
  `RemoveAllReturns`, `ReaddirReturns` and their like: the prover does neither fairness nor ENABLED.
* `TypeOK` of RemoveAll.

## Not modelled

* Consoles, file offsets, translation of errors, the contents of buffers,
  failures of the wait calls themselves.
* The scheduler outside its polling section: spinning, run queues, timer
  heaps. In particular that somebody polls for a timer at all when no M is
  polling rests on `wakep`, which is not modelled.
* `setEventErr` (not used on Windows), the lists of pollCache.
* A directory that changes while it is listed (`ReadDir`); what an entry carries
  besides its name. RemoveAll's listing, in `RemoveAll`, does change.
* RemoveAll's recursion into directories that have entries, its first attempt
  by name, and the opening of the parent.
* `Openat` beyond opening a directory, `Linkat`, `Symlinkat`, `Mkdirat`, and the
  path walk of os.Root: which component a path resolves to is a matter of
  strings and reparse points that these models leave out.
* Process creation, DLL loading, certificates, paths, the linker: sequential
  code, strings or pure I/O; see the components in `PROJECT.json`.

## What could follow

The spinning and timer-scan protocol of `findRunnable`, composed with
NetpollWindows; console reads and writes across buffer boundaries; fdMutex's packed
word as a refinement of FDMutex.
