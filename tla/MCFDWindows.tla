---------------------------- MODULE MCFDWindows ----------------------------
\* Instances of FDWindows for TLC: the handles each run considers.
EXTENDS FDWindows, TLC

CONSTANTS w1, w2, c1

WorkerSymmetry == Permutations(Workers)

Handle(os, kind, blocking, onPort, stream) ==
  [os |-> os, kind |-> kind, blocking |-> blocking, onPort |-> onPort, stream |-> stream,
   layered |-> FALSE]

\* A socket the poller drives, one behind a layered provider, a datagram socket,
\* a socket of another port, and a file or pipe opened for overlapped or for
\* synchronous I/O.
Socket(os)     == Handle(os, "net", FALSE, FALSE, TRUE)
Layered(os)    == [Socket(os) EXCEPT !.layered = TRUE]
Datagram(os)   == Handle(os, "net", FALSE, FALSE, FALSE)
Adopted(os)    == Handle(os, "net", FALSE, TRUE, TRUE)
Pipe(os)       == Handle(os, "pipe", FALSE, FALSE, TRUE)
File(os)       == Handle(os, "file", FALSE, FALSE, TRUE)
BlockingPipe(os) == Handle(os, "pipe", TRUE, FALSE, TRUE)

\* Every kernel, and every way an operation is waited for.
EveryHandle ==
  {Socket("xp"), Adopted("xp"), Pipe("xp"), BlockingPipe("xp"),
   Datagram("win7"), Adopted("win7"), Layered("win10"), Pipe("win10"), BlockingPipe("win10")}

\* A reader and a writer at once.
SharedHandles == {Socket("xp"), Datagram("win7"), File("win7"), File("win10"), BlockingPipe("win7")}

AdoptedOnly   == {Adopted("win7")}
AdoptedXP     == {Adopted("xp")}
SocketOnly    == {Socket("win7")}
BlockingOnly  == {BlockingPipe("win7")}
=============================================================================
