------------------------------ MODULE ReadDir ------------------------------
(***************************************************************************)
(* File.readdir (os/dir_windows.go): the resumable listing of a directory  *)
(* with three readers, each the fallback of the one before, its dirInfo    *)
(* shared by all users of the File, and Seek and Close, which take the     *)
(* dirInfo away.                                                           *)
(*                                                                         *)
(* The directory does not change while it is listed.  Its entries are the  *)
(* numbers 1..N in the order the file system scans them; 0 stands for "."  *)
(* and "..".  A buffer holds a run of consecutive entries.                 *)
(***************************************************************************)
EXTENDS Integers, Sequences, FiniteSets

CONSTANTS Readers,      \* goroutines that call readdir
          Directories,  \* the sizes of a directory's entries, in scan order
          FileSystems,  \* what the kernel and the file system can do
          Counts,       \* arguments of readdir; -1 asks for all entries
          PoolSize,     \* dirBufSize
          BufSize,      \* readDirNtQueryBufSize
          MaxBuf,       \* maxNtQueryBufSize
          SeekRaces,    \* Seek and Close may run during a readdir
          MaxCalls,     \* bound: calls of readdir
          MaxSeeks,     \* bound: calls of Seek
          MaxFaults     \* bound: queries that fail

\* The current dirInfo, the one that Seek is closing, and what calls have: one
\* they locked and, in readDirFindFirstFile, perhaps another they loaded.
Infos == 1..(2 * Cardinality(Readers) + 1)
NoInfo == 0
None == "none"
NoHandle == -1
FileHandle == 0     \* a reopening is named by its dirInfo

ASSUME ReadersAssumption == IsFiniteSet(Readers) /\ None \notin Readers
ASSUME SizesAssumption ==
    MaxBuf \in Nat /\ PoolSize \in 1..MaxBuf /\ BufSize \in 1..MaxBuf
ASSUME BoundsAssumption == MaxCalls \in Nat /\ MaxSeeks \in Nat /\ MaxFaults \in Nat

\* readdir takes a count of zero for all entries.
ASSUME InputsAssumption == Directories \subseteq Seq(Nat) /\ Counts \subseteq Int \ {0}

VARIABLES fs, sizes,            \* the file system, and the directory on it
          dirinfo,              \* file.dirinfo
          info,                 \* the dirInfos
          mu,                   \* who has a dirInfo's mu
          scan,                 \* a handle's scan position in the kernel
          reopened, searches,   \* dirInfos whose own handles are open
          pc, d, n, got,        \* a call: its place, d, n and its entries
          ctl, closing,         \* Seek or Close under way, the dirInfo it has
          closed,               \* Close has closed the handle
          listed,               \* entries returned since the last Seek
          ended,                \* a call has reported the end
          gap,                  \* an entry too large was reported and passed
          calls, seeks, faults

vworld == <<fs, sizes>>
vkernel == <<scan, reopened, searches>>
vseek == <<ctl, closing, closed, seeks>>
vlisted == <<listed, ended, gap>>
vars == <<vworld, dirinfo, info, mu, vkernel, pc, d, n, got, vseek, vlisted,
          calls, faults>>

N == Len(sizes)
Restart == -1   \* the scan position before "." and ".."

\* A kernel and a file system: the class init chooses, the classes that
\* GetFileInformationByHandleEx knows and whether it continues a scan it has
\* started, whether the call exists, whether NtQueryDirectoryFile lists on
\* this file system, whether the File is a directory, and whether it was opened
\* with FILE_FLAG_OVERLAPPED.
FSType == [class : {"FullRestart", "IdBothRestart"},
           knows : SUBSET {"Full", "IdBoth"}, continues : BOOLEAN,
           vista : BOOLEAN, nt : BOOLEAN, isDir : BOOLEAN, overlapped : BOOLEAN]

ASSUME FileSystemsAssumption == FileSystems \subseteq FSType

\* new(dirInfo) and init.  next..last is the part of buf not drained yet.
NewInfo == [buf |-> 0, next |-> 1, last |-> 0, h |-> TRUE,
            class |-> fs.class, reader |-> "InfoEx",
            ntHandle |-> NoHandle, ntStarted |-> FALSE, ntEOF |-> FALSE,
            ntPos |-> 0, ntSeen |-> 0,
            findOpen |-> FALSE, findAt |-> 0, findPending |-> FALSE,
            findEOF |-> FALSE]

InfoType == [buf : 0..MaxBuf, next : 0..N + 1, last : 0..N, h : BOOLEAN,
             class : {"FullRestart", "Full", "IdBothRestart", "IdBoth"},
             reader : {"InfoEx", "NtQuery", "Find"},
             ntHandle : {NoHandle, FileHandle} \cup Infos,
             ntStarted : BOOLEAN, ntEOF : BOOLEAN, ntPos : Nat, ntSeen : Nat,
             findOpen : BOOLEAN, findAt : 0..N, findPending : BOOLEAN,
             findEOF : BOOLEAN]

\* The fields of the dirInfos and of the calls keep their types; in
\* particular a buffer never grows past maxNtQueryBufSize.
TypeOK ==
    /\ fs \in FileSystems
    /\ sizes \in Directories
    /\ dirinfo \in Infos \cup {NoInfo}
    /\ info \in [Infos -> InfoType]
    /\ mu \in [Infos -> Readers \cup {None}]
    /\ scan \in [Infos \cup {FileHandle} -> Restart..N]
    /\ reopened \subseteq Infos /\ searches \subseteq Infos
    /\ pc \in [Readers -> {"idle", "load", "cas", "lock", "read", "panic"}]
    /\ d \in [Readers -> Infos \cup {NoInfo}]
    /\ n \in [Readers -> Int]
    /\ got \in [Readers -> Seq(1..N)]
    /\ ctl \in {"idle", "seek", "close"}
    /\ closing \in Infos \cup {NoInfo} /\ closed \in BOOLEAN
    /\ listed \in Seq(1..N) /\ ended \in BOOLEAN /\ gap \in BOOLEAN
    /\ calls \in 0..MaxCalls /\ seeks \in 0..MaxSeeks /\ faults \in 0..MaxFaults

Init ==
    /\ fs \in FileSystems /\ sizes \in Directories
    /\ dirinfo = NoInfo
    /\ info = [i \in Infos |-> NewInfo]
    /\ mu = [i \in Infos |-> None]
    /\ scan = [s \in Infos \cup {FileHandle} |-> Restart]
    /\ reopened = {} /\ searches = {}
    /\ pc = [g \in Readers |-> "idle"]
    /\ d = [g \in Readers |-> NoInfo]
    /\ n = [g \in Readers |-> 0]
    /\ got = [g \in Readers |-> <<>>]
    /\ ctl = "idle" /\ closing = NoInfo /\ closed = FALSE
    /\ listed = <<>> /\ ended = FALSE /\ gap = FALSE
    /\ calls = 0 /\ seeks = 0 /\ faults = 0

----------------------------------------------------------------------------
(* The kernel.  A scan stands at the entry it returned last.  The next     *)
(* answer is a run of the entries after it, as many as the file system     *)
(* likes; sizes only say which entries fit a buffer at all.  "." and ".."  *)
(* need not come back on every scan: with a small buffer NTFS drops "..".  *)

Size(e) == IF e = 0 THEN 1 ELSE sizes[e]

FirstEntries(pos) == IF pos = Restart THEN {0, 1} ELSE {pos + 1}

Answers(pos, size) == {a \in (0..N) \X (0..N) :
                          /\ a[1] \in FirstEntries(pos) /\ a[1] <= a[2]
                          /\ \A e \in a[1]..a[2] : Size(e) <= size}

TooBig(pos, size) == {a \in FirstEntries(pos) : a <= N /\ Size(a) > size}

AtEnd(pos) == \E a \in FirstEntries(pos) : a > N

\* A query fails: the handle is closed, or the device reports an error.
QueryFails == \/ closed /\ UNCHANGED faults
              \/ faults < MaxFaults /\ faults' = faults + 1

----------------------------------------------------------------------------
(* A call of readdir: the dirInfo, its lock, the reader.                   *)

\* A dirInfo nobody refers to.
Fresh == CHOOSE i \in Infos : /\ i \notin {dirinfo, closing} /\ mu[i] = None
                              /\ \A g \in Readers : d[g] # i

Start(g) ==
    /\ pc[g] = "idle" /\ calls < MaxCalls
    /\ SeekRaces \/ ctl = "idle"
    /\ \E k \in Counts : n' = [n EXCEPT ![g] = k]
    /\ pc' = [pc EXCEPT ![g] = "load"]
    /\ calls' = calls + 1
    /\ UNCHANGED <<vworld, dirinfo, info, mu, vkernel, d, got, vseek, vlisted, faults>>

\* file.dirinfo.Load, or a new dirInfo.
Load(g) ==
    /\ pc[g] = "load"
    /\ \/ /\ dirinfo # NoInfo
          /\ d' = [d EXCEPT ![g] = dirinfo]
          /\ pc' = [pc EXCEPT ![g] = "lock"]
          /\ UNCHANGED info
       \/ /\ dirinfo = NoInfo
          /\ d' = [d EXCEPT ![g] = Fresh]
          /\ info' = [info EXCEPT ![Fresh] = NewInfo]
          /\ pc' = [pc EXCEPT ![g] = "cas"]
    /\ UNCHANGED <<vworld, dirinfo, mu, vkernel, n, got, vseek, vlisted, calls, faults>>

\* CompareAndSwap; the loser closes its dirInfo, which has nothing open.
Cas(g) ==
    /\ pc[g] = "cas"
    /\ \/ /\ dirinfo = NoInfo
          /\ dirinfo' = d[g]
          /\ pc' = [pc EXCEPT ![g] = "lock"]
          /\ UNCHANGED d
       \/ /\ dirinfo # NoInfo
          /\ d' = [d EXCEPT ![g] = NoInfo]
          /\ pc' = [pc EXCEPT ![g] = "load"]
          /\ UNCHANGED dirinfo
    /\ UNCHANGED <<vworld, info, mu, vkernel, n, got, vseek, vlisted, calls, faults>>

\* readDirFindFirstFile loads file.dirinfo again.
EnterFind(g) == /\ d' = [d EXCEPT ![g] = dirinfo]
                /\ pc' = [pc EXCEPT ![g] = IF dirinfo = NoInfo THEN "panic" ELSE "read"]

Lock(g) ==
    LET i == d[g] IN
    /\ pc[g] = "lock" /\ mu[i] = None
    /\ mu' = [mu EXCEPT ![i] = g]
    /\ info' = [info EXCEPT ![i] = [info[i] EXCEPT !.buf =
                    CASE info[i].reader = "Find" -> 0 [] @ = 0 -> PoolSize [] OTHER -> @]]
    /\ IF info[i].reader = "Find" THEN EnterFind(g)
       ELSE pc' = [pc EXCEPT ![g] = "read"] /\ UNCHANGED d
    /\ UNCHANGED <<vworld, dirinfo, vkernel, n, got, vseek, vlisted, calls, faults>>

\* Mutant: an error is taken for the end.
ReturnSwallowing(g, failed) ==
    /\ pc' = [pc EXCEPT ![g] = "idle"]
    /\ d' = [d EXCEPT ![g] = NoInfo]
    /\ n' = [n EXCEPT ![g] = 0]
    /\ got' = [got EXCEPT ![g] = <<>>]
    /\ mu' = [i \in Infos |-> IF mu[i] = g THEN None ELSE mu[i]]
    /\ listed' = listed \o got[g]
    /\ ended' = (ended \/ n[g] < 0 \/ got[g] = <<>>)

\* The call returns what it has, with an error or not, and unlocks.
\* Without one it reports the end if it was to read all, or has nothing.
Return(g, failed) ==
    /\ pc' = [pc EXCEPT ![g] = "idle"]
    /\ d' = [d EXCEPT ![g] = NoInfo]
    /\ n' = [n EXCEPT ![g] = 0]
    /\ got' = [got EXCEPT ![g] = <<>>]
    /\ mu' = [i \in Infos |-> IF mu[i] = g THEN None ELSE mu[i]]
    /\ listed' = listed \o got[g]
    /\ ended' = (ended \/ (~failed /\ (n[g] < 0 \/ got[g] = <<>>)))

Panic(g) == /\ pc' = [pc EXCEPT ![g] = "panic"]
            /\ UNCHANGED <<d, n, got, mu, listed, ended>>

GoesOn == UNCHANGED <<pc, d, n, got, mu, listed, ended>>

\* The loop of reader r is at its head, with nothing left in the buffer.
Refills(g, r) == /\ pc[g] = "read" /\ info[d[g]].reader = r /\ n[g] # 0
                 /\ info[d[g]].next > info[d[g]].last

\* n entries have been read.
Enough(g) == /\ pc[g] = "read" /\ n[g] = 0
             /\ Return(g, FALSE)
             /\ UNCHANGED <<vworld, dirinfo, info, vkernel, vseek, gap, calls, faults>>

\* One turn of the drain loops: "." and ".." are passed over, and by
\* readDirNtQuery what it returned before it restarted the scan.
Drain(g) ==
    LET i == d[g]
        r == info[i]
        e == r.next
        native == r.reader = "NtQuery"
        again == native /\ r.ntSeen < r.ntPos
    IN /\ pc[g] = "read" /\ n[g] # 0 /\ r.reader # "Find" /\ e <= r.last
       /\ IF r.buf = 0 THEN Panic(g) /\ UNCHANGED info
          ELSE /\ info' = [info EXCEPT ![i] = [r EXCEPT
                    !.next = IF e = r.last THEN 1 ELSE e + 1,
                    !.last = IF e = r.last THEN 0 ELSE @,
                    !.ntSeen = IF native /\ e > 0 THEN @ + 1 ELSE @,
                    !.ntPos = IF native /\ e > 0 /\ ~again THEN @ + 1 ELSE @]]
               /\ IF e = 0 \/ again THEN UNCHANGED <<n, got>>
                  ELSE /\ got' = [got EXCEPT ![g] = Append(@, e)]
                       /\ n' = [n EXCEPT ![g] = IF @ < 0 THEN @ ELSE @ - 1]
               /\ UNCHANGED <<pc, d, mu, listed, ended>>
       /\ UNCHANGED <<vworld, dirinfo, vkernel, vseek, gap, calls, faults>>

----------------------------------------------------------------------------
(* The reader of Vista and later.                                          *)

Restarts(c) == c \in {"FullRestart", "IdBothRestart"}
Kind(c) == IF c \in {"FullRestart", "Full"} THEN "Full" ELSE "IdBoth"

Refused(c) == Kind(c) \notin fs.knows \/ (~Restarts(c) /\ ~fs.continues)

\* GetFileInformationByHandleEx, and what readdir does with its answer.
InfoEx(g) ==
    LET i == d[g]
        c == info[i].class
        pos == IF Restarts(c) THEN Restart ELSE scan[FileHandle]
    IN /\ Refills(g, "InfoEx")
       /\ \/ /\ info[i].buf = 0
             /\ Panic(g)
             /\ UNCHANGED <<info, scan, gap, faults>>
          \/ /\ info[i].buf # 0 /\ ~Refused(c) /\ ~closed
             /\ \E a \in Answers(pos, info[i].buf) :
                   /\ info' = [info EXCEPT ![i] = [info[i] EXCEPT !.next = a[1], !.last = a[2],
                                                               !.class = Kind(c)]]
                   /\ scan' = [scan EXCEPT ![FileHandle] = a[2]]
             /\ GoesOn /\ UNCHANGED <<gap, faults>>
          \/ \* ERROR_NO_MORE_FILES
             /\ info[i].buf # 0 /\ ~Refused(c) /\ ~closed /\ AtEnd(pos)
             /\ info' = [info EXCEPT ![i] = [info[i] EXCEPT !.buf = 0]]
             /\ Return(g, FALSE)
             /\ UNCHANGED <<scan, gap, faults>>
          \/ \* ERROR_FILE_NOT_FOUND: an empty root directory
             /\ info[i].buf # 0 /\ ~Refused(c) /\ ~closed /\ AtEnd(pos) /\ Restarts(c)
             /\ Return(g, FALSE)
             /\ UNCHANGED <<info, scan, gap, faults>>
          \/ \* ERROR_INVALID_PARAMETER: the kernel lacks FILE_FULL_DIR_INFO
             /\ info[i].buf # 0 /\ Refused(c) /\ fs.vista /\ c = "FullRestart"
             /\ info' = [info EXCEPT ![i] = [info[i] EXCEPT !.class = "IdBothRestart"]]
             /\ GoesOn /\ UNCHANGED <<scan, gap, faults>>
          \/ \* readDirNtQuery starts with no names
             /\ info[i].buf # 0 /\ Refused(c)
             /\ c # "IdBoth"
             /\ info' = [info EXCEPT ![i] = [info[i] EXCEPT !.reader = "NtQuery"]]
             /\ got' = [got EXCEPT ![g] = <<>>]
             /\ UNCHANGED <<pc, d, n, mu, listed, ended, scan, gap, faults>>
          \/ /\ info[i].buf # 0
             /\ \/ ~Refused(c) /\ QueryFails /\ UNCHANGED <<scan, gap>>
                \/ /\ ~Refused(c) /\ ~closed
                   /\ \E a \in TooBig(pos, info[i].buf), moved \in BOOLEAN :
                         /\ scan' = [scan EXCEPT ![FileHandle] = IF moved THEN a ELSE pos]
                         /\ gap' = (gap \/ (moved /\ ~Restarts(c)))
                   /\ UNCHANGED faults
                \/ Refused(c) /\ c = "IdBoth" /\ UNCHANGED <<scan, gap, faults>>
             /\ Return(g, TRUE)
             /\ UNCHANGED info
       /\ UNCHANGED <<vworld, dirinfo, reopened, searches, vseek, calls>>

----------------------------------------------------------------------------
(* readDirNtQuery.                                                         *)

\* The handle to query: d.h, or a synchronous reopening of it.
NtOpen(g) ==
    LET i == d[g] IN
    /\ Refills(g, "NtQuery") /\ info[i].ntHandle = NoHandle
    /\ \/ /\ info[i].h
          /\ LET own == fs.overlapped /\ ~closed IN
             /\ info' = [info EXCEPT ![i] = [info[i] EXCEPT !.ntHandle = IF own THEN i ELSE FileHandle,
                                                         !.buf = IF @ = 0 THEN 0 ELSE BufSize]]
             /\ reopened' = IF own THEN reopened \cup {i} ELSE reopened
             /\ scan' = IF own THEN [scan EXCEPT ![i] = Restart] ELSE scan
          /\ GoesOn /\ UNCHANGED faults
       \/ \* the reopening fails
          /\ info[i].h /\ fs.overlapped /\ ~closed /\ QueryFails
          /\ Return(g, TRUE)
          /\ UNCHANGED <<info, reopened, scan>>
       \/ \* d.h is zero: the query fails
          /\ ~info[i].h
          /\ info' = [info EXCEPT ![i] = [info[i] EXCEPT !.buf = IF @ = 0 THEN PoolSize ELSE BufSize]]
          /\ Return(g, TRUE)
          /\ UNCHANGED <<reopened, scan, faults>>
    /\ UNCHANGED <<vworld, dirinfo, searches, vseek, gap, calls>>

\* The listing is at its end: nothing to query any more.
NtFinished(g) ==
    /\ Refills(g, "NtQuery") /\ info[d[g]].ntHandle # NoHandle /\ info[d[g]].ntEOF
    /\ Return(g, FALSE)
    /\ UNCHANGED <<vworld, dirinfo, info, vkernel, vseek, gap, calls, faults>>

\* Mutant: what was seen of the scan before counts for the new one.
RegrownKeepingSeen(r, size) == [r EXCEPT !.buf = 2 * size, !.ntStarted = FALSE]

\* Mutant: the scan starts again with the same buffer.
RegrownSame(r, size) == [r EXCEPT !.buf = size, !.ntStarted = FALSE, !.ntSeen = 0]

\* An entry did not fit: twice the buffer, and the scan from its start.
Regrown(r, size) == [r EXCEPT !.buf = 2 * size, !.ntStarted = FALSE, !.ntSeen = 0]

\* NtQueryDirectoryFile, and what readDirNtQuery does with its answer.
NtQuery(g) ==
    LET i == d[g]
        r == info[i]
        restart == ~r.ntStarted
        pos == IF restart THEN Restart ELSE scan[r.ntHandle]
        size == IF r.buf = 0 THEN PoolSize ELSE r.buf
        lists == fs.nt /\ ~closed
    IN /\ Refills(g, "NtQuery") /\ r.ntHandle # NoHandle /\ ~r.ntEOF
       /\ \/ /\ lists
             /\ \E a \in Answers(pos, size) :
                   /\ info' = [info EXCEPT ![i] = [r EXCEPT !.next = a[1], !.last = a[2],
                                                         !.buf = size, !.ntStarted = TRUE]]
                   /\ scan' = [scan EXCEPT ![r.ntHandle] = a[2]]
             /\ GoesOn /\ UNCHANGED <<reopened, gap, faults>>
          \/ \* STATUS_NO_MORE_FILES, STATUS_NO_SUCH_FILE on the first query,
             \* or success with nothing in the buffer
             /\ lists /\ AtEnd(pos)
             /\ \E started \in {r.ntStarted, TRUE} :
                   info' = [info EXCEPT ![i] = [r EXCEPT !.ntEOF = TRUE, !.buf = 0,
                                                      !.ntStarted = started]]
             /\ GoesOn /\ UNCHANGED <<scan, reopened, gap, faults>>
          \/ \* STATUS_BUFFER_OVERFLOW; the scan may have moved past the entry
             /\ lists
             /\ \E a \in TooBig(pos, size), moved \in BOOLEAN :
                   /\ scan' = [scan EXCEPT ![r.ntHandle] = IF moved THEN a ELSE pos]
                   /\ \/ /\ 2 * size <= MaxBuf
                         /\ info' = [info EXCEPT ![i] = Regrown(r, size)]
                         /\ GoesOn /\ UNCHANGED gap
                      \/ /\ 2 * size > MaxBuf
                         /\ info' = [info EXCEPT ![i] = [info[i] EXCEPT !.buf = size]]
                         /\ gap' = (gap \/ (moved /\ ~restart))
                         /\ Return(g, TRUE)
             /\ UNCHANGED <<reopened, faults>>
          \/ \* not by handle: the directory is listed by its name
             /\ ~fs.nt /\ ~closed /\ fs.isDir /\ restart /\ r.ntPos = 0
             /\ info' = [info EXCEPT ![i] = [r EXCEPT !.ntHandle = NoHandle, !.buf = 0,
                                                   !.reader = "Find"]]
             /\ reopened' = reopened \ {i}
             /\ EnterFind(g)
             /\ got' = [got EXCEPT ![g] = <<>>]
             /\ UNCHANGED <<n, mu, listed, ended, scan, gap, faults>>
          \/ /\ \/ QueryFails
                \/ ~fs.nt /\ ~fs.isDir /\ UNCHANGED faults     \* ENOTDIR
             /\ info' = [info EXCEPT ![i] = [info[i] EXCEPT !.buf = size]]
             /\ Return(g, TRUE)
             /\ UNCHANGED <<scan, reopened, gap>>
       /\ UNCHANGED <<vworld, dirinfo, searches, vseek, calls>>

----------------------------------------------------------------------------
(* readDirFindFirstFile.                                                   *)

\* FindFirstFile leaves its entry in findData, to be returned yet.
FindFirst(g) ==
    LET i == d[g] IN
    /\ pc[g] = "read" /\ info[i].reader = "Find" /\ n[g] # 0
    /\ ~info[i].findOpen /\ ~info[i].findEOF
    /\ \/ /\ \E e \in FirstEntries(Restart) \cap 0..N :
                info' = [info EXCEPT ![i] = [info[i] EXCEPT !.findOpen = TRUE, !.findAt = e,
                                                         !.findPending = TRUE]]
          /\ searches' = searches \cup {i}
          /\ GoesOn /\ UNCHANGED faults
       \/ /\ AtEnd(Restart)
          /\ info' = [info EXCEPT ![i] = [info[i] EXCEPT !.findEOF = TRUE]]
          /\ GoesOn /\ UNCHANGED <<searches, faults>>
       \/ /\ faults < MaxFaults /\ faults' = faults + 1
          /\ Return(g, TRUE)
          /\ UNCHANGED <<info, searches>>
    /\ UNCHANGED <<vworld, dirinfo, scan, reopened, vseek, gap, calls>>

\* FindNextFile unless an entry is pending.
FindNext(g) ==
    LET i == d[g]
        r == info[i]
        e == IF r.findPending THEN r.findAt ELSE r.findAt + 1
    IN /\ pc[g] = "read" /\ r.reader = "Find" /\ n[g] # 0
       /\ r.findOpen /\ ~r.findEOF
       /\ \/ /\ e <= N
             /\ info' = [info EXCEPT ![i] = [r EXCEPT !.findAt = e, !.findPending = FALSE]]
             /\ IF e = 0 THEN UNCHANGED <<n, got>>
                ELSE /\ got' = [got EXCEPT ![g] = Append(@, e)]
                     /\ n' = [n EXCEPT ![g] = IF @ < 0 THEN @ ELSE @ - 1]
             /\ UNCHANGED <<pc, d, mu, listed, ended, faults>>
          \/ /\ e > N
             /\ info' = [info EXCEPT ![i] = [info[i] EXCEPT !.findEOF = TRUE]]
             /\ GoesOn /\ UNCHANGED faults
          \/ /\ ~r.findPending /\ faults < MaxFaults /\ faults' = faults + 1
             /\ Return(g, TRUE)
             /\ UNCHANGED info
       /\ UNCHANGED <<vworld, dirinfo, vkernel, vseek, gap, calls>>

FindFinished(g) ==
    /\ pc[g] = "read" /\ info[d[g]].reader = "Find" /\ n[g] # 0 /\ info[d[g]].findEOF
    /\ Return(g, FALSE)
    /\ UNCHANGED <<vworld, dirinfo, info, vkernel, vseek, gap, calls, faults>>

----------------------------------------------------------------------------
(* File.Seek and File.Close: the dirInfo is swapped out and closed without *)
(* its mu.                                                                 *)

Swap(op) ==
    /\ ctl = "idle" /\ seeks < MaxSeeks
    /\ SeekRaces \/ \A g \in Readers : pc[g] = "idle"
    /\ ctl' = op /\ closing' = dirinfo /\ dirinfo' = NoInfo
    /\ seeks' = seeks + 1
    /\ IF op = "seek" THEN listed' = <<>> /\ ended' = FALSE /\ gap' = FALSE
       ELSE UNCHANGED vlisted
    /\ UNCHANGED <<vworld, info, mu, vkernel, pc, d, n, got, closed, calls, faults>>

\* Mutant: the reopened handle is forgotten.
CloseInfoForgetting ==
    /\ ctl # "idle"
    /\ ctl' = "idle" /\ closing' = NoInfo
    /\ closed' = (closed \/ ctl = "close")
    /\ info' = [i \in Infos |-> IF i # closing THEN info[i] ELSE
                  [info[i] EXCEPT !.h = FALSE, !.buf = 0, !.ntHandle = NoHandle,
                     !.findOpen = FALSE, !.findPending = FALSE, !.findEOF = FALSE]]
    /\ searches' = searches \ {closing}
    /\ UNCHANGED <<vworld, dirinfo, mu, scan, reopened, pc, d, n, got, seeks, vlisted, calls, faults>>

\* dirInfo.close; Close goes on to close the handle.
CloseInfo ==
    /\ ctl # "idle"
    /\ ctl' = "idle" /\ closing' = NoInfo
    /\ closed' = (closed \/ ctl = "close")
    /\ reopened' = reopened \ {closing} /\ searches' = searches \ {closing}
    /\ info' = [i \in Infos |-> IF i # closing THEN info[i] ELSE
                  [info[i] EXCEPT !.h = FALSE, !.buf = 0, !.ntHandle = NoHandle,
                     !.findOpen = FALSE, !.findPending = FALSE, !.findEOF = FALSE]]
    /\ UNCHANGED <<vworld, dirinfo, mu, scan, pc, d, n, got, seeks, vlisted, calls, faults>>

Step(g) == \/ Load(g) \/ Cas(g) \/ Lock(g) \/ Enough(g) \/ Drain(g) \/ InfoEx(g)
           \/ NtOpen(g) \/ NtFinished(g) \/ NtQuery(g)
           \/ FindFirst(g) \/ FindNext(g) \/ FindFinished(g)

Next == \/ \E g \in Readers : Start(g) \/ Step(g)
        \/ \E op \in {"seek", "close"} : Swap(op)
        \/ CloseInfo

Spec == Init /\ [][Next]_vars

\* A goroutine in readdir keeps running; nothing makes anyone call.
FairSpec == Spec /\ \A g \in Readers : WF_vars(Step(g))

----------------------------------------------------------------------------
(* What readdir promises.                                                  *)

\* The calls since the last Seek, whoever made them and however many entries
\* each asked for, return the entries in directory order, each once and with
\* none left out: over changes of the reader, over a scan restarted with a
\* larger buffer (readDirNtQuery's ntPos and ntSeen) and over failed queries.
\* Only an entry too large for the largest buffer is passed over.
EachOnceInOrder ==
    /\ \A k \in 1..Len(listed) : ~gap => listed[k] = k
    /\ \A k \in 1..Len(listed) - 1 : listed[k] < listed[k + 1]

\* io.EOF, and the nil error of a call for all entries, are returned only
\* when everything has been listed (the documentation of Readdirnames).
EndIsTheEnd == ended => Len(listed) = N \/ gap

\* Handles opened for a listing, the reopening of an overlapped directory and
\* the search by name, belong to a dirInfo somebody will close, and after
\* Close none is open.
HandlesOwned ==
    /\ reopened \cup searches \subseteq {dirinfo, closing} \cup {d[g] : g \in Readers}
    /\ closed => reopened \cup searches = {}
    /\ \A i \in Infos : (info[i].ntHandle = i => i \in reopened)
                        /\ (info[i].findOpen => i \in searches)

\* "The methods of File are safe for concurrent use" (os/types.go): no call
\* of readdir dereferences a nil buffer or a nil dirInfo.
NeverPanics == \A g \in Readers : pc[g] # "panic"

\* Every call returns: refusals lead to the next reader, an entry that does
\* not fit to a larger buffer, and neither goes round for ever.
ReaddirReturns == \A g \in Readers : pc[g] # "idle" ~> pc[g] = "idle"
=============================================================================
