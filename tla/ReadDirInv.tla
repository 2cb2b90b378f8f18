----------------------------- MODULE ReadDirInv -----------------------------
(***************************************************************************)
(* The invariants of readdir that its proofs rest on.  Safe says who has   *)
(* which dirInfo, its lock and its handles; Listing, on top of it, how far *)
(* each reader has come and that the entries up to there are listed.       *)
(***************************************************************************)
EXTENDS ReadDir

\* Where calls are, and who has which dirInfo.
CallOf(g) ==
  /\ pc[g] # "panic"
  /\ pc[g] \in {"idle", "load"} => d[g] = NoInfo
  /\ pc[g] = "cas" => d[g] \in Infos \ {dirinfo} /\ info[d[g]] = NewInfo
  /\ pc[g] \in {"lock", "read"} => d[g] = dirinfo /\ dirinfo # NoInfo
  /\ pc[g] = "read" => mu[dirinfo] = g

Control ==
  /\ ctl # "idle" => dirinfo = NoInfo /\ \A g \in Readers : pc[g] = "idle"
  /\ ctl = "idle" => closing = NoInfo
  /\ \A g \in Readers : CallOf(g)
  /\ \A g, h \in Readers : pc[g] = "cas" /\ d[h] = d[g] => h = g
  /\ \A i \in Infos : mu[i] # None => i = dirinfo /\ mu[i] \in Readers /\ pc[mu[i]] = "read"

Handles ==
  /\ reopened \cup searches \subseteq {dirinfo, closing}
  /\ closed => reopened \cup searches = {}
  /\ \A i \in Infos : (info[i].ntHandle = i => i \in reopened)
                      /\ (info[i].findOpen => i \in searches)

Buffers ==
  dirinfo # NoInfo =>
    /\ info[dirinfo].next <= info[dirinfo].last => info[dirinfo].buf # 0 /\ info[dirinfo].reader # "Find"
    /\ info[dirinfo].reader = "InfoEx" /\ (\E g \in Readers : pc[g] = "read") => info[dirinfo].buf # 0
    /\ closed => info[dirinfo].reader # "Find"

Safe == TypeOK /\ Control /\ Handles /\ Buffers

----------------------------------------------------------------------------
(* How far a listing has come, for calls that do not race with Seek or     *)
(* Close.  r is the file's dirInfo, at where its scan stands, out what has *)
(* been listed and b whether an entry was passed over.                     *)

\* out is the entries up to p, those passed over excepted.
Run(out, p, b) ==
  /\ p \in 0..N
  /\ \A k \in 1..Len(out) : out[k] <= p /\ (~b => out[k] = k)
  /\ \A k \in 1..Len(out) - 1 : out[k] < out[k + 1]
  /\ ~b => Len(out) = p

\* The entry before e; 0 stands for "." and "..".
Prev(e) == IF e = 0 THEN 0 ELSE e - 1

\* The last entry taken from the buffer.
Before(r, at) == IF r.next <= r.last THEN Prev(r.next) ELSE at

GoodInfoEx(r, at, b, out) ==
  /\ r.ntHandle = NoHandle /\ r.ntPos = 0 /\ r.ntSeen = 0 /\ ~r.ntStarted /\ ~r.ntEOF
  /\ ~r.findOpen /\ ~r.findEOF
  /\ Restarts(r.class) => r.next > r.last /\ ~b /\ Run(out, 0, b)
  /\ ~Restarts(r.class) => /\ Kind(r.class) \in fs.knows /\ at >= 0
                           /\ r.next <= r.last => r.last = at
                           /\ Run(out, Before(r, at), b)

\* ntPos entries are listed and ntSeen of them have come by since the scan was
\* started; every entry that came by fits the buffer of the next scan.
GoodNt(r, at, b, out) ==
  /\ ~r.findOpen /\ ~r.findEOF /\ r.ntSeen <= r.ntPos
  /\ r.ntHandle = NoHandle => r.ntPos = 0 /\ ~r.ntStarted /\ ~r.ntEOF
  /\ ~r.ntStarted => r.next > r.last /\ r.ntSeen = 0 /\ ~b
  /\ r.next <= r.last => r.last = at /\ ~r.ntEOF
  /\ r.ntEOF => b \/ r.ntPos = N
  /\ ~r.ntEOF /\ r.ntStarted => at >= 0
  /\ ~r.ntEOF /\ b => r.ntSeen = r.ntPos /\ 2 * r.buf > MaxBuf
  /\ ~r.ntEOF /\ ~b => /\ r.ntStarted => r.ntSeen = Before(r, at)
                       /\ \A e \in 1..r.ntPos : sizes[e] <= r.buf
                       /\ r.next <= r.last => \A e \in 1..r.last : sizes[e] <= r.buf
  /\ Run(out, IF b THEN Before(r, at) ELSE r.ntPos, b)

\* The last entry a search by name has returned.
Found(r) == IF ~r.findOpen THEN 0 ELSE IF r.findPending THEN Prev(r.findAt) ELSE r.findAt

GoodFind(r, b, out) == (r.findEOF => Found(r) = N) /\ Run(out, Found(r), b)

Good(r, sc, b, out) ==
  /\ r.reader = "InfoEx" => GoodInfoEx(r, sc[FileHandle], b, out)
  /\ r.reader = "NtQuery" => GoodNt(r, sc[r.ntHandle], b, out)
  /\ r.reader = "Find" => GoodFind(r, b, out)

\* What the calls have listed, the one that has the lock included.
Out == IF mu[dirinfo] = None THEN listed ELSE listed \o got[mu[dirinfo]]

\* What a call has before it returns, and how much it still wants.
Wanted(g) ==
  /\ pc[g] # "read" => got[g] = <<>>
  /\ pc[g] # "idle" /\ n[g] = 0 => pc[g] = "read" /\ got[g] # <<>>

\* GetFileInformationByHandleEx continues a scan it has started, on every
\* file system of the instance.
Continues == \A f \in FileSystems : f.continues

Listing ==
  /\ EachOnceInOrder /\ EndIsTheEnd
  /\ \A g \in Readers : Wanted(g)
  /\ ~closed /\ ctl # "close" /\ dirinfo = NoInfo => listed = <<>> /\ ~ended /\ ~gap
  /\ ~closed /\ dirinfo # NoInfo => Good(info[dirinfo], scan, gap, Out)
  /\ closed /\ dirinfo # NoInfo =>
       /\ info[dirinfo].next > info[dirinfo].last /\ ~info[dirinfo].ntEOF
       /\ \A g \in Readers : got[g] = <<>>
=============================================================================
