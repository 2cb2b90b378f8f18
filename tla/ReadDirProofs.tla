--------------------------- MODULE ReadDirProofs ---------------------------
(***************************************************************************)
(* Proofs about readdir, for every directory, set of goroutines, kernel    *)
(* and buffer sizes, where Seek and Close do not race with a call.  First  *)
(* Safe, which gives the types, the handles and the absence of panics;     *)
(* then, on top of it, Listing, which gives what the calls return.         *)
(***************************************************************************)
EXTENDS ReadDirInv, TLAPS

\* A step of the call that has the lock.
Turn(g, r) ==
  /\ pc[g] = "read"
  /\ info' = [info EXCEPT ![dirinfo] = r]
  /\ UNCHANGED <<fs, sizes, dirinfo, vseek, calls>>
  /\ \/ UNCHANGED <<pc, d, mu>>
     \/ /\ pc' = [pc EXCEPT ![g] = "idle"]
        /\ d' = [d EXCEPT ![g] = NoInfo]
        /\ mu' = [i \in Infos |-> IF mu[i] = g THEN None ELSE mu[i]]

\* The directory has finitely many entries.
LEMMA NIsNat ==
  ASSUME Safe
  PROVE  N \in Nat
BY InputsAssumption DEF Safe, TypeOK, N

\* The fields of a dirInfo are in range.
LEMMA InfoFields ==
  ASSUME NEW r \in InfoType
  PROVE  /\ r.buf \in 0..MaxBuf /\ r.buf \in Nat /\ r.next \in 0..N + 1 /\ r.last \in 0..N
         /\ r.ntPos \in Nat /\ r.ntSeen \in Nat /\ r.findAt \in 0..N
         /\ r.ntHandle \in {NoHandle, FileHandle} \cup Infos
BY DEF InfoType

\* A buffer is drained or has entries left.
LEMMA BufferOrder ==
  ASSUME NEW r \in InfoType
  PROVE  r.next > r.last <=> ~(r.next <= r.last)
BY InfoFields

\* An entry of the part listed is one of the directory and has a size.
LEMMA EntrySize ==
  ASSUME Safe, NEW m \in 0..N, NEW e \in 1..m
  PROVE  sizes[e] \in Nat
<1>1. sizes \in Seq(Nat)
  BY Zenon, InputsAssumption DEF Safe, TypeOK
<1> QED
  BY <1>1 DEF N

\* No number is less than itself.
LEMMA NotLess ==
  ASSUME NEW m \in Nat
  PROVE  ~(m < m)
OBVIOUS

\* An update with the value that is there changes nothing.
LEMMA SameExcept ==
  ASSUME NEW S, NEW T, NEW f \in [S -> T], NEW x \in S, NEW v, f[x] = v
  PROVE  [f EXCEPT ![x] = v] = f
BY Zenon

\* Two sequences joined to the empty one are empty.
LEMMA NothingJoined ==
  ASSUME NEW S, NEW s \in Seq(S), NEW t \in Seq(S), s \o t = <<>>
  PROVE  s = <<>> /\ t = <<>>
<1>1. Len(s \o t) = 0 /\ Len(s \o t) = Len(s) + Len(t) /\ Len(s) \in Nat /\ Len(t) \in Nat
  OBVIOUS
<1>2. Len(s) = 0 /\ Len(t) = 0
  BY <1>1
<1> QED
  BY <1>2

\* The entry before the one a search by name has pending.
LEMMA PrevOfPending ==
  ASSUME NEW m \in Nat, NEW e \in 0..m
  PROVE  e \in 0..m + 1 /\ Prev(e) \in 0..m /\ ~(e > m)
BY DEF Prev

\* The entry before the one a search by name gives next.
LEMMA PrevOfNext ==
  ASSUME NEW m \in Nat, NEW e \in 0..m
  PROVE  e + 1 \in 0..m + 1 /\ Prev(e + 1) = e /\ (e + 1 > m => e = m)
BY DEF Prev

\* No dirInfo is named by the values for none and for the file's own handle.
LEMMA NoInfoApart ==
  /\ NoInfo \notin Infos /\ NoHandle \notin Infos /\ FileHandle \notin Infos
  /\ NoHandle # NoInfo /\ FileHandle # NoHandle
BY DEF NoInfo, Infos, NoHandle, FileHandle

\* A step of the call that has the lock leaves the locks and the other calls
\* alone: their dirInfos, and the one somebody else may be publishing, are not its.
LEMMA TurnControl ==
  ASSUME Safe, NEW g \in Readers, NEW r \in InfoType, Turn(g, r)
  PROVE  Control'
<1>1. /\ dirinfo \in Infos /\ d[g] = dirinfo /\ mu[dirinfo] = g /\ ctl = "idle" /\ closing = NoInfo
      /\ \A h \in Readers : pc[h] = "read" => h = g
  BY Zenon, NoInfoApart DEF Safe, TypeOK, Control, CallOf, Turn
<1>2. ASSUME NEW h \in Readers PROVE CallOf(h)'
  <2>1. CallOf(h) /\ NewInfo' = NewInfo /\ dirinfo' = dirinfo /\ mu \in [Infos -> Readers \cup {None}]
        /\ pc \in [Readers -> {"idle", "load", "cas", "lock", "read", "panic"}]
        /\ d \in [Readers -> Infos \cup {NoInfo}] /\ info \in [Infos -> InfoType]
    BY Zenon DEF Safe, Control, TypeOK, Turn, NewInfo
  <2>2. \A i \in Infos \ {dirinfo} : info'[i] = info[i]
    BY Zenon, <1>1, <2>1 DEF Turn
  <2>3. CASE UNCHANGED <<pc, d, mu>>
    BY Zenon, <2>1, <2>2, <2>3 DEF CallOf
  <2>4. CASE h = g /\ pc'[g] = "idle" /\ d'[g] = NoInfo
    BY Zenon, <2>4, <2>1 DEF CallOf
  <2>5. CASE h # g /\ pc'[h] = pc[h] /\ d'[h] = d[h]
    <3>1. pc[h] # "read"
      BY Zenon, <1>1, <2>5
    <3> QED
      BY Zenon, <2>1, <2>2, <2>5, <3>1 DEF CallOf
  <2> QED
    BY Zenon, <2>1, <2>3, <2>4, <2>5 DEF Turn
<1>3. ASSUME NEW i \in Infos, mu'[i] # None
      PROVE  i = dirinfo' /\ mu'[i] \in Readers /\ pc'[mu'[i]] = "read"
  BY ZenonT(60), <1>1, <1>3 DEF Safe, Control, TypeOK, Turn
<1>4. ASSUME NEW h \in Readers, NEW k \in Readers, pc'[h] = "cas", d'[k] = d'[h]
      PROVE  k = h
  <2>1. pc[h] = "cas" /\ d'[h] = d[h] /\ d[h] \in Infos /\ d'[k] \in {d[k], NoInfo}
    BY <1>1, <1>4 DEF Safe, Control, CallOf, TypeOK, Turn
  <2>2. d[k] = d[h]
    BY Zenon, <1>4, <2>1, NoInfoApart
  <2> QED
    BY Zenon, <2>1, <2>2 DEF Safe, Control
<1> QED
  BY Zenon, <1>1, <1>2, <1>3, <1>4 DEF Control, Turn, vseek, Safe

\* What such a step has to keep for that.
Sound(g, r) ==
  /\ Turn(g, r)
  /\ n' \in [Readers -> Int] /\ got' \in [Readers -> Seq(1..N)] /\ listed' \in Seq(1..N)
  /\ ended' \in BOOLEAN /\ gap' \in BOOLEAN /\ faults' \in 0..MaxFaults
  /\ scan' \in [Infos \cup {FileHandle} -> Restart..N]
  /\ reopened' \in {reopened, reopened \cup {dirinfo}, reopened \ {dirinfo}}
  /\ searches' \in {searches, searches \cup {dirinfo}}
  /\ closed => reopened' \subseteq reopened /\ searches' = searches
  /\ r.ntHandle = dirinfo => dirinfo \in reopened'
  /\ r.findOpen => dirinfo \in searches'
  /\ r.next <= r.last => r.buf # 0 /\ r.reader # "Find"
  /\ r.reader = "InfoEx" /\ pc'[g] = "read" => r.buf # 0
  /\ closed => r.reader # "Find"

\* A step of the call that has the lock keeps Safe when the dirInfo it leaves
\* behind is Sound.
LEMMA SoundSafe ==
  ASSUME Safe, NEW g \in Readers, NEW r \in InfoType, Sound(g, r)
  PROVE  Safe'
<1>1. /\ dirinfo \in Infos /\ d[g] = dirinfo /\ ctl = "idle" /\ closing = NoInfo
      /\ \A h \in Readers : pc[h] = "read" => h = g
  BY Zenon, NoInfoApart DEF Safe, TypeOK, Control, CallOf, Turn, Sound
<1>2. Control'
  BY Zenon, TurnControl DEF Sound
<1>3. info'[dirinfo] = r /\ \A i \in Infos \ {dirinfo} : info'[i] = info[i]
  BY ZenonT(60), <1>1 DEF Sound, Turn, Safe, TypeOK
<1>4. Handles'
  <2>1. UNCHANGED <<dirinfo, closing, closed>>
    BY Zenon DEF Sound, Turn, vseek
  <2>2. reopened' \cup searches' \subseteq {dirinfo, closing}
    BY Zenon DEF Sound, Safe, Handles
  <2>3. closed => reopened' \cup searches' = {}
    BY Zenon DEF Sound, Safe, Handles
  <2>4. ASSUME NEW i \in Infos
        PROVE  (info'[i].ntHandle = i => i \in reopened') /\ (info'[i].findOpen => i \in searches')
    <3>1. CASE i = dirinfo
      BY Zenon, <1>3, <3>1 DEF Sound
    <3>2. CASE i # dirinfo
      <4>1. (i \in reopened => i \in reopened') /\ (i \in searches => i \in searches')
        BY Zenon, <3>2 DEF Sound
      <4> QED
        BY Zenon, <1>3, <3>2, <4>1 DEF Safe, Handles
    <3> QED
      BY Zenon, <3>1, <3>2
  <2> QED
    BY Zenon, <2>1, <2>2, <2>3, <2>4 DEF Handles
<1>5. Buffers'
  <2>1. UNCHANGED <<dirinfo, closed>>
    BY Zenon DEF Sound, Turn, vseek
  <2>2. (\E h \in Readers : pc'[h] = "read") => pc'[g] = "read"
    BY Zenon, <1>1 DEF Sound, Turn, Safe, TypeOK
  <2> QED
    BY Zenon, <1>3, <2>1, <2>2 DEF Buffers, Sound
<1>6. TypeOK'
  <2>1. UNCHANGED <<fs, sizes, dirinfo, ctl, closing, closed, seeks, calls>>
    BY Zenon DEF Sound, Turn, vseek
  <2>2. N' = N /\ InfoType' = InfoType
    BY Zenon, <2>1 DEF N, InfoType
  <2>3. info' \in [Infos -> InfoType]
    BY Zenon DEF Sound, Turn, Safe, TypeOK
  <2>4. /\ pc' \in [Readers -> {"idle", "load", "cas", "lock", "read", "panic"}]
        /\ d' \in [Readers -> Infos \cup {NoInfo}] /\ mu' \in [Infos -> Readers \cup {None}]
    BY Zenon DEF Sound, Turn, Safe, TypeOK
  <2>5. reopened' \subseteq Infos /\ searches' \subseteq Infos
    BY Zenon, <1>1 DEF Sound, Safe, TypeOK
  <2>6. /\ n' \in [Readers -> Int] /\ got' \in [Readers -> Seq(1..N)] /\ listed' \in Seq(1..N)
        /\ ended' \in BOOLEAN /\ gap' \in BOOLEAN /\ faults' \in 0..MaxFaults
        /\ scan' \in [Infos \cup {FileHandle} -> Restart..N]
    BY Zenon DEF Sound
  <2>7. /\ fs \in FileSystems /\ sizes \in Directories /\ dirinfo \in Infos \cup {NoInfo}
        /\ ctl \in {"idle", "seek", "close"} /\ closing \in Infos \cup {NoInfo} /\ closed \in BOOLEAN
        /\ calls \in 0..MaxCalls /\ seeks \in 0..MaxSeeks
    BY Zenon DEF Safe, TypeOK
  <2> QED
    BY Zenon, <2>1, <2>2, <2>3, <2>4, <2>5, <2>6, <2>7 DEF TypeOK
<1> QED
  BY Zenon, <1>2, <1>4, <1>5, <1>6 DEF Safe

\* What a call that has the lock knows, and the kinds of end of a step.
LEMMA ReadingFacts ==
  ASSUME Safe, NEW g \in Readers, pc[g] = "read"
  PROVE  /\ d[g] = dirinfo /\ dirinfo \in Infos /\ info[dirinfo] \in InfoType
         /\ mu[dirinfo] = g /\ ctl = "idle" /\ N \in Nat
         /\ got[g] \in Seq(1..N) /\ listed \in Seq(1..N) /\ n[g] \in Int
         /\ scan \in [Infos \cup {FileHandle} -> Restart..N]
         /\ info \in [Infos -> InfoType]
<1>1. sizes \in Seq(Nat)
  BY Zenon, InputsAssumption DEF Safe, TypeOK
<1>2. N \in Nat
  BY <1>1 DEF N
<1>3. pc[g] # "idle"
  BY Zenon
<1> QED
  BY Zenon, <1>2, <1>3, NoInfoApart DEF Safe, TypeOK, Control, CallOf

\* Return keeps the types of what it assigns, and its call has left readdir.
LEMMA ReturnTypes ==
  ASSUME Safe, NEW g \in Readers, pc[g] = "read", NEW failed \in BOOLEAN, Return(g, failed)
  PROVE  /\ n' \in [Readers -> Int] /\ got' \in [Readers -> Seq(1..N)] /\ listed' \in Seq(1..N)
         /\ ended' \in BOOLEAN /\ pc'[g] = "idle"
<1>1. listed' \in Seq(1..N)
  <2>1. got[g] \in Seq(1..N) /\ listed \in Seq(1..N)
    BY Zenon, ReadingFacts
  <2> QED
    BY <2>1 DEF Return
<1>2. <<>> \in Seq(1..N) /\ 0 \in Int
  OBVIOUS
<1>3. n' \in [Readers -> Int] /\ got' \in [Readers -> Seq(1..N)]
  BY Zenon, <1>2 DEF Return, Safe, TypeOK
<1>4. ended' \in BOOLEAN /\ pc'[g] = "idle"
  BY Zenon DEF Return, Safe, TypeOK
<1> QED
  BY Zenon, <1>1, <1>3, <1>4

\* The dirInfo's part of Sound, for a step that ends in Return or GoesOn.
SoundInfo(g, r) ==
  /\ reopened' \in {reopened, reopened \cup {dirinfo}, reopened \ {dirinfo}}
  /\ searches' \in {searches, searches \cup {dirinfo}}
  /\ closed => reopened' \subseteq reopened /\ searches' = searches
  /\ r.ntHandle = dirinfo => dirinfo \in reopened'
  /\ r.findOpen => dirinfo \in searches'
  /\ r.next <= r.last => r.buf # 0 /\ r.reader # "Find"
  /\ closed => r.reader # "Find"

\* A step in which the call returns keeps Safe.
LEMMA ReturnSafe ==
  ASSUME Safe, NEW g \in Readers, pc[g] = "read", NEW r \in InfoType, NEW failed \in BOOLEAN,
         Return(g, failed), SoundInfo(g, r),
         info' = [info EXCEPT ![dirinfo] = r], UNCHANGED <<fs, sizes, dirinfo, vseek, calls>>,
         gap' \in BOOLEAN, faults' \in 0..MaxFaults,
         scan' \in [Infos \cup {FileHandle} -> Restart..N]
  PROVE  Safe'
<1>1. Turn(g, r)
  BY Zenon DEF Turn, Return
<1>2. pc'[g] # "read"
  BY Zenon, ReturnTypes
<1>3. Sound(g, r)
  BY Zenon, <1>1, <1>2, ReturnTypes DEF Sound, SoundInfo
<1> QED
  BY Zenon, <1>3, SoundSafe

\* A step after which the call goes on keeps Safe.
LEMMA GoesOnSafe ==
  ASSUME Safe, NEW g \in Readers, pc[g] = "read", NEW r \in InfoType,
         UNCHANGED <<pc, d, mu, listed, ended>>, SoundInfo(g, r),
         r.reader = "InfoEx" => r.buf # 0,
         info' = [info EXCEPT ![dirinfo] = r], UNCHANGED <<fs, sizes, dirinfo, vseek, calls>>,
         n' \in [Readers -> Int], got' \in [Readers -> Seq(1..N)],
         gap' \in BOOLEAN, faults' \in 0..MaxFaults,
         scan' \in [Infos \cup {FileHandle} -> Restart..N]
  PROVE  Safe'
<1>1. Turn(g, r)
  BY Zenon DEF Turn
<1>2. listed' \in Seq(1..N) /\ ended' \in BOOLEAN
  BY Zenon DEF Safe, TypeOK
<1>3. Sound(g, r)
  BY Zenon, <1>1, <1>2 DEF Sound, SoundInfo
<1> QED
  BY Zenon, <1>3, SoundSafe

----------------------------------------------------------------------------

\* Drain passes the dirInfo on with the next entry taken off its buffer; a
\* buffer that is there is what keeps it from panicking.
LEMMA DrainShape ==
  ASSUME Safe, NEW g \in Readers, Drain(g)
  PROVE  LET r == info[dirinfo]
             e == r.next
             again == r.reader = "NtQuery" /\ r.ntSeen < r.ntPos
         IN /\ pc[g] = "read" /\ n[g] # 0 /\ r \in InfoType /\ N \in Nat /\ e <= r.last /\ r.reader # "Find"
            /\ \E R \in InfoType :
                 /\ info' = [info EXCEPT ![dirinfo] = R]
                 /\ R.next = IF e = r.last THEN 1 ELSE e + 1
                 /\ R.last = IF e = r.last THEN 0 ELSE r.last
                 /\ R.ntSeen = IF r.reader = "NtQuery" /\ e > 0 THEN r.ntSeen + 1 ELSE r.ntSeen
                 /\ R.ntPos = IF r.reader = "NtQuery" /\ e > 0 /\ ~again THEN r.ntPos + 1 ELSE r.ntPos
                 /\ R.buf = r.buf /\ R.class = r.class /\ R.reader = r.reader /\ R.ntHandle = r.ntHandle
                 /\ R.ntStarted = r.ntStarted /\ R.ntEOF = r.ntEOF
                 /\ R.findOpen = r.findOpen /\ R.findEOF = r.findEOF
            /\ UNCHANGED <<pc, d, mu, listed, ended>>
            /\ UNCHANGED <<vworld, dirinfo, vkernel, vseek, gap, calls, faults>>
            /\ IF e = 0 \/ again THEN UNCHANGED <<n, got>>
               ELSE /\ got' = [got EXCEPT ![g] = Append(got[g], e)]
                    /\ n' = [n EXCEPT ![g] = IF n[g] < 0 THEN n[g] ELSE n[g] - 1]
<1> DEFINE r == info[dirinfo]
           e == r.next
           native == r.reader = "NtQuery"
           again == native /\ r.ntSeen < r.ntPos
           R == [r EXCEPT !.next = IF e = r.last THEN 1 ELSE e + 1,
                          !.last = IF e = r.last THEN 0 ELSE @,
                          !.ntSeen = IF native /\ e > 0 THEN @ + 1 ELSE @,
                          !.ntPos = IF native /\ e > 0 /\ ~again THEN @ + 1 ELSE @]
<1>1. /\ pc[g] = "read" /\ n[g] # 0 /\ d[g] = dirinfo /\ dirinfo \in Infos /\ r \in InfoType /\ N \in Nat
      /\ e <= r.last /\ r.buf # 0 /\ r.reader # "Find"
  BY Zenon, ReadingFacts, NoInfoApart DEF Drain, Safe, Buffers
<1>2. /\ info' = [info EXCEPT ![dirinfo] = R]
      /\ UNCHANGED <<pc, d, mu, listed, ended>>
      /\ UNCHANGED <<vworld, dirinfo, vkernel, vseek, gap, calls, faults>>
      /\ IF e = 0 \/ again THEN UNCHANGED <<n, got>>
         ELSE /\ got' = [got EXCEPT ![g] = Append(got[g], e)]
              /\ n' = [n EXCEPT ![g] = IF n[g] < 0 THEN n[g] ELSE n[g] - 1]
  BY Zenon, <1>1 DEF Drain
<1> DEFINE a == IF e = r.last THEN 1 ELSE e + 1
           b == IF e = r.last THEN 0 ELSE r.last
           s == IF native /\ e > 0 THEN r.ntSeen + 1 ELSE r.ntSeen
           p == IF native /\ e > 0 /\ ~again THEN r.ntPos + 1 ELSE r.ntPos
<1>3. e \in 0..N + 1 /\ r.last \in 0..N /\ r.ntSeen \in Nat /\ r.ntPos \in Nat
  BY Zenon, <1>1 DEF InfoType
<1>4. a \in 0..N + 1 /\ b \in 0..N
  BY <1>1, <1>3
<1>5. s \in Nat /\ p \in Nat
  BY <1>3
<1>6. R = [r EXCEPT !.next = a, !.last = b, !.ntSeen = s, !.ntPos = p]
  BY Zenon
<1>7. /\ R \in InfoType /\ R.next = a /\ R.last = b /\ R.ntSeen = s /\ R.ntPos = p
      /\ R.buf = r.buf /\ R.class = r.class /\ R.reader = r.reader /\ R.ntHandle = r.ntHandle
      /\ R.ntStarted = r.ntStarted /\ R.ntEOF = r.ntEOF
      /\ R.findOpen = r.findOpen /\ R.findEOF = r.findEOF
  <2> HIDE DEF a, b, s, p, R, e, r, native, again
  <2>1. R \in InfoType
    BY Zenon, <1>1, <1>4, <1>5, <1>6 DEF InfoType
  <2>2. R.next = a /\ R.last = b /\ R.ntSeen = s /\ R.ntPos = p /\ R.buf = r.buf /\ R.class = r.class
    BY Zenon, <1>1, <1>6 DEF InfoType
  <2>3. R.reader = r.reader /\ R.ntHandle = r.ntHandle /\ R.ntStarted = r.ntStarted
        /\ R.ntEOF = r.ntEOF /\ R.findOpen = r.findOpen /\ R.findEOF = r.findEOF
    BY Zenon, <1>1, <1>6 DEF InfoType
  <2> QED
    BY Zenon, <2>1, <2>2, <2>3
<1> HIDE DEF R
<1> QED
  BY Zenon, <1>1, <1>2, <1>7

\* Taking an entry from the buffer keeps Safe.
LEMMA DrainSafe ==
  ASSUME Safe, NEW g \in Readers, Drain(g)
  PROVE  Safe'
<1> DEFINE r == info[dirinfo]
           e == r.next
<1>1. /\ pc[g] = "read" /\ dirinfo \in Infos /\ r \in InfoType /\ N \in Nat
      /\ got[g] \in Seq(1..N) /\ n[g] \in Int /\ e <= r.last /\ r.buf # 0 /\ r.reader # "Find"
  BY Zenon, ReadingFacts, NoInfoApart DEF Drain, Safe, Buffers
<1>2. PICK R \in InfoType :
         /\ info' = [info EXCEPT ![dirinfo] = R]
         /\ R.buf = r.buf /\ R.ntHandle = r.ntHandle /\ R.findOpen = r.findOpen /\ R.reader = r.reader
  BY Zenon, DrainShape
<1>3. /\ UNCHANGED <<pc, d, mu, listed, ended>>
      /\ UNCHANGED <<vworld, dirinfo, vkernel, vseek, gap, calls, faults>>
      /\ \/ UNCHANGED <<n, got>>
         \/ /\ e # 0 /\ got' = [got EXCEPT ![g] = Append(got[g], e)]
            /\ n' = [n EXCEPT ![g] = IF n[g] < 0 THEN n[g] ELSE n[g] - 1]
  BY Zenon, DrainShape
<1>4. n' \in [Readers -> Int] /\ got' \in [Readers -> Seq(1..N)]
  <2>1. CASE UNCHANGED <<n, got>>
    BY Zenon, <2>1 DEF Safe, TypeOK
  <2>2. CASE e # 0 /\ got' = [got EXCEPT ![g] = Append(got[g], e)]
             /\ n' = [n EXCEPT ![g] = IF n[g] < 0 THEN n[g] ELSE n[g] - 1]
    <3>1. Append(got[g], e) \in Seq(1..N)
      <4>1. e \in 0..N + 1 /\ r.last \in 0..N
        BY Zenon, <1>1 DEF InfoType
      <4> QED
        BY SMTT(30), <1>1, <2>2, <4>1
    <3>2. (IF n[g] < 0 THEN n[g] ELSE n[g] - 1) \in Int
      BY <1>1
    <3> QED
      BY Zenon, <2>2, <3>1, <3>2 DEF Safe, TypeOK
  <2> QED
    BY Zenon, <1>3, <2>1, <2>2
<1>5. SoundInfo(g, R)
  BY Zenon, <1>1, <1>2, <1>3, NoInfoApart DEF SoundInfo, Safe, Handles, Buffers, vkernel
<1>6. gap' \in BOOLEAN /\ faults' \in 0..MaxFaults /\ scan' \in [Infos \cup {FileHandle} -> Restart..N]
  BY Zenon, <1>3 DEF vkernel, Safe, TypeOK
<1>7. R.reader = "InfoEx" => R.buf # 0
  BY Zenon, <1>1, <1>2
<1> QED
  BY Zenon, <1>1, <1>2, <1>3, <1>4, <1>5, <1>6, <1>7, GoesOnSafe DEF vworld

\* What a call does not touch, and the types of the rest.
Around == /\ UNCHANGED <<fs, sizes, dirinfo, vseek, calls>>
          /\ gap' \in BOOLEAN /\ faults' \in 0..MaxFaults
          /\ scan' \in [Infos \cup {FileHandle} -> Restart..N]

\* A call that returns and leaves its dirInfo alone keeps Safe.
LEMMA LeavesSafe ==
  ASSUME Safe, NEW g \in Readers, pc[g] = "read", NEW failed \in BOOLEAN, Return(g, failed),
         Around, UNCHANGED <<info, reopened, searches>>
  PROVE  Safe'
<1>1. dirinfo \in Infos /\ info[dirinfo] \in InfoType
  BY Zenon, ReadingFacts
<1>2. info' = [info EXCEPT ![dirinfo] = info[dirinfo]]
  BY Zenon, <1>1 DEF Safe, TypeOK
<1>3. SoundInfo(g, info[dirinfo])
  BY Zenon, <1>1, NoInfoApart DEF SoundInfo, Safe, Handles, Buffers
<1> QED
  BY Zenon, <1>1, <1>2, <1>3, ReturnSafe DEF Around

\* The returns at the end of a listing, and with enough entries, keep Safe.
LEMMA FinishedSafe ==
  ASSUME Safe, NEW g \in Readers, Enough(g) \/ NtFinished(g) \/ FindFinished(g)
  PROVE  Safe'
<1>1. /\ pc[g] = "read" /\ Return(g, FALSE)
      /\ UNCHANGED <<vworld, dirinfo, info, vkernel, vseek, gap, calls, faults>>
  BY Zenon DEF Enough, NtFinished, FindFinished, Refills
<1>2. Around
  BY Zenon, <1>1 DEF Around, vworld, vkernel, Safe, TypeOK
<1> QED
  BY Zenon, <1>1, <1>2, LeavesSafe DEF vkernel

\* An answer of the kernel is a run of entries.
LEMMA AnswerTypes ==
  ASSUME NEW pos, NEW size, NEW a \in Answers(pos, size)
  PROVE  a[1] \in 0..N /\ a[2] \in 0..N /\ a[1] <= a[2]
BY Zenon DEF Answers

\* An entry too large for the buffer is one of the directory's.
LEMMA TooBigTypes ==
  ASSUME N \in Nat, NEW pos \in Restart..N, NEW size, NEW a \in TooBig(pos, size)
  PROVE  a \in 0..N
BY DEF TooBig, FirstEntries, Restart

\* A failing query stays within the bound on faults.
LEMMA QueryFailsTypes ==
  ASSUME Safe, QueryFails
  PROVE  faults' \in 0..MaxFaults
BY BoundsAssumption DEF Safe, TypeOK, QueryFails

\* The reader of Vista keeps Safe: refused, it goes on with a buffer for the
\* next class or reader.
LEMMA InfoExSafe ==
  ASSUME Safe, NEW g \in Readers, InfoEx(g)
  PROVE  Safe'
<1> DEFINE r == info[dirinfo]
           c == r.class
           pos == IF Restarts(c) THEN Restart ELSE scan[FileHandle]
<1>1. /\ pc[g] = "read" /\ d[g] = dirinfo /\ dirinfo \in Infos /\ r \in InfoType /\ N \in Nat
      /\ r.buf # 0 /\ r.next > r.last /\ r.reader = "InfoEx"
      /\ UNCHANGED <<vworld, dirinfo, reopened, searches, vseek, calls>>
  BY Zenon, ReadingFacts, NoInfoApart DEF InfoEx, Refills, Safe, Buffers
<1>2. pos \in Restart..N
  BY <1>1 DEF Safe, TypeOK, Restart
<1>3. /\ r.ntHandle = dirinfo => dirinfo \in reopened
      /\ r.findOpen => dirinfo \in searches
      /\ gap \in BOOLEAN /\ faults \in 0..MaxFaults
      /\ scan \in [Infos \cup {FileHandle} -> Restart..N]
      /\ n \in [Readers -> Int] /\ got \in [Readers -> Seq(1..N)]
  BY Zenon, <1>1 DEF Safe, Handles, TypeOK
<1>4. ~ (r.next <= r.last)
  BY <1>1 DEF InfoType
<1> HIDE DEF pos
<1>5. ASSUME NEW a \in Answers(pos, r.buf),
             info' = [info EXCEPT ![dirinfo] = [r EXCEPT !.next = a[1], !.last = a[2], !.class = Kind(c)]],
             scan' = [scan EXCEPT ![FileHandle] = a[2]], GoesOn, UNCHANGED <<gap, faults>>
      PROVE  Safe'
  <2> DEFINE R == [r EXCEPT !.next = a[1], !.last = a[2], !.class = Kind(c)]
  <2>1. a[1] \in 0..N + 1 /\ a[2] \in 0..N /\ a[2] \in Restart..N
    BY <1>1, <1>5, AnswerTypes DEF Restart
  <2>2. Kind(c) \in {"FullRestart", "Full", "IdBothRestart", "IdBoth"}
    BY Zenon DEF Kind
  <2>3. R \in InfoType
    BY ZenonT(60), <1>1, <2>1, <2>2 DEF InfoType
  <2>4. R.buf = r.buf /\ R.ntHandle = r.ntHandle /\ R.findOpen = r.findOpen /\ R.reader = r.reader
    BY Zenon, <1>1 DEF InfoType
  <2>5. scan' \in [Infos \cup {FileHandle} -> Restart..N]
    BY Zenon, <1>3, <1>5, <2>1
  <2>6. info' = [info EXCEPT ![dirinfo] = R] /\ gap' \in BOOLEAN /\ faults' \in 0..MaxFaults
        /\ UNCHANGED <<pc, d, mu, listed, ended>> /\ UNCHANGED <<fs, sizes, dirinfo, vseek, calls>>
        /\ n' \in [Readers -> Int] /\ got' \in [Readers -> Seq(1..N)]
    BY Zenon, <1>1, <1>3, <1>5 DEF GoesOn, vworld
  <2> HIDE DEF R
  <2>7. SoundInfo(g, R)
    BY Zenon, <1>1, <1>3, <2>4 DEF SoundInfo
  <2>8. R.buf # 0
    BY Zenon, <1>1, <2>4
  <2> QED
    BY Zenon, <1>1, <2>3, <2>5, <2>6, <2>7, <2>8, GoesOnSafe
<1>6. ASSUME info' = [info EXCEPT ![dirinfo] = [r EXCEPT !.buf = 0]], Return(g, FALSE),
             UNCHANGED <<scan, gap, faults>>
      PROVE  Safe'
  <2> DEFINE R == [r EXCEPT !.buf = 0]
  <2>1. R \in InfoType
    BY <1>1, SizesAssumption DEF InfoType
  <2>2. R.ntHandle = r.ntHandle /\ R.findOpen = r.findOpen /\ R.reader = r.reader
        /\ R.next = r.next /\ R.last = r.last
    BY Zenon, <1>1 DEF InfoType
  <2>3. info' = [info EXCEPT ![dirinfo] = R]
    BY Zenon, <1>6
  <2> HIDE DEF R
  <2>4. SoundInfo(g, R)
    BY Zenon, <1>1, <1>3, <1>4, <2>2 DEF SoundInfo
  <2>5. Around
    BY Zenon, <1>1, <1>3, <1>6 DEF Around, vworld
  <2> QED
    BY Zenon, <1>1, <1>6, <2>1, <2>3, <2>4, <2>5, ReturnSafe DEF Around
<1>7. ASSUME NEW R \in InfoType, R.buf = r.buf, R.ntHandle = r.ntHandle, R.findOpen = r.findOpen,
             R.reader # "Find", R.next = r.next, R.last = r.last,
             info' = [info EXCEPT ![dirinfo] = R], got' \in [Readers -> Seq(1..N)],
             UNCHANGED <<pc, d, n, mu, listed, ended, scan, gap, faults>>
      PROVE  Safe'
  <2>1. SoundInfo(g, R)
    BY Zenon, <1>1, <1>3, <1>4, <1>7 DEF SoundInfo
  <2>2. Around /\ n' \in [Readers -> Int] /\ R.buf # 0
    BY Zenon, <1>1, <1>3, <1>7 DEF Around, vworld
  <2> QED
    BY Zenon, <1>1, <1>7, <2>1, <2>2, GoesOnSafe DEF Around
<1>8. ASSUME info' = [info EXCEPT ![dirinfo] = [r EXCEPT !.class = "IdBothRestart"]], GoesOn,
             UNCHANGED <<scan, gap, faults>>
      PROVE  Safe'
  <2> DEFINE R == [r EXCEPT !.class = "IdBothRestart"]
  <2>1. R \in InfoType
    BY ZenonT(60), <1>1 DEF InfoType
  <2>2. R.buf = r.buf /\ R.ntHandle = r.ntHandle /\ R.findOpen = r.findOpen
        /\ R.reader = r.reader /\ R.next = r.next /\ R.last = r.last
    BY Zenon, <1>1 DEF InfoType
  <2>3. info' = [info EXCEPT ![dirinfo] = R] /\ got' \in [Readers -> Seq(1..N)]
        /\ UNCHANGED <<pc, d, n, mu, listed, ended>>
    BY Zenon, <1>3, <1>8 DEF GoesOn
  <2> HIDE DEF R
  <2>4. R.reader # "Find"
    BY Zenon, <1>1, <2>2
  <2> QED
    BY Zenon, <1>7, <1>8, <2>1, <2>2, <2>3, <2>4
<1>9. ASSUME info' = [info EXCEPT ![dirinfo] = [r EXCEPT !.reader = "NtQuery"]],
             got' = [got EXCEPT ![g] = <<>>],
             UNCHANGED <<pc, d, n, mu, listed, ended, scan, gap, faults>>
      PROVE  Safe'
  <2> DEFINE R == [r EXCEPT !.reader = "NtQuery"]
  <2>1. R \in InfoType
    BY Zenon, <1>1 DEF InfoType
  <2>2. R.buf = r.buf /\ R.ntHandle = r.ntHandle /\ R.findOpen = r.findOpen
        /\ R.reader # "Find" /\ R.next = r.next /\ R.last = r.last
    BY Zenon, <1>1 DEF InfoType
  <2>3. <<>> \in Seq(1..N)
    OBVIOUS
  <2>4. info' = [info EXCEPT ![dirinfo] = R] /\ got' \in [Readers -> Seq(1..N)]
    BY Zenon, <1>3, <1>9, <2>3
  <2> HIDE DEF R
  <2> QED
    BY Zenon, <1>7, <1>9, <2>1, <2>2, <2>4
<1>10. ASSUME Return(g, TRUE) \/ Return(g, FALSE), UNCHANGED info, gap' \in BOOLEAN,
              faults' \in 0..MaxFaults, scan' \in [Infos \cup {FileHandle} -> Restart..N]
       PROVE  Safe'
  <2>1. Around
    BY Zenon, <1>1, <1>10 DEF Around, vworld
  <2> QED
    BY Zenon, <1>1, <1>10, <2>1, LeavesSafe
<1>11. ASSUME NEW a \in TooBig(pos, r.buf), NEW moved \in BOOLEAN,
              scan' = [scan EXCEPT ![FileHandle] = IF moved THEN a ELSE pos]
       PROVE  scan' \in [Infos \cup {FileHandle} -> Restart..N]
  <2>1. a \in Restart..N
    BY <1>1, <1>2, TooBigTypes DEF Restart
  <2> QED
    BY Zenon, <1>2, <1>3, <1>11, <2>1
<1> QED
  BY Zenon, <1>1, <1>3, <1>5, <1>6, <1>8, <1>9, <1>10, <1>11, QueryFailsTypes DEF InfoEx, pos

\* Opening the handle to query keeps Safe: a reopening belongs to the dirInfo
\* that is the file's, never to one Seek has taken off.
LEMMA NtOpenSafe ==
  ASSUME Safe, NEW g \in Readers, NtOpen(g)
  PROVE  Safe'
<1> DEFINE r == info[dirinfo]
           own == fs.overlapped /\ ~closed
<1>1. /\ pc[g] = "read" /\ d[g] = dirinfo /\ dirinfo \in Infos /\ r \in InfoType /\ N \in Nat
      /\ r.next > r.last /\ r.reader = "NtQuery" /\ r.ntHandle = NoHandle
      /\ UNCHANGED <<vworld, dirinfo, searches, vseek, gap, calls>>
  BY Zenon, ReadingFacts DEF NtOpen, Refills
<1>2. /\ r.findOpen => dirinfo \in searches
      /\ gap \in BOOLEAN /\ faults \in 0..MaxFaults
      /\ scan \in [Infos \cup {FileHandle} -> Restart..N]
      /\ n \in [Readers -> Int] /\ got \in [Readers -> Seq(1..N)]
  BY Zenon, <1>1 DEF Safe, Handles, TypeOK
<1>3. ~ (r.next <= r.last) /\ r.buf \in 0..MaxBuf
  BY <1>1 DEF InfoType
<1>4. ASSUME info' = [info EXCEPT ![dirinfo] = [r EXCEPT !.ntHandle = IF own THEN dirinfo ELSE FileHandle,
                                                         !.buf = IF @ = 0 THEN 0 ELSE BufSize]],
             reopened' = IF own THEN reopened \cup {dirinfo} ELSE reopened,
             scan' = IF own THEN [scan EXCEPT ![dirinfo] = Restart] ELSE scan,
             GoesOn, UNCHANGED faults
      PROVE  Safe'
  <2> DEFINE hd == IF own THEN dirinfo ELSE FileHandle
             b == IF r.buf = 0 THEN 0 ELSE BufSize
             R == [r EXCEPT !.ntHandle = hd, !.buf = b]
  <2>1. hd \in {NoHandle, FileHandle} \cup Infos
    BY Zenon, <1>1
  <2>2. b \in 0..MaxBuf
    BY SizesAssumption
  <2>3. info' = [info EXCEPT ![dirinfo] = R] /\ (hd = dirinfo => own)
    BY Zenon, <1>1, <1>4, NoInfoApart
  <2> HIDE DEF hd, b
  <2>4. R \in InfoType
    BY ZenonT(60), <1>1, <2>1, <2>2 DEF InfoType
  <2>5. R.ntHandle = hd /\ R.findOpen = r.findOpen /\ R.reader = r.reader
        /\ R.next = r.next /\ R.last = r.last
    BY Zenon, <1>1 DEF InfoType
  <2> HIDE DEF R
  <2>6. SoundInfo(g, R)
    BY Zenon, <1>1, <1>2, <1>3, <1>4, <2>3, <2>5 DEF SoundInfo
  <2>7. Restart \in Restart..N
    BY <1>1 DEF Restart
  <2>8. Around /\ n' \in [Readers -> Int] /\ got' \in [Readers -> Seq(1..N)]
        /\ UNCHANGED <<pc, d, mu, listed, ended>>
    BY Zenon, <1>1, <1>2, <1>4, <2>7 DEF Around, vworld, GoesOn
  <2>9. R.reader = "InfoEx" => R.buf # 0
    BY Zenon, <1>1, <2>5
  <2> QED
    BY Zenon, <1>1, <2>3, <2>4, <2>6, <2>8, <2>9, GoesOnSafe DEF Around
<1>5. ASSUME Return(g, TRUE), UNCHANGED <<info, reopened, scan>>, faults' \in 0..MaxFaults
      PROVE  Safe'
  <2>1. Around
    BY Zenon, <1>1, <1>2, <1>5 DEF Around, vworld
  <2> QED
    BY Zenon, <1>1, <1>5, <2>1, LeavesSafe
<1>6. ASSUME info' = [info EXCEPT ![dirinfo] = [r EXCEPT !.buf = IF @ = 0 THEN PoolSize ELSE BufSize]],
             Return(g, TRUE), UNCHANGED <<reopened, scan, faults>>
      PROVE  Safe'
  <2> DEFINE b == IF r.buf = 0 THEN PoolSize ELSE BufSize
             R == [r EXCEPT !.buf = b]
  <2>1. b \in 0..MaxBuf
    BY SizesAssumption
  <2>2. info' = [info EXCEPT ![dirinfo] = R]
    BY Zenon, <1>6
  <2> HIDE DEF b
  <2>3. R \in InfoType
    BY ZenonT(60), <1>1, <2>1 DEF InfoType
  <2>4. R.ntHandle = r.ntHandle /\ R.findOpen = r.findOpen /\ R.reader = r.reader
        /\ R.next = r.next /\ R.last = r.last
    BY Zenon, <1>1 DEF InfoType
  <2> HIDE DEF R
  <2>5. SoundInfo(g, R)
    BY Zenon, <1>1, <1>2, <1>3, <1>6, <2>4, NoInfoApart DEF SoundInfo
  <2>6. Around
    BY Zenon, <1>1, <1>2, <1>6 DEF Around, vworld
  <2> QED
    BY Zenon, <1>1, <1>6, <2>2, <2>3, <2>5, <2>6, ReturnSafe DEF Around
<1> QED
  BY Zenon, <1>1, <1>4, <1>5, <1>6, QueryFailsTypes DEF NtOpen

\* What the steps of a search by name have in common.
LEMMA FindSafe ==
  ASSUME Safe, NEW g \in Readers, pc[g] = "read", info[dirinfo].reader = "Find",
         NEW R \in InfoType, R.reader = "Find", R.ntHandle = info[dirinfo].ntHandle,
         R.buf = info[dirinfo].buf, R.next = info[dirinfo].next, R.last = info[dirinfo].last,
         info' = [info EXCEPT ![dirinfo] = R], Around,
         reopened' = reopened, searches' \in {searches, searches \cup {dirinfo}},
         R.findOpen => dirinfo \in searches',
         n' \in [Readers -> Int], got' \in [Readers -> Seq(1..N)],
         UNCHANGED <<pc, d, mu, listed, ended>>
  PROVE  Safe'
<1>1. dirinfo \in Infos /\ ~closed
  BY Zenon, ReadingFacts, NoInfoApart DEF Safe, Buffers
<1>2. SoundInfo(g, R)
  BY Zenon, <1>1, NoInfoApart DEF SoundInfo, Safe, Handles, Buffers
<1>3. R.reader = "InfoEx" => R.buf # 0
  BY Zenon
<1> QED
  BY Zenon, <1>2, <1>3, GoesOnSafe DEF Around

\* FindFirstFile keeps Safe: the search belongs to the file's dirInfo.
LEMMA FindFirstSafe ==
  ASSUME Safe, NEW g \in Readers, FindFirst(g)
  PROVE  Safe'
<1> DEFINE r == info[dirinfo]
<1>1. /\ pc[g] = "read" /\ d[g] = dirinfo /\ dirinfo \in Infos /\ r \in InfoType /\ N \in Nat
      /\ r.reader = "Find"
      /\ UNCHANGED <<vworld, dirinfo, scan, reopened, vseek, gap, calls>>
  BY Zenon, ReadingFacts DEF FindFirst
<1>2. /\ r.findOpen => dirinfo \in searches
      /\ gap \in BOOLEAN /\ faults \in 0..MaxFaults
      /\ scan \in [Infos \cup {FileHandle} -> Restart..N]
      /\ n \in [Readers -> Int] /\ got \in [Readers -> Seq(1..N)]
  BY Zenon, <1>1 DEF Safe, Handles, TypeOK
<1>3. ASSUME faults' \in 0..MaxFaults PROVE Around
  BY Zenon, <1>1, <1>2, <1>3 DEF Around, vworld
<1>4. ASSUME NEW e \in 0..N,
             info' = [info EXCEPT ![dirinfo] = [r EXCEPT !.findOpen = TRUE, !.findAt = e, !.findPending = TRUE]],
             searches' = searches \cup {dirinfo}, GoesOn, UNCHANGED faults
      PROVE  Safe'
  <2> DEFINE R == [r EXCEPT !.findOpen = TRUE, !.findAt = e, !.findPending = TRUE]
  <2>1. R \in InfoType
    BY Zenon, <1>1 DEF InfoType
  <2>2. R.ntHandle = r.ntHandle /\ R.buf = r.buf /\ R.reader = r.reader
        /\ R.next = r.next /\ R.last = r.last
    BY Zenon, <1>1 DEF InfoType
  <2>3. info' = [info EXCEPT ![dirinfo] = R] /\ dirinfo \in searches'
        /\ UNCHANGED <<pc, d, mu, listed, ended>>
        /\ n' \in [Readers -> Int] /\ got' \in [Readers -> Seq(1..N)] /\ Around
    BY Zenon, <1>2, <1>3, <1>4 DEF GoesOn
  <2> HIDE DEF R
  <2> QED
    BY Zenon, <1>1, <1>4, <2>1, <2>2, <2>3, FindSafe
<1>5. ASSUME info' = [info EXCEPT ![dirinfo] = [r EXCEPT !.findEOF = TRUE]], GoesOn,
             UNCHANGED <<searches, faults>>
      PROVE  Safe'
  <2> DEFINE R == [r EXCEPT !.findEOF = TRUE]
  <2>1. R \in InfoType
    BY Zenon, <1>1 DEF InfoType
  <2>2. R.ntHandle = r.ntHandle /\ R.buf = r.buf /\ R.reader = r.reader
        /\ R.next = r.next /\ R.last = r.last /\ R.findOpen = r.findOpen
    BY Zenon, <1>1 DEF InfoType
  <2>3. info' = [info EXCEPT ![dirinfo] = R] /\ UNCHANGED <<pc, d, mu, listed, ended>>
        /\ n' \in [Readers -> Int] /\ got' \in [Readers -> Seq(1..N)] /\ Around
    BY Zenon, <1>2, <1>3, <1>5 DEF GoesOn
  <2> HIDE DEF R
  <2> QED
    BY Zenon, <1>1, <1>2, <1>5, <2>1, <2>2, <2>3, FindSafe
<1>6. ASSUME faults < MaxFaults, faults' = faults + 1, Return(g, TRUE), UNCHANGED <<info, searches>>
      PROVE  Safe'
  <2>1. faults' \in 0..MaxFaults
    BY <1>2, <1>6, BoundsAssumption
  <2> QED
    BY Zenon, <1>1, <1>3, <1>6, <2>1, LeavesSafe
<1> QED
  BY Zenon, <1>1, <1>4, <1>5, <1>6 DEF FindFirst

\* FindNextFile keeps Safe.
LEMMA FindNextSafe ==
  ASSUME Safe, NEW g \in Readers, FindNext(g)
  PROVE  Safe'
<1> DEFINE r == info[dirinfo]
           e == IF r.findPending THEN r.findAt ELSE r.findAt + 1
<1>1. /\ pc[g] = "read" /\ d[g] = dirinfo /\ dirinfo \in Infos /\ r \in InfoType /\ N \in Nat
      /\ r.reader = "Find" /\ got[g] \in Seq(1..N) /\ n[g] \in Int
      /\ UNCHANGED <<vworld, dirinfo, vkernel, vseek, gap, calls>>
  BY Zenon, ReadingFacts DEF FindNext
<1>2. /\ r.findOpen => dirinfo \in searches
      /\ gap \in BOOLEAN /\ faults \in 0..MaxFaults
      /\ scan \in [Infos \cup {FileHandle} -> Restart..N]
      /\ n \in [Readers -> Int] /\ got \in [Readers -> Seq(1..N)]
      /\ UNCHANGED <<scan, reopened, searches>>
  BY Zenon, <1>1 DEF Safe, Handles, TypeOK, vkernel
<1>3. ASSUME faults' \in 0..MaxFaults PROVE Around
  BY Zenon, <1>1, <1>2, <1>3 DEF Around, vworld
<1>4. e \in Nat
  <2>1. r.findAt \in 0..N
    BY Zenon, <1>1, InfoFields
  <2> QED
    BY <2>1
<1>5. ASSUME e <= N, info' = [info EXCEPT ![dirinfo] = [r EXCEPT !.findAt = e, !.findPending = FALSE]],
             IF e = 0 THEN UNCHANGED <<n, got>>
             ELSE /\ got' = [got EXCEPT ![g] = Append(@, e)]
                  /\ n' = [n EXCEPT ![g] = IF @ < 0 THEN @ ELSE @ - 1],
             UNCHANGED <<pc, d, mu, listed, ended, faults>>
      PROVE  Safe'
  <2> HIDE DEF e
  <2> DEFINE R == [r EXCEPT !.findAt = e, !.findPending = FALSE]
  <2>1. e \in 0..N
    BY <1>1, <1>4, <1>5
  <2>2. R \in InfoType
    BY ZenonT(60), <1>1, <2>1 DEF InfoType
  <2>3. R.ntHandle = r.ntHandle /\ R.buf = r.buf /\ R.reader = r.reader
        /\ R.next = r.next /\ R.last = r.last /\ R.findOpen = r.findOpen
    BY Zenon, <1>1 DEF InfoType
  <2>4. n' \in [Readers -> Int] /\ got' \in [Readers -> Seq(1..N)]
    <3>1. e # 0 => Append(got[g], e) \in Seq(1..N)
      BY <1>1, <2>1
    <3>2. (IF n[g] < 0 THEN n[g] ELSE n[g] - 1) \in Int
      BY <1>1
    <3> QED
      BY Zenon, <1>2, <1>5, <3>1, <3>2
  <2>5. info' = [info EXCEPT ![dirinfo] = R] /\ Around /\ UNCHANGED <<pc, d, mu, listed, ended>>
    BY Zenon, <1>2, <1>3, <1>5
  <2> HIDE DEF R
  <2> QED
    BY Zenon, <1>1, <1>2, <2>2, <2>3, <2>4, <2>5, FindSafe
<1>6. ASSUME info' = [info EXCEPT ![dirinfo] = [r EXCEPT !.findEOF = TRUE]], GoesOn, UNCHANGED faults
      PROVE  Safe'
  <2> DEFINE R == [r EXCEPT !.findEOF = TRUE]
  <2>1. R \in InfoType
    BY ZenonT(60), <1>1 DEF InfoType
  <2>2. R.ntHandle = r.ntHandle /\ R.buf = r.buf /\ R.reader = r.reader
        /\ R.next = r.next /\ R.last = r.last /\ R.findOpen = r.findOpen
    BY Zenon, <1>1 DEF InfoType
  <2>3. info' = [info EXCEPT ![dirinfo] = R] /\ UNCHANGED <<pc, d, mu, listed, ended>>
        /\ n' \in [Readers -> Int] /\ got' \in [Readers -> Seq(1..N)] /\ Around
    BY Zenon, <1>2, <1>3, <1>6 DEF GoesOn
  <2> HIDE DEF R
  <2> QED
    BY Zenon, <1>1, <1>2, <2>1, <2>2, <2>3, FindSafe
<1>7. ASSUME faults < MaxFaults, faults' = faults + 1, Return(g, TRUE), UNCHANGED info
      PROVE  Safe'
  <2>1. faults' \in 0..MaxFaults
    BY <1>2, <1>7, BoundsAssumption
  <2> QED
    BY Zenon, <1>1, <1>2, <1>3, <1>7, <2>1, LeavesSafe
<1> QED
  BY Zenon, <1>1, <1>5, <1>6, <1>7 DEF FindNext

\* NtQueryDirectoryFile keeps Safe, over a larger buffer, the end, failures and
\* the change to the search by name, which closes the reopening first.
LEMMA NtQuerySafe ==
  ASSUME Safe, NEW g \in Readers, NtQuery(g)
  PROVE  Safe'
<1> DEFINE r == info[dirinfo]
           restart == ~r.ntStarted
           pos == IF restart THEN Restart ELSE scan[r.ntHandle]
           size == IF r.buf = 0 THEN PoolSize ELSE r.buf
<1>1. /\ pc[g] = "read" /\ d[g] = dirinfo /\ dirinfo \in Infos /\ r \in InfoType /\ N \in Nat
      /\ r.next > r.last /\ r.reader = "NtQuery" /\ r.ntHandle # NoHandle
      /\ UNCHANGED <<vworld, dirinfo, searches, vseek, calls>>
  BY Zenon, ReadingFacts DEF NtQuery, Refills
<1>2. /\ r.ntHandle = dirinfo => dirinfo \in reopened
      /\ r.findOpen => dirinfo \in searches
      /\ gap \in BOOLEAN /\ faults \in 0..MaxFaults
      /\ scan \in [Infos \cup {FileHandle} -> Restart..N]
      /\ n \in [Readers -> Int] /\ got \in [Readers -> Seq(1..N)]
  BY Zenon, <1>1 DEF Safe, Handles, TypeOK
<1>3. ~ (r.next <= r.last) /\ r.ntHandle \in Infos \cup {FileHandle}
  BY <1>1 DEF InfoType
<1>4. pos \in Restart..N /\ size \in 1..MaxBuf
  <2>1. Restart \in Restart..N
    BY <1>1 DEF Restart
  <2>2. r.buf \in 0..MaxBuf
    BY Zenon, <1>1 DEF InfoType
  <2>3. size \in 1..MaxBuf
    BY <2>2, SizesAssumption
  <2> QED
    BY Zenon, <1>2, <1>3, <2>1, <2>3
<1> HIDE DEF pos, size
\* The dirInfo after a step that goes on, or that ends the call.
<1>5. ASSUME NEW R \in InfoType, R.ntHandle = r.ntHandle, R.findOpen = r.findOpen, R.reader = r.reader,
             R.next <= R.last => R.buf # 0, info' = [info EXCEPT ![dirinfo] = R],
             UNCHANGED reopened, gap' \in BOOLEAN, faults' \in 0..MaxFaults,
             scan' \in [Infos \cup {FileHandle} -> Restart..N], GoesOn \/ Return(g, TRUE)
      PROVE  Safe'
  <2>1. closed => R.reader # "Find"
    BY Zenon, <1>1, <1>5
  <2>2. SoundInfo(g, R)
    BY Zenon, <1>1, <1>2, <1>5, <2>1 DEF SoundInfo
  <2>3. Around /\ (R.reader = "InfoEx" => R.buf # 0)
    BY Zenon, <1>1, <1>5 DEF Around, vworld
  <2>4. CASE Return(g, TRUE)
    BY Zenon, <1>1, <1>5, <2>2, <2>3, <2>4, ReturnSafe DEF Around
  <2>5. CASE GoesOn
    <3>1. n' \in [Readers -> Int] /\ got' \in [Readers -> Seq(1..N)] /\ UNCHANGED <<pc, d, mu, listed, ended>>
      BY Zenon, <1>2, <2>5 DEF GoesOn
    <3> QED
      BY Zenon, <1>1, <1>5, <2>2, <2>3, <3>1, GoesOnSafe DEF Around
  <2> QED
    BY Zenon, <1>5, <2>4, <2>5
<1>6. ASSUME NEW a \in Answers(pos, size),
             info' = [info EXCEPT ![dirinfo] = [r EXCEPT !.next = a[1], !.last = a[2], !.buf = size,
                                                         !.ntStarted = TRUE]],
             scan' = [scan EXCEPT ![r.ntHandle] = a[2]], GoesOn, UNCHANGED <<reopened, gap, faults>>
      PROVE  Safe'
  <2> DEFINE R == [r EXCEPT !.next = a[1], !.last = a[2], !.buf = size, !.ntStarted = TRUE]
  <2>1. a[1] \in 0..N + 1 /\ a[2] \in 0..N /\ a[2] \in Restart..N /\ size \in 0..MaxBuf /\ size # 0
    BY <1>1, <1>4, <1>6, AnswerTypes DEF Restart
  <2>2. R \in InfoType
    BY ZenonT(60), <1>1, <2>1 DEF InfoType
  <2>3. R.ntHandle = r.ntHandle /\ R.findOpen = r.findOpen /\ R.reader = r.reader /\ R.buf = size
    BY Zenon, <1>1 DEF InfoType
  <2>4. scan' \in [Infos \cup {FileHandle} -> Restart..N] /\ gap' \in BOOLEAN /\ faults' \in 0..MaxFaults
        /\ info' = [info EXCEPT ![dirinfo] = R]
    BY Zenon, <1>2, <1>3, <1>6, <2>1
  <2> HIDE DEF R
  <2> QED
    BY Zenon, <1>5, <1>6, <2>1, <2>2, <2>3, <2>4
<1>7. ASSUME NEW started \in {r.ntStarted, TRUE},
             info' = [info EXCEPT ![dirinfo] = [r EXCEPT !.ntEOF = TRUE, !.buf = 0, !.ntStarted = started]],
             GoesOn, UNCHANGED <<scan, reopened, gap, faults>>
      PROVE  Safe'
  <2> DEFINE R == [r EXCEPT !.ntEOF = TRUE, !.buf = 0, !.ntStarted = started]
  <2>1. started \in BOOLEAN /\ 0 \in 0..MaxBuf
    <3>1. r.ntStarted \in BOOLEAN
      BY Zenon, <1>1 DEF InfoType
    <3>2. 0 \in 0..MaxBuf
      BY SizesAssumption
    <3> QED
      BY Zenon, <1>7, <3>1, <3>2
  <2>2. R \in InfoType
    BY ZenonT(60), <1>1, <2>1 DEF InfoType
  <2>3. R.ntHandle = r.ntHandle /\ R.findOpen = r.findOpen /\ R.reader = r.reader
        /\ R.next = r.next /\ R.last = r.last
    BY Zenon, <1>1 DEF InfoType
  <2>4. info' = [info EXCEPT ![dirinfo] = R] /\ gap' \in BOOLEAN /\ faults' \in 0..MaxFaults
        /\ scan' \in [Infos \cup {FileHandle} -> Restart..N]
    BY Zenon, <1>2, <1>7
  <2> HIDE DEF R
  <2> QED
    BY Zenon, <1>3, <1>5, <1>7, <2>2, <2>3, <2>4
<1>8. ASSUME NEW b \in 1..MaxBuf, info' = [info EXCEPT ![dirinfo] = [r EXCEPT !.buf = b]],
             UNCHANGED reopened, gap' \in BOOLEAN, faults' \in 0..MaxFaults,
             scan' \in [Infos \cup {FileHandle} -> Restart..N], Return(g, TRUE)
      PROVE  Safe'
  <2> DEFINE R == [r EXCEPT !.buf = b]
  <2>1. b \in 0..MaxBuf
    BY <1>8
  <2>2. R \in InfoType
    BY ZenonT(60), <1>1, <2>1 DEF InfoType
  <2>3. R.ntHandle = r.ntHandle /\ R.findOpen = r.findOpen /\ R.reader = r.reader
        /\ R.next = r.next /\ R.last = r.last
    BY Zenon, <1>1 DEF InfoType
  <2> HIDE DEF R
  <2> QED
    BY Zenon, <1>3, <1>5, <1>8, <2>2, <2>3 DEF R
<1>9. ASSUME 2 * size <= MaxBuf, info' = [info EXCEPT ![dirinfo] = Regrown(r, size)], GoesOn,
             UNCHANGED <<reopened, gap, faults>>, scan' \in [Infos \cup {FileHandle} -> Restart..N]
      PROVE  Safe'
  <2> DEFINE b == 2 * size
             R == [r EXCEPT !.buf = b, !.ntStarted = FALSE, !.ntSeen = 0]
  <2>1. b \in 0..MaxBuf
    BY <1>4, <1>9
  <2>2. info' = [info EXCEPT ![dirinfo] = R]
    BY Zenon, <1>9 DEF Regrown
  <2> HIDE DEF b
  <2>3. R \in InfoType
    BY ZenonT(60), <1>1, <2>1 DEF InfoType
  <2>4. R.ntHandle = r.ntHandle /\ R.findOpen = r.findOpen /\ R.reader = r.reader
        /\ R.next = r.next /\ R.last = r.last
    BY Zenon, <1>1 DEF InfoType
  <2>5. gap' \in BOOLEAN /\ faults' \in 0..MaxFaults
    BY Zenon, <1>2, <1>9
  <2> HIDE DEF R
  <2> QED
    BY Zenon, <1>3, <1>5, <1>9, <2>2, <2>3, <2>4, <2>5
<1>10. ASSUME ~closed,
              info' = [info EXCEPT ![dirinfo] = [r EXCEPT !.ntHandle = NoHandle, !.buf = 0, !.reader = "Find"]],
              reopened' = reopened \ {dirinfo}, EnterFind(g), got' = [got EXCEPT ![g] = <<>>],
              UNCHANGED <<n, mu, listed, ended, scan, gap, faults>>
      PROVE  Safe'
  <2> DEFINE R == [r EXCEPT !.ntHandle = NoHandle, !.buf = 0, !.reader = "Find"]
  <2>1. R \in InfoType
    <3>1. 0 \in 0..MaxBuf /\ NoHandle \in {NoHandle, FileHandle} \cup Infos
      BY SizesAssumption
    <3> QED
      BY ZenonT(60), <1>1, <3>1 DEF InfoType
  <2>2. R.ntHandle = NoHandle /\ R.findOpen = r.findOpen /\ R.reader = "Find"
        /\ R.next = r.next /\ R.last = r.last
    BY Zenon, <1>1 DEF InfoType
  <2>3. d' = d /\ pc' = pc
    BY Zenon, <1>1, <1>10, NoInfoApart DEF EnterFind, Safe, TypeOK
  <2>4. info' = [info EXCEPT ![dirinfo] = R]
    BY Zenon, <1>10
  <2> HIDE DEF R
  <2>5. SoundInfo(g, R)
    BY Zenon, <1>1, <1>2, <1>3, <1>10, <2>2, NoInfoApart DEF SoundInfo
  <2>6. <<>> \in Seq(1..N) /\ (R.reader = "InfoEx" => R.buf # 0)
    BY <2>2
  <2>7. Around /\ n' \in [Readers -> Int] /\ got' \in [Readers -> Seq(1..N)]
        /\ UNCHANGED <<pc, d, mu, listed, ended>>
    BY Zenon, <1>1, <1>2, <1>10, <2>3, <2>6 DEF Around, vworld
  <2> QED
    BY Zenon, <1>1, <2>1, <2>4, <2>5, <2>6, <2>7, GoesOnSafe DEF Around
<1>11. ASSUME NEW a \in TooBig(pos, size), NEW moved \in BOOLEAN,
              scan' = [scan EXCEPT ![r.ntHandle] = IF moved THEN a ELSE pos]
       PROVE  scan' \in [Infos \cup {FileHandle} -> Restart..N]
  <2>1. a \in Restart..N
    BY <1>1, <1>4, TooBigTypes DEF Restart
  <2> QED
    BY Zenon, <1>2, <1>3, <1>4, <1>11, <2>1
<1>12. CASE \E a \in TooBig(pos, size), moved \in BOOLEAN :
              /\ scan' = [scan EXCEPT ![r.ntHandle] = IF moved THEN a ELSE pos]
              /\ \/ /\ 2 * size <= MaxBuf
                    /\ info' = [info EXCEPT ![dirinfo] = Regrown(r, size)]
                    /\ GoesOn /\ UNCHANGED gap
                 \/ /\ 2 * size > MaxBuf
                    /\ info' = [info EXCEPT ![dirinfo] = [info[dirinfo] EXCEPT !.buf = size]]
                    /\ gap' = (gap \/ (moved /\ ~restart))
                    /\ Return(g, TRUE)
              /\ UNCHANGED <<reopened, faults>>
  BY Zenon, <1>2, <1>4, <1>8, <1>9, <1>11, <1>12
<1> QED
  BY ZenonT(60), <1>1, <1>2, <1>4, <1>6, <1>7, <1>8, <1>10, <1>12, QueryFailsTypes DEF NtQuery, pos, size

----------------------------------------------------------------------------

\* new(dirInfo) has the type of a dirInfo.
LEMMA NewInfoType ==
  ASSUME Safe
  PROVE  /\ NewInfo \in InfoType /\ NewInfo.buf = 0 /\ NewInfo.next > NewInfo.last
         /\ NewInfo.ntHandle = NoHandle /\ NewInfo.findOpen = FALSE /\ NewInfo.reader = "InfoEx"
<1>1. fs.class \in {"FullRestart", "Full", "IdBothRestart", "IdBoth"}
  BY Zenon, FileSystemsAssumption DEF Safe, TypeOK, FSType
<1>2. N \in Nat
  BY Zenon, NIsNat
<1>3. NewInfo \in InfoType
  BY <1>1, <1>2, SizesAssumption DEF NewInfo, InfoType
<1> QED
  BY <1>3 DEF NewInfo

\* A call begins.
LEMMA StartSafe ==
  ASSUME Safe, ~SeekRaces, NEW g \in Readers, Start(g)
  PROVE  Safe'
<1>1. pc[g] = "idle" /\ ctl = "idle" /\ pc' = [pc EXCEPT ![g] = "load"]
      /\ UNCHANGED <<vworld, dirinfo, info, mu, vkernel, d, got, vseek, vlisted, faults>>
  BY Zenon DEF Start
<1>2. n' \in [Readers -> Int] /\ calls' \in 0..MaxCalls
  <2>1. n' \in [Readers -> Int]
    <3>1. PICK k \in Counts : n' = [n EXCEPT ![g] = k]
      BY Zenon DEF Start
    <3>2. k \in Int
      BY Zenon, InputsAssumption
    <3> QED
      BY Zenon, <3>1, <3>2 DEF Safe, TypeOK
  <2>2. calls' \in 0..MaxCalls
    BY BoundsAssumption DEF Start, Safe, TypeOK
  <2> QED
    BY Zenon, <2>1, <2>2
<1>3. TypeOK'
  BY Zenon, <1>1, <1>2 DEF Safe, TypeOK, vworld, vkernel, vseek, vlisted, N, InfoType, Infos
<1>4. \A h \in Readers : pc'[h] = IF h = g THEN "load" ELSE pc[h]
  BY Zenon, <1>1 DEF Safe, TypeOK
<1>5. Control'
  <2>1. ASSUME NEW h \in Readers PROVE CallOf(h)'
    <3>1. CallOf(h) /\ NewInfo' = NewInfo /\ (pc[h] = "idle" => d[h] = NoInfo)
      BY Zenon, <1>1 DEF Safe, Control, CallOf, NewInfo, vworld
    <3>2. CASE h = g
      <4>1. pc'[h] = "load" /\ d'[h] = NoInfo
        BY Zenon, <1>1, <1>4, <3>1, <3>2
      <4> QED
        BY Zenon, <4>1 DEF CallOf
    <3>3. CASE h # g
      BY Zenon, <1>1, <1>4, <3>1, <3>3 DEF CallOf
    <3> QED
      BY Zenon, <3>2, <3>3
  <2>2. ASSUME NEW i \in Infos, mu'[i] # None
        PROVE  i = dirinfo' /\ mu'[i] \in Readers /\ pc'[mu'[i]] = "read"
    BY ZenonT(60), <1>1, <1>4, <2>2 DEF Safe, Control
  <2>3. ASSUME NEW h \in Readers, NEW k \in Readers, pc'[h] = "cas", d'[k] = d'[h] PROVE k = h
    BY <1>1, <1>4, <2>3 DEF Safe, Control
  <2> QED
    BY Zenon, <1>1, <2>1, <2>2, <2>3 DEF Control, Safe, vseek
<1>6. Handles'
  BY Zenon, <1>1 DEF Safe, Handles, vkernel, vseek
<1>7. Buffers'
  <2>1. \A h \in Readers : pc'[h] = "read" => pc[h] = "read"
    BY Zenon, <1>4
  <2> QED
    BY Zenon, <1>1, <2>1 DEF Safe, Buffers, vseek
<1> QED
  BY Zenon, <1>3, <1>5, <1>6, <1>7 DEF Safe

\* new(dirInfo) finds a dirInfo that no call has.
FreshIsUnused == Fresh \in Infos /\ \A g \in Readers : d[g] # Fresh

\* A call takes the dirInfo of the file, or makes one.
LEMMA LoadSafe ==
  ASSUME Safe, NEW g \in Readers, Load(g),
         dirinfo = NoInfo => FreshIsUnused
  PROVE  Safe'
<1>1. /\ pc[g] = "load" /\ d[g] = NoInfo /\ ctl = "idle" /\ closing = NoInfo
      /\ UNCHANGED <<vworld, dirinfo, mu, vkernel, n, got, vseek, vlisted, calls, faults>>
      /\ NewInfo' = NewInfo
  BY Zenon DEF Load, Safe, Control, CallOf, vworld, NewInfo
<1>2. PICK i \in Infos, p \in {"lock", "cas"} :
        /\ d' = [d EXCEPT ![g] = i] /\ pc' = [pc EXCEPT ![g] = p]
        /\ p = "lock" => i = dirinfo /\ info' = info
        /\ p = "cas" => /\ dirinfo = NoInfo /\ (\A h \in Readers : d[h] # i)
                        /\ info' = [info EXCEPT ![i] = NewInfo]
  <2>1. CASE dirinfo # NoInfo
    <3>1. dirinfo \in Infos /\ d' = [d EXCEPT ![g] = dirinfo] /\ pc' = [pc EXCEPT ![g] = "lock"] /\ info' = info
      BY Zenon, <2>1 DEF Load, Safe, TypeOK
    <3> QED
      BY Zenon, <3>1
  <2>2. CASE dirinfo = NoInfo
    <3>1. /\ d' = [d EXCEPT ![g] = Fresh] /\ info' = [info EXCEPT ![Fresh] = NewInfo]
          /\ pc' = [pc EXCEPT ![g] = "cas"]
      BY Zenon, <2>2 DEF Load
    <3>2. Fresh \in Infos /\ \A h \in Readers : d[h] # Fresh
      BY Zenon, <2>2 DEF FreshIsUnused
    <3> HIDE DEF Fresh
    <3> QED
      BY Zenon, <2>2, <3>1, <3>2
  <2> QED
    BY Zenon, <2>1, <2>2
<1>3. /\ \A h \in Readers : /\ pc'[h] = IF h = g THEN p ELSE pc[h]
                            /\ d'[h] = IF h = g THEN i ELSE d[h]
      /\ NewInfo \in InfoType /\ info' \in [Infos -> InfoType]
      /\ \A k \in Infos : info'[k] = info[k] \/ (k = i /\ p = "cas" /\ info'[k] = NewInfo)
  BY ZenonT(60), <1>2, NewInfoType DEF Safe, TypeOK
<1>4. TypeOK'
  <2>1. /\ d' \in [Readers -> Infos \cup {NoInfo}]
        /\ pc' \in [Readers -> {"idle", "load", "cas", "lock", "read", "panic"}]
    BY Zenon, <1>2 DEF Safe, TypeOK
  <2> QED
    BY Zenon, <1>1, <1>3, <2>1 DEF Safe, TypeOK, vworld, vkernel, vseek, vlisted, N, InfoType, Infos
<1>5. Control'
  <2>1. ASSUME NEW h \in Readers PROVE CallOf(h)'
    <3>1. CASE h # g
      <4>1. CallOf(h) /\ pc'[h] = pc[h] /\ d'[h] = d[h] /\ UNCHANGED <<dirinfo, mu>>
        BY Zenon, <1>1, <1>3, <3>1 DEF Safe, Control
      <4>2. pc[h] = "cas" => info'[d[h]] = info[d[h]]
        BY Zenon, <1>2, <1>3 DEF Safe, Control, CallOf
      <4> QED
        BY Zenon, <1>1, <4>1, <4>2 DEF CallOf
    <3>2. CASE h = g /\ p = "lock"
      <4>1. pc'[h] = "lock" /\ d'[h] = dirinfo' /\ dirinfo' # NoInfo
        BY Zenon, <1>1, <1>2, <1>3, <3>2, NoInfoApart
      <4> QED
        BY Zenon, <4>1 DEF CallOf
    <3>3. CASE h = g /\ p = "cas"
      <4>1. pc'[h] = "cas" /\ d'[h] \in Infos \ {dirinfo'} /\ info'[d'[h]] = NewInfo'
        BY ZenonT(60), <1>1, <1>2, <1>3, <3>3, NoInfoApart DEF Safe, TypeOK
      <4> QED
        BY Zenon, <4>1 DEF CallOf
    <3> QED
      BY Zenon, <3>1, <3>2, <3>3
  <2>2. ASSUME NEW h \in Readers, NEW k \in Readers, pc'[h] = "cas", d'[k] = d'[h] PROVE k = h
    <3>1. CASE p = "lock"
      <4>1. h # g /\ pc[h] = "cas" /\ i = dirinfo
        <5>1. \A q \in Readers : pc'[q] = IF q = g THEN "lock" ELSE pc[q]
          BY Zenon, <1>3, <3>1
        <5>2. h # g
          <6>1. "lock" # "cas"
            BY Zenon
          <6> QED
            BY Zenon, <2>2, <5>1, <6>1
        <5> QED
          BY Zenon, <1>2, <2>2, <3>1, <5>1, <5>2
      <4>2. d[h] # dirinfo
        BY Zenon, <4>1 DEF Safe, Control, CallOf
      <4> QED
        <5>1. d'[h] = d[h] /\ d'[g] = dirinfo
          BY Zenon, <1>3, <4>1
        <5>2. k # g
          BY Zenon, <2>2, <4>2, <5>1
        <5>3. d[k] = d[h]
          BY Zenon, <1>3, <2>2, <5>1, <5>2
        <5> QED
          BY Zenon, <4>1, <5>3 DEF Safe, Control
    <3>2. CASE p = "cas"
      <4>1. CASE h = g
        BY Zenon, <1>2, <1>3, <2>2, <3>2, <4>1
      <4>2. CASE h # g
        <5>1. pc[h] = "cas" /\ d'[h] = d[h]
          BY Zenon, <1>3, <2>2, <4>2
        <5>2. k # g
          BY Zenon, <1>2, <1>3, <2>2, <3>2, <5>1
        <5>3. d[k] = d[h]
          BY Zenon, <1>3, <2>2, <5>1, <5>2
        <5> QED
          BY Zenon, <5>1, <5>3 DEF Safe, Control
      <4> QED
        BY Zenon, <4>1, <4>2
    <3> QED
      BY Zenon, <3>1, <3>2
  <2>3. ASSUME NEW k \in Infos, mu'[k] # None
        PROVE  k = dirinfo' /\ mu'[k] \in Readers /\ pc'[mu'[k]] = "read"
    BY Zenon, <1>1, <1>3, <2>3 DEF Safe, Control
  <2> QED
    BY Zenon, <1>1, <2>1, <2>2, <2>3 DEF Control, vseek
<1>6. Handles'
  <2>1. \A k \in Infos : /\ info'[k].ntHandle = k => k \in reopened
                         /\ info'[k].findOpen => k \in searches
    BY ZenonT(60), <1>3, NewInfoType, NoInfoApart DEF Safe, Handles
  <2> QED
    BY Zenon, <1>1, <2>1 DEF Safe, Handles, vkernel, vseek
<1>7. Buffers'
  <2>1. \A h \in Readers : pc'[h] = "read" => pc[h] = "read"
    BY Zenon, <1>2, <1>3
  <2>2. dirinfo # NoInfo => info'[dirinfo] = info[dirinfo]
    BY Zenon, <1>2, <1>3 DEF Safe, TypeOK
  <2> QED
    BY Zenon, <1>1, <2>1, <2>2 DEF Safe, Buffers, vseek
<1> QED
  BY Zenon, <1>4, <1>5, <1>6, <1>7 DEF Safe

\* A call makes its dirInfo the file's, or drops it.
LEMMA CasSafe ==
  ASSUME Safe, NEW g \in Readers, Cas(g)
  PROVE  Safe'
<1>1. /\ pc[g] = "cas" /\ d[g] \in Infos \ {dirinfo} /\ info[d[g]] = NewInfo /\ ctl = "idle" /\ closing = NoInfo
      /\ UNCHANGED <<vworld, info, mu, vkernel, n, got, vseek, vlisted, calls, faults>>
      /\ NewInfo' = NewInfo
  BY Zenon DEF Cas, Safe, Control, CallOf, vworld, NewInfo
<1>2. CASE dirinfo = NoInfo /\ dirinfo' = d[g] /\ pc' = [pc EXCEPT ![g] = "lock"] /\ UNCHANGED d
  <2>1. \A h \in Readers : pc'[h] = IF h = g THEN "lock" ELSE pc[h]
    BY Zenon, <1>2 DEF Safe, TypeOK
  <2>2. \A h \in Readers : pc'[h] # "read" /\ pc[h] # "read"
    BY <1>2, <2>1 DEF Safe, Control, CallOf
  <2>3. TypeOK'
    <3>1. pc' \in [Readers -> {"idle", "load", "cas", "lock", "read", "panic"}] /\ dirinfo' \in Infos \cup {NoInfo}
      BY Zenon, <1>1, <1>2 DEF Safe, TypeOK
    <3> QED
      BY ZenonT(60), <1>1, <1>2, <3>1 DEF Safe, TypeOK, vworld, vkernel, vseek, vlisted, N, InfoType, Infos
  <2>4. ASSUME NEW h \in Readers PROVE CallOf(h)'
    <3>1. CASE h = g
      <4>1. pc'[h] = "lock" /\ d'[h] = dirinfo' /\ dirinfo' # NoInfo
        BY Zenon, <1>1, <1>2, <2>1, <3>1, NoInfoApart
      <4> QED
        BY Zenon, <4>1 DEF CallOf
    <3>2. CASE h # g
      <4>1. pc[h] # "lock" /\ (pc[h] = "cas" => d[h] # d[g])
        BY Zenon, <1>1, <1>2, <3>2 DEF Safe, Control, CallOf
      <4>2. CallOf(h) /\ pc'[h] = pc[h] /\ d'[h] = d[h]
        BY Zenon, <1>2, <2>1, <3>2 DEF Safe, Control
      <4> QED
        BY Zenon, <1>1, <1>2, <2>2, <4>1, <4>2 DEF CallOf
    <3> QED
      BY Zenon, <3>1, <3>2
  <2>5. ASSUME NEW h \in Readers, NEW k \in Readers, pc'[h] = "cas", d'[k] = d'[h] PROVE k = h
    BY <1>2, <2>1, <2>5 DEF Safe, Control
  <2>6. \A k \in Infos : mu'[k] = None
    BY Zenon, <1>1, <1>2, <2>2 DEF Safe, Control
  <2>7. Control'
    BY Zenon, <1>1, <2>4, <2>5, <2>6 DEF Control, vseek
  <2>8. Handles'
    <3>1. reopened \cup searches = {}
      <4>1. reopened \subseteq Infos /\ searches \subseteq Infos
            /\ reopened \cup searches \subseteq {NoInfo, NoInfo}
        BY Zenon, <1>1, <1>2 DEF Safe, Handles, TypeOK
      <4> QED
        BY Zenon, <4>1, NoInfoApart
    <3> QED
      BY Zenon, <1>1, <1>2, <3>1 DEF Safe, Handles, vkernel, vseek
  <2>9. Buffers'
    <3>1. ~ (NewInfo.next <= NewInfo.last) /\ NewInfo.reader # "Find"
      BY NewInfoType DEF NewInfo
    <3> QED
      BY Zenon, <1>1, <1>2, <2>2, <3>1 DEF Buffers
  <2> QED
    BY Zenon, <2>3, <2>7, <2>8, <2>9 DEF Safe
<1>3. CASE dirinfo # NoInfo /\ d' = [d EXCEPT ![g] = NoInfo] /\ pc' = [pc EXCEPT ![g] = "load"] /\ UNCHANGED dirinfo
  <2>1. \A h \in Readers : /\ pc'[h] = IF h = g THEN "load" ELSE pc[h]
                           /\ d'[h] = IF h = g THEN NoInfo ELSE d[h]
    BY Zenon, <1>3 DEF Safe, TypeOK
  <2>2. TypeOK'
    <3>1. /\ pc' \in [Readers -> {"idle", "load", "cas", "lock", "read", "panic"}]
          /\ d' \in [Readers -> Infos \cup {NoInfo}]
      BY Zenon, <1>3 DEF Safe, TypeOK
    <3> QED
      BY ZenonT(60), <1>1, <1>3, <3>1 DEF Safe, TypeOK, vworld, vkernel, vseek, vlisted, N, InfoType, Infos
  <2>3. ASSUME NEW h \in Readers PROVE CallOf(h)'
    <3>1. CASE h = g
      <4>1. pc'[h] = "load" /\ d'[h] = NoInfo
        BY Zenon, <2>1, <3>1
      <4> QED
        BY Zenon, <4>1 DEF CallOf
    <3>2. CASE h # g
      <4>1. CallOf(h) /\ pc'[h] = pc[h] /\ d'[h] = d[h]
        BY Zenon, <2>1, <3>2 DEF Safe, Control
      <4> QED
        BY Zenon, <1>1, <1>3, <4>1 DEF CallOf
    <3> QED
      BY Zenon, <3>1, <3>2
  <2>4. ASSUME NEW h \in Readers, NEW k \in Readers, pc'[h] = "cas", d'[k] = d'[h] PROVE k = h
    <3>1. h # g /\ pc[h] = "cas" /\ d[h] \in Infos
      BY Zenon, <2>1, <2>4 DEF Safe, Control, CallOf
    <3> QED
      BY ZenonT(60), <2>1, <2>4, <3>1, NoInfoApart DEF Safe, Control
  <2>5. ASSUME NEW k \in Infos, mu'[k] # None
        PROVE  k = dirinfo' /\ mu'[k] \in Readers /\ pc'[mu'[k]] = "read"
    <3>1. k = dirinfo /\ mu[k] \in Readers /\ pc[mu[k]] = "read" /\ mu' = mu
      BY Zenon, <1>1, <2>5 DEF Safe, Control
    <3> QED
      BY Zenon, <1>1, <1>3, <2>1, <3>1
  <2>6. Control'
    BY Zenon, <1>1, <2>3, <2>4, <2>5 DEF Control, vseek
  <2>7. Handles'
    BY Zenon, <1>1, <1>3 DEF Safe, Handles, vkernel, vseek
  <2>8. Buffers'
    <3>1. \A h \in Readers : pc'[h] = "read" => pc[h] = "read"
      BY Zenon, <2>1
    <3> QED
      BY Zenon, <1>1, <1>3, <3>1 DEF Safe, Buffers, vseek
  <2> QED
    BY Zenon, <2>2, <2>6, <2>7, <2>8 DEF Safe
<1> QED
  BY Zenon, <1>2, <1>3 DEF Cas

\* A call gets the lock and the buffer of its reader.
LEMMA LockSafe ==
  ASSUME Safe, NEW g \in Readers, Lock(g)
  PROVE  Safe'
<1> DEFINE r == info[dirinfo]
           b == CASE r.reader = "Find" -> 0 [] r.buf = 0 -> PoolSize [] OTHER -> r.buf
           R == [r EXCEPT !.buf = b]
<1>1. /\ pc[g] = "lock" /\ d[g] = dirinfo /\ dirinfo \in Infos /\ mu[dirinfo] = None
      /\ ctl = "idle" /\ closing = NoInfo /\ r \in InfoType
      /\ UNCHANGED <<vworld, dirinfo, vkernel, n, got, vseek, vlisted, calls, faults>>
      /\ NewInfo' = NewInfo
  BY Zenon DEF Lock, Safe, Control, CallOf, TypeOK, vworld, NewInfo
<1>2. /\ mu' = [mu EXCEPT ![dirinfo] = g] /\ info' = [info EXCEPT ![dirinfo] = R]
  BY Zenon, <1>1 DEF Lock
<1>3. d' = d /\ pc' = [pc EXCEPT ![g] = "read"]
  <2>1. CASE r.reader = "Find"
    <3>1. d' = [d EXCEPT ![g] = dirinfo] /\ pc' = [pc EXCEPT ![g] = "read"]
      BY Zenon, <1>1, <2>1, NoInfoApart DEF Lock, EnterFind
    <3> QED
      BY Zenon, <1>1, <3>1 DEF Safe, TypeOK
  <2>2. CASE r.reader # "Find"
    BY Zenon, <1>1, <2>2 DEF Lock
  <2> QED
    BY Zenon, <2>1, <2>2
<1>4. b \in 0..MaxBuf /\ (r.reader = "InfoEx" => b # 0) /\ (r.buf # 0 /\ r.reader # "Find" => b # 0)
  <2>1. r.buf \in 0..MaxBuf
    BY Zenon, <1>1 DEF InfoType
  <2>2. 0 \in 0..MaxBuf /\ PoolSize \in 0..MaxBuf /\ PoolSize # 0
    BY SizesAssumption
  <2>3. "InfoEx" # "Find"
    BY Zenon
  <2>4. CASE r.reader = "Find"
    BY Zenon, <2>2, <2>3, <2>4
  <2>5. CASE r.reader # "Find"
    BY Zenon, <2>1, <2>2, <2>5
  <2> QED
    BY Zenon, <2>4, <2>5
<1> HIDE DEF b
<1>5. R \in InfoType
  BY ZenonT(60), <1>1, <1>4 DEF InfoType
<1>6. R.buf = b /\ R.next = r.next /\ R.last = r.last /\ R.reader = r.reader
      /\ R.ntHandle = r.ntHandle /\ R.findOpen = r.findOpen
  BY Zenon, <1>1 DEF InfoType
<1> HIDE DEF R
<1>7. /\ \A h \in Readers : pc'[h] = IF h = g THEN "read" ELSE pc[h]
      /\ \A k \in Infos : /\ info'[k] = IF k = dirinfo THEN R ELSE info[k]
                          /\ mu'[k] = IF k = dirinfo THEN g ELSE mu[k]
  BY Zenon, <1>2, <1>3 DEF Safe, TypeOK
<1>8. TypeOK'
  <2>1. /\ pc' \in [Readers -> {"idle", "load", "cas", "lock", "read", "panic"}]
        /\ info' \in [Infos -> InfoType] /\ mu' \in [Infos -> Readers \cup {None}]
        /\ d' \in [Readers -> Infos \cup {NoInfo}]
    BY Zenon, <1>2, <1>3, <1>5 DEF Safe, TypeOK
  <2> QED
    BY ZenonT(60), <1>1, <2>1 DEF Safe, TypeOK, vworld, vkernel, vseek, vlisted, N, InfoType, Infos
<1>9. Control'
  <2>1. ASSUME NEW h \in Readers PROVE CallOf(h)'
    <3>1. CASE h = g
      <4>1. pc'[h] = "read" /\ d'[h] = dirinfo' /\ dirinfo' # NoInfo /\ mu'[dirinfo'] = h
        BY Zenon, <1>1, <1>3, <1>7, <3>1, NoInfoApart
      <4> QED
        BY Zenon, <4>1 DEF CallOf
    <3>2. CASE h # g
      <4>1. pc[h] # "read"
        BY Zenon, <1>1, ReadersAssumption DEF Safe, Control, CallOf
      <4>2. CallOf(h) /\ pc'[h] = pc[h] /\ d'[h] = d[h] /\ dirinfo' = dirinfo
        BY Zenon, <1>1, <1>3, <1>7, <3>2 DEF Safe, Control
      <4>3. pc[h] = "cas" => info'[d[h]] = info[d[h]]
        BY Zenon, <1>7, <4>2 DEF CallOf
      <4> QED
        BY Zenon, <1>1, <4>1, <4>2, <4>3 DEF CallOf
    <3> QED
      BY Zenon, <3>1, <3>2
  <2>2. ASSUME NEW h \in Readers, NEW k \in Readers, pc'[h] = "cas", d'[k] = d'[h] PROVE k = h
    <3>1. pc[h] = "cas"
      <4>1. "cas" # "read"
        BY Zenon
      <4> QED
        BY Zenon, <1>7, <2>2, <4>1
    <3> QED
      BY Zenon, <1>3, <2>2, <3>1 DEF Safe, Control
  <2>3. ASSUME NEW k \in Infos, mu'[k] # None
        PROVE  k = dirinfo' /\ mu'[k] \in Readers /\ pc'[mu'[k]] = "read"
    BY Zenon, <1>1, <1>7, <2>3 DEF Safe, Control
  <2> QED
    BY Zenon, <1>1, <2>1, <2>2, <2>3 DEF Control, vseek
<1>10. Handles'
  <2>1. \A k \in Infos : /\ info'[k].ntHandle = k => k \in reopened
                         /\ info'[k].findOpen => k \in searches
    BY ZenonT(60), <1>6, <1>7 DEF Safe, Handles
  <2> QED
    BY Zenon, <1>1, <2>1 DEF Safe, Handles, vkernel, vseek
<1>11. Buffers'
  <2>1. info'[dirinfo'] = R
    BY Zenon, <1>1, <1>7
  <2>2. /\ r.next <= r.last => r.buf # 0 /\ r.reader # "Find"
        /\ closed => r.reader # "Find"
    BY Zenon, <1>1, NoInfoApart DEF Safe, Buffers
  <2> QED
    BY Zenon, <1>1, <1>4, <1>6, <2>1, <2>2 DEF Buffers, vseek
<1> QED
  BY Zenon, <1>8, <1>9, <1>10, <1>11 DEF Safe

\* Seek or Close takes the dirInfo off the file.
LEMMA SwapSafe ==
  ASSUME Safe, ~SeekRaces, NEW op \in {"seek", "close"}, Swap(op)
  PROVE  Safe'
<1>1. /\ ctl = "idle" /\ (\A g \in Readers : pc[g] = "idle") /\ closing = NoInfo
      /\ ctl' = op /\ closing' = dirinfo /\ dirinfo' = NoInfo
      /\ UNCHANGED <<vworld, info, mu, vkernel, pc, d, n, got, closed, calls, faults>>
      /\ NewInfo' = NewInfo
  BY Zenon DEF Swap, Safe, Control, vworld, NewInfo
<1>2. TypeOK'
  <2>1. seeks' \in 0..MaxSeeks
    BY BoundsAssumption DEF Swap, Safe, TypeOK
  <2>2. listed' \in Seq(1..N) /\ ended' \in BOOLEAN /\ gap' \in BOOLEAN
    <3>1. <<>> \in Seq(1..N)
      OBVIOUS
    <3> QED
      BY Zenon, <3>1 DEF Swap, vlisted, Safe, TypeOK
  <2>3. ctl' \in {"idle", "seek", "close"}
    BY Zenon, <1>1
  <2> QED
    BY ZenonT(60), <1>1, <2>1, <2>2, <2>3 DEF Safe, TypeOK, vworld, vkernel, N, InfoType, Infos
<1>3. Control'
  <2>1. ASSUME NEW g \in Readers PROVE CallOf(g)'
    <3>1. pc'[g] = "idle" /\ d'[g] = NoInfo
      BY Zenon, <1>1 DEF Safe, Control, CallOf
    <3> QED
      BY Zenon, <3>1 DEF CallOf
  <2>2. \A i \in Infos : mu'[i] = None
    <3>1. "idle" # "read"
      BY Zenon
    <3> QED
      BY Zenon, <1>1, <3>1 DEF Safe, Control
  <2>3. ctl' # "idle" /\ \A g \in Readers : pc'[g] # "cas"
    BY Zenon, <1>1
  <2> QED
    BY Zenon, <1>1, <2>1, <2>2, <2>3 DEF Control
<1>4. Handles'
  BY Zenon, <1>1 DEF Safe, Handles, vkernel
<1>5. Buffers'
  BY Zenon, <1>1 DEF Buffers
<1> QED
  BY Zenon, <1>2, <1>3, <1>4, <1>5 DEF Safe

\* It is closed.
LEMMA CloseInfoSafe ==
  ASSUME Safe, CloseInfo
  PROVE  Safe'
<1>1. /\ ctl # "idle" /\ dirinfo = NoInfo /\ (\A g \in Readers : pc[g] = "idle")
      /\ ctl' = "idle" /\ closing' = NoInfo /\ closed' = (closed \/ ctl = "close")
      /\ reopened' = reopened \ {closing} /\ searches' = searches \ {closing}
      /\ UNCHANGED <<vworld, dirinfo, mu, scan, pc, d, n, got, seeks, vlisted, calls, faults>>
      /\ NewInfo' = NewInfo
  BY Zenon DEF CloseInfo, Safe, Control, vworld, NewInfo
<1>2. ASSUME NEW i \in Infos
      PROVE  /\ info'[i] \in InfoType
             /\ i # closing => info'[i] = info[i]
             /\ i = closing => info'[i].ntHandle = NoHandle /\ info'[i].findOpen = FALSE
  <2> DEFINE R == [info[i] EXCEPT !.h = FALSE, !.buf = 0, !.ntHandle = NoHandle,
                     !.findOpen = FALSE, !.findPending = FALSE, !.findEOF = FALSE]
  <2>1. info[i] \in InfoType /\ info'[i] = IF i # closing THEN info[i] ELSE R
    BY Zenon DEF CloseInfo, Safe, TypeOK
  <2>2. R \in InfoType
    <3>1. 0 \in 0..MaxBuf /\ NoHandle \in {NoHandle, FileHandle} \cup Infos
      BY SizesAssumption
    <3> QED
      BY Zenon, <2>1, <3>1 DEF InfoType
  <2>3. R.ntHandle = NoHandle /\ R.findOpen = FALSE
    BY Zenon, <2>1 DEF InfoType
  <2> HIDE DEF R
  <2> QED
    BY Zenon, <2>1, <2>2, <2>3
<1>3. info' \in [Infos -> InfoType]
  <2>1. info' = [i \in Infos |-> info'[i]]
    BY Zenon DEF CloseInfo
  <2> QED
    BY Zenon, <1>2, <2>1
<1>4. TypeOK'
  BY ZenonT(60), <1>1, <1>3 DEF Safe, TypeOK, vworld, vlisted, N, InfoType, Infos
<1>5. Control'
  <2>1. ASSUME NEW g \in Readers PROVE CallOf(g)'
    <3>1. pc'[g] = "idle" /\ d'[g] = NoInfo
      BY Zenon, <1>1 DEF Safe, Control, CallOf
    <3> QED
      BY Zenon, <3>1 DEF CallOf
  <2>2. \A g \in Readers : pc'[g] # "cas"
    BY Zenon, <1>1
  <2> QED
    BY Zenon, <1>1, <2>1, <2>2 DEF Safe, Control
<1>6. Handles'
  <2>1. reopened' \cup searches' = {}
    <3>1. reopened \subseteq Infos /\ searches \subseteq Infos /\ reopened \cup searches \subseteq {NoInfo, closing}
      BY Zenon, <1>1 DEF Safe, Handles, TypeOK
    <3> QED
      BY Zenon, <1>1, <3>1, NoInfoApart
  <2>2. ASSUME NEW i \in Infos
        PROVE  (info'[i].ntHandle = i => i \in reopened') /\ (info'[i].findOpen => i \in searches')
    BY Zenon, <1>1, <1>2, <2>2, NoInfoApart DEF Safe, Handles
  <2> QED
    BY Zenon, <2>1, <2>2 DEF Handles
<1>7. Buffers'
  BY Zenon, <1>1 DEF Buffers
<1> QED
  BY Zenon, <1>4, <1>5, <1>6, <1>7 DEF Safe

----------------------------------------------------------------------------

\* Safe holds before the first call.
LEMMA InitSafe ==
  ASSUME Init
  PROVE  Safe
<1>1. N \in Nat
  BY InputsAssumption DEF Init, N
<1>2. fs.class \in {"FullRestart", "Full", "IdBothRestart", "IdBoth"}
  BY Zenon, FileSystemsAssumption DEF Init, FSType
<1>3. NewInfo \in InfoType /\ NewInfo.ntHandle = NoHandle /\ NewInfo.findOpen = FALSE
  <2>1. NewInfo \in InfoType
    BY <1>1, <1>2, SizesAssumption DEF NewInfo, InfoType
  <2> QED
    BY Zenon, <2>1 DEF NewInfo
<1>4. TypeOK
  <2>1. <<>> \in Seq(1..N) /\ 0 \in Int /\ Restart \in Restart..N
        /\ 0 \in 0..MaxCalls /\ 0 \in 0..MaxSeeks /\ 0 \in 0..MaxFaults
    BY <1>1, BoundsAssumption DEF Restart
  <2> QED
    BY Zenon, <1>3, <2>1 DEF Init, TypeOK
<1>5. Control
  BY Zenon DEF Init, Control, CallOf
<1>6. Handles
  BY Zenon, <1>3, NoInfoApart DEF Init, Handles
<1>7. Buffers
  BY Zenon DEF Init, Buffers
<1> QED
  BY Zenon, <1>4, <1>5, <1>6, <1>7 DEF Safe

----------------------------------------------------------------------------

\* Appending the entry that comes next extends a run.
LEMMA RunAppend ==
  ASSUME N \in Nat, NEW b \in BOOLEAN, NEW s \in Seq(1..N), NEW t \in Seq(1..N),
         NEW p \in 0..N, NEW e \in 1..N, Run(s \o t, p, b), p < e, ~b => e = p + 1
  PROVE  Run(s \o Append(t, e), e, b)
<1> DEFINE old == s \o t
           new == s \o Append(t, e)
           m == Len(s) + Len(t)
<1>1. m \in Nat /\ Len(old) = m /\ Len(new) = m + 1 /\ new[m + 1] = e
      /\ \A k \in 1..m : new[k] = old[k] /\ old[k] \in 1..N
  <2>1. Len(s) \in Nat /\ Len(t) \in Nat /\ Append(t, e) \in Seq(1..N) /\ Len(Append(t, e)) = Len(t) + 1
        /\ Append(t, e)[Len(t) + 1] = e /\ \A k \in 1..Len(t) : Append(t, e)[k] = t[k]
    OBVIOUS
  <2>2. m \in Nat /\ Len(old) = m /\ Len(new) = m + 1
    BY <2>1
  <2>3. new[m + 1] = e
    BY <2>1
  <2>4. ASSUME NEW k \in 1..m PROVE new[k] = old[k] /\ old[k] \in 1..N
    <3>1. CASE k <= Len(s)
      BY <2>1, <3>1
    <3>2. CASE k > Len(s)
      <4>1. k - Len(s) \in 1..Len(t)
        BY <2>1, <3>2
      <4>2. new[k] = Append(t, e)[k - Len(s)] /\ old[k] = t[k - Len(s)]
        BY <2>1, <3>2, <4>1
      <4>3. Append(t, e)[k - Len(s)] = t[k - Len(s)] /\ t[k - Len(s)] \in 1..N
        <5>1. Append(t, e)[k - Len(s)] = t[k - Len(s)]
          BY Zenon, <2>1, <4>1
        <5>2. t[k - Len(s)] \in 1..N
          BY <4>1
        <5> QED
          BY Zenon, <5>1, <5>2
      <4> QED
        BY Zenon, <4>2, <4>3
    <3>3. k <= Len(s) \/ k > Len(s)
      BY <2>1
    <3> QED
      BY Zenon, <3>1, <3>2, <3>3
  <2> QED
    BY Zenon, <2>2, <2>3, <2>4
<1> HIDE DEF old, new, m
<1>2. /\ \A k \in 1..m : old[k] <= p /\ (~b => old[k] = k)
      /\ \A k \in 1..m - 1 : old[k] < old[k + 1]
      /\ ~b => m = p
  BY Zenon, <1>1 DEF Run, old
<1>3. ASSUME NEW k \in 1..Len(new) PROVE new[k] <= e /\ (~b => new[k] = k)
  <2>1. CASE k = m + 1
    BY <1>1, <1>2, <2>1
  <2>2. CASE k \in 1..m
    BY <1>1, <1>2, <2>2
  <2> QED
    BY <1>1, <2>1, <2>2
<1>4. ASSUME NEW k \in 1..Len(new) - 1 PROVE new[k] < new[k + 1]
  <2>1. CASE k = m
    <3>1. k \in 1..m /\ k + 1 = m + 1
      BY <1>1, <2>1
    <3>2. new[k] \in 1..N /\ new[k] <= p /\ new[k + 1] = e
      BY Zenon, <1>1, <1>2, <3>1
    <3> QED
      BY <3>2
  <2>2. CASE k # m
    <3>1. k \in 1..m - 1 /\ k \in 1..m /\ k + 1 \in 1..m
      BY <1>1, <2>2
    <3> QED
      BY Zenon, <1>1, <1>2, <3>1
  <2> QED
    BY Zenon, <2>1, <2>2
<1>5. (~b => Len(new) = e) /\ e \in 0..N
  BY <1>1, <1>2
<1> QED
  BY Zenon, <1>3, <1>4, <1>5 DEF Run, new

\* A run up to p is, with entries passed over, one up to any later place.
LEMMA RunOn ==
  ASSUME N \in Nat, NEW b \in BOOLEAN, NEW out \in Seq(1..N), NEW p \in 0..N, NEW q \in 0..N,
         Run(out, p, b), p <= q
  PROVE  Run(out, q, TRUE)
<1>1. \A k \in 1..Len(out) : out[k] <= q
  <2> SUFFICES ASSUME NEW k \in 1..Len(out) PROVE out[k] <= q
    BY Zenon
  <2>1. out[k] \in 1..N /\ out[k] <= p
    BY DEF Run
  <2> QED
    BY <2>1
<1> QED
  BY Zenon, <1>1 DEF Run

\* Nothing listed is the run before the first entry.
LEMMA RunEmpty ==
  ASSUME N \in Nat, NEW b \in BOOLEAN
  PROVE  Run(<<>>, 0, b)
BY DEF Run

\* A run before the first entry has nothing in it.
LEMMA RunRewound ==
  ASSUME N \in Nat, NEW s \in Seq(1..N), NEW t \in Seq(1..N), Run(s \o t, 0, FALSE)
  PROVE  s = <<>> /\ t = <<>>
<1>1. Len(s \o t) = 0 /\ Len(s \o t) = Len(s) + Len(t) /\ Len(s) \in Nat /\ Len(t) \in Nat
  BY DEF Run
<1>2. Len(s) = 0 /\ Len(t) = 0
  BY <1>1
<1> QED
  BY <1>2

\* Appending no entries changes nothing.
LEMMA ConcatEmpty ==
  ASSUME NEW S, NEW s \in Seq(S)
  PROVE  s \o <<>> = s
OBVIOUS

\* Good of the next state, from the values it reads there.
LEMMA GoodStill ==
  ASSUME UNCHANGED <<fs, sizes, dirinfo>>, NEW R, NEW out, info'[dirinfo] = R, Out' = out,
         Good(R, scan', gap', out)
  PROVE  Good(info[dirinfo], scan, gap, Out)'
<1>1. N' = N
  BY Zenon DEF N
<1> QED
  BY ZenonT(60), <1>1 DEF Good, GoodInfoEx, GoodNt, GoodFind, Run, Found, Before, Prev

\* However far a reader has come, what it listed is a run.
LEMMA GoodRun ==
  ASSUME NEW r \in InfoType, NEW sc, NEW b, NEW out, Good(r, sc, b, out)
  PROVE  \E p \in 0..N : Run(out, p, b)
<1>1. r.reader \in {"InfoEx", "NtQuery", "Find"}
  BY Zenon DEF InfoType
<1>2. \A p : Run(out, p, b) => p \in 0..N
  BY Zenon DEF Run
<1> QED
  BY Zenon, <1>1, <1>2 DEF Good, GoodInfoEx, GoodNt, GoodFind

\* What is listed keeps the order and, at the end, is everything.
LEMMA ListedProps ==
  ASSUME Safe, Listing, UNCHANGED sizes, gap \in BOOLEAN, gap' \in BOOLEAN, gap => gap',
         NEW t \in Seq(1..N), listed' = listed \o t,
         NEW p \in 0..N, Run(listed \o t, p, gap'),
         ended' => ended \/ gap' \/ Len(listed \o t) = N
  PROVE  (EachOnceInOrder /\ EndIsTheEnd)'
<1>1. N' = N /\ N \in Nat
  BY Zenon, NIsNat DEF N
<1>2. EachOnceInOrder'
  BY Zenon DEF EachOnceInOrder, Run
<1>3. EndIsTheEnd'
  <2>1. listed \in Seq(1..N) /\ Len(listed) \in Nat /\ Len(t) \in Nat
        /\ Len(listed \o t) = Len(listed) + Len(t)
    BY DEF Safe, TypeOK
  <2>2. ~gap' => Len(listed \o t) = p
    BY Zenon DEF Run
  <2>3. ended => Len(listed) = N \/ gap
    BY Zenon DEF Listing, EndIsTheEnd
  <2> QED
    BY <1>1, <2>1, <2>2, <2>3 DEF EndIsTheEnd
<1> QED
  BY Zenon, <1>2, <1>3

\* A call that returns keeps Listing when its dirInfo is Good and, should it
\* report the end, everything is listed.
LEMMA ReturnListing ==
  ASSUME Safe, Listing, ~closed, NEW g \in Readers, pc[g] = "read", NEW R \in InfoType,
         NEW failed \in BOOLEAN, Return(g, failed), info' = [info EXCEPT ![dirinfo] = R],
         UNCHANGED <<fs, sizes, dirinfo, vseek>>, gap' \in BOOLEAN, gap => gap',
         Good(R, scan', gap', listed \o got[g]),
         failed = FALSE /\ (n[g] < 0 \/ got[g] = <<>>) => gap' \/ Len(listed \o got[g]) = N
  PROVE  Listing'
<1>1. /\ dirinfo \in Infos /\ mu[dirinfo] = g /\ gap \in BOOLEAN /\ got[g] \in Seq(1..N)
      /\ info'[dirinfo] = R /\ mu'[dirinfo] = None
      /\ UNCHANGED <<closed, ctl>>
  BY ZenonT(60), ReadingFacts, NoInfoApart DEF Safe, Control, CallOf, TypeOK, Return, vseek
<1>2. Out' = listed \o got[g]
  BY Zenon, <1>1 DEF Out, Return
<1>3. Good(info[dirinfo], scan, gap, Out)'
  BY Zenon, <1>1, <1>2, GoodStill
<1>4. (EachOnceInOrder /\ EndIsTheEnd)'
  <2>1. PICK p \in 0..N : Run(listed \o got[g], p, gap')
    BY Zenon, GoodRun
  <2>2. listed' = listed \o got[g] /\ (ended' => ended \/ gap' \/ Len(listed \o got[g]) = N)
    <3>1. failed = TRUE \/ failed = FALSE
      BY Zenon
    <3> QED
      BY Zenon, <3>1 DEF Return
  <2> QED
    BY Zenon, <1>1, <2>1, <2>2, ListedProps
<1>5. ASSUME NEW h \in Readers PROVE Wanted(h)'
  <2>1. CASE h = g
    <3>1. pc'[h] = "idle" /\ got'[h] = <<>>
      BY Zenon, <2>1 DEF Return, Safe, TypeOK
    <3> QED
      BY Zenon, <3>1 DEF Wanted
  <2>2. CASE h # g
    <3>1. pc'[h] = pc[h] /\ got'[h] = got[h] /\ n'[h] = n[h]
      BY Zenon, <2>2 DEF Return, Safe, TypeOK
    <3> QED
      BY Zenon, <3>1 DEF Wanted, Listing
  <2> QED
    BY Zenon, <2>1, <2>2
<1> QED
  BY ZenonT(60), <1>1, <1>3, <1>4, <1>5, NoInfoApart DEF Listing

\* A call that goes on keeps Listing when its dirInfo is Good for what it has.
LEMMA GoesOnListing ==
  ASSUME Safe, Listing, ~closed, NEW g \in Readers, pc[g] = "read", NEW R \in InfoType,
         info' = [info EXCEPT ![dirinfo] = R], UNCHANGED <<pc, d, mu, listed, ended, gap>>,
         UNCHANGED <<fs, sizes, dirinfo, vseek>>,
         NEW t, got' = [got EXCEPT ![g] = t], NEW m, n' = [n EXCEPT ![g] = m],
         m = 0 => t # <<>>, Good(R, scan', gap, listed \o t)
  PROVE  Listing'
<1>1. /\ dirinfo \in Infos /\ mu[dirinfo] = g /\ g # None
      /\ info'[dirinfo] = R
      /\ UNCHANGED <<closed, ctl>>
  BY ZenonT(60), ReadingFacts, NoInfoApart, ReadersAssumption DEF Safe, Control, CallOf, TypeOK, vseek
<1>2. \A h \in Readers : /\ got'[h] = IF h = g THEN t ELSE got[h]
                         /\ n'[h] = IF h = g THEN m ELSE n[h]
  BY Zenon DEF Safe, TypeOK
<1>3. Out' = listed \o t
  BY Zenon, <1>1, <1>2 DEF Out
<1>4. Good(info[dirinfo], scan, gap, Out)'
  BY Zenon, <1>1, <1>3, GoodStill
<1>5. (EachOnceInOrder /\ EndIsTheEnd)'
  BY Zenon DEF Listing, EachOnceInOrder, EndIsTheEnd, N
<1>6. ASSUME NEW h \in Readers PROVE Wanted(h)'
  BY ZenonT(60), <1>2 DEF Wanted, Listing
<1> QED
  BY ZenonT(60), <1>1, <1>4, <1>5, <1>6, NoInfoApart DEF Listing

\* After Close a call lists nothing and reports no end.
LEMMA ShutListing ==
  ASSUME Safe, Listing, closed, NEW g \in Readers, pc[g] = "read", NEW R \in InfoType,
         info' = [info EXCEPT ![dirinfo] = R], R.next > R.last, ~R.ntEOF,
         UNCHANGED <<fs, sizes, dirinfo, vseek>>, gap' \in BOOLEAN, gap => gap',
         \/ Return(g, TRUE)
         \/ got' = [got EXCEPT ![g] = <<>>] /\ UNCHANGED <<pc, d, n, mu, listed, ended>>
  PROVE  Listing'
<1>1. /\ dirinfo \in Infos /\ got[g] = <<>> /\ info'[dirinfo] = R /\ UNCHANGED <<closed, ctl>>
      /\ n[g] # 0 /\ listed \in Seq(1..N)
  BY ZenonT(60), ReadingFacts, NoInfoApart DEF Safe, TypeOK, Listing, Wanted, vseek
<1>2. listed' = listed /\ (ended' => ended)
  <2>1. CASE Return(g, TRUE)
    <3>1. listed' = listed \o <<>>
      BY Zenon, <1>1, <2>1 DEF Return
    <3>2. ended' => ended
      BY Zenon, <2>1 DEF Return
    <3> QED
      BY Zenon, <1>1, <3>1, <3>2, ConcatEmpty
  <2>2. CASE UNCHANGED <<listed, ended>>
    BY Zenon, <2>2
  <2> QED
    BY Zenon, <2>1, <2>2
<1>3. (EachOnceInOrder /\ EndIsTheEnd)'
  BY Zenon, <1>2 DEF Listing, EachOnceInOrder, EndIsTheEnd, N
<1>4. ASSUME NEW h \in Readers PROVE got'[h] = <<>> /\ Wanted(h)'
  <2>1. CASE h = g
    BY Zenon, <1>1, <2>1 DEF Return, Safe, TypeOK, Wanted
  <2>2. CASE h # g
    <3>1. pc'[h] = pc[h] /\ got'[h] = got[h] /\ n'[h] = n[h]
      BY Zenon, <2>2 DEF Return, Safe, TypeOK
    <3> QED
      BY Zenon, <1>1, <3>1, NoInfoApart DEF Wanted, Listing
  <2> QED
    BY Zenon, <2>1, <2>2
<1> QED
  BY Zenon, <1>1, <1>3, <1>4 DEF Listing

\* For the call that has the lock, the dirInfo is Good for what was listed and
\* what it has itself.
LEMMA ListingGood ==
  ASSUME Safe, Listing, NEW g \in Readers, pc[g] = "read", ~closed
  PROVE  Good(info[dirinfo], scan, gap, listed \o got[g]) /\ listed \o got[g] \in Seq(1..N)
<1>1. dirinfo # NoInfo /\ mu[dirinfo] = g /\ g # None /\ listed \in Seq(1..N) /\ got[g] \in Seq(1..N)
  BY ZenonT(60), ReadingFacts, ReadersAssumption DEF Safe, Control, CallOf, TypeOK
<1>2. Out = listed \o got[g]
  BY Zenon, <1>1 DEF Out
<1>3. listed \o got[g] \in Seq(1..N)
  BY <1>1
<1> QED
  BY ZenonT(60), <1>1, <1>2, <1>3 DEF Listing

\* Taking entry e off the buffer: the reader was before e and now is at e.
LEMMA BufferMoves ==
  ASSUME N \in Nat, NEW r \in InfoType, NEW R \in InfoType, r.next <= r.last,
         R.next = IF r.next = r.last THEN 1 ELSE r.next + 1,
         R.last = IF r.next = r.last THEN 0 ELSE r.last
  PROVE  /\ Before(r, r.last) = Prev(r.next) /\ Before(R, r.last) = r.next
         /\ R.next <= R.last => R.last = r.last
         /\ r.next \in 0..N /\ r.last \in 0..N /\ (r.next # 0 => r.next \in 1..N)
         /\ Prev(r.next) \in 0..N /\ (r.next # 0 => Prev(r.next) < r.next /\ r.next = Prev(r.next) + 1)
         /\ (r.next = 0 => Prev(r.next) = 0)
<1>1. r.next \in 0..N + 1 /\ r.last \in 0..N
  BY Zenon DEF InfoType
<1> QED
  BY <1>1 DEF Before, Prev

\* Taking an entry from the buffer keeps Listing: readDirNtQuery drops it
\* exactly when it was listed before the scan was started again.
LEMMA DrainListing ==
  ASSUME Safe, Listing, NEW g \in Readers, Drain(g)
  PROVE  Listing'
<1> DEFINE r == info[dirinfo]
           e == r.next
           again == r.reader = "NtQuery" /\ r.ntSeen < r.ntPos
           t == IF e = 0 \/ again THEN got[g] ELSE Append(got[g], e)
           m == IF e = 0 \/ again THEN n[g] ELSE IF n[g] < 0 THEN n[g] ELSE n[g] - 1
<1>1. PICK R \in InfoType :
         /\ info' = [info EXCEPT ![dirinfo] = R]
         /\ R.next = IF e = r.last THEN 1 ELSE e + 1
         /\ R.last = IF e = r.last THEN 0 ELSE r.last
         /\ R.ntSeen = IF r.reader = "NtQuery" /\ e > 0 THEN r.ntSeen + 1 ELSE r.ntSeen
         /\ R.ntPos = IF r.reader = "NtQuery" /\ e > 0 /\ ~again THEN r.ntPos + 1 ELSE r.ntPos
         /\ R.buf = r.buf /\ R.class = r.class /\ R.reader = r.reader /\ R.ntHandle = r.ntHandle
         /\ R.ntStarted = r.ntStarted /\ R.ntEOF = r.ntEOF
         /\ R.findOpen = r.findOpen /\ R.findEOF = r.findEOF
  BY Zenon, DrainShape
<1>2. /\ pc[g] = "read" /\ n[g] # 0 /\ r \in InfoType /\ N \in Nat /\ e <= r.last
      /\ UNCHANGED <<pc, d, mu, listed, ended>> /\ r.reader # "Find"
      /\ UNCHANGED <<vworld, dirinfo, vkernel, vseek, gap, calls, faults>>
      /\ IF e = 0 \/ again THEN UNCHANGED <<n, got>>
         ELSE /\ got' = [got EXCEPT ![g] = Append(got[g], e)]
              /\ n' = [n EXCEPT ![g] = IF n[g] < 0 THEN n[g] ELSE n[g] - 1]
  BY Zenon, DrainShape
<1>3. dirinfo # NoInfo /\ d[g] = dirinfo /\ got[g] \in Seq(1..N) /\ listed \in Seq(1..N) /\ n[g] \in Int
      /\ dirinfo \in Infos /\ gap \in BOOLEAN
  BY ZenonT(60), <1>2, ReadingFacts, NoInfoApart DEF Safe, TypeOK
<1>4. ~closed
  <2>1. closed => r.next > r.last
    BY Zenon, <1>3 DEF Listing
  <2>2. r.next \in Int /\ r.last \in Int
    BY <1>2 DEF InfoType
  <2> QED
    BY <1>2, <2>1, <2>2
<1>5. got' = [got EXCEPT ![g] = t] /\ n' = [n EXCEPT ![g] = m]
  <2>1. got = [got EXCEPT ![g] = got[g]] /\ n = [n EXCEPT ![g] = n[g]]
    BY Zenon DEF Safe, TypeOK
  <2> QED
    BY Zenon, <1>2, <2>1
<1>6. m = 0 => t # <<>>
  <2>1. CASE e = 0 \/ again
    BY Zenon, <1>2, <2>1
  <2>2. CASE ~(e = 0 \/ again)
    <3>1. Append(got[g], e) # <<>>
      BY <1>3
    <3> QED
      BY Zenon, <2>2, <3>1
  <2> QED
    BY Zenon, <2>1, <2>2
<1>7. Good(r, scan, gap, listed \o got[g])
  BY Zenon, <1>2, <1>4, ListingGood
<1>8. CASE r.reader = "InfoEx"
  <2> DEFINE at == scan[FileHandle]
  <2>1. /\ GoodInfoEx(r, at, gap, listed \o got[g]) /\ ~again
    BY Zenon, <1>7, <1>8 DEF Good
  <2>2. ~Restarts(r.class) /\ r.last = at /\ Run(listed \o got[g], Before(r, at), gap)
    <3>1. ~ (r.next > r.last)
      BY Zenon, <1>2, BufferOrder
    <3> QED
      BY Zenon, <1>2, <2>1, <3>1 DEF GoodInfoEx
  <2>3. Before(r, at) = Prev(e) /\ Before(R, at) = e /\ (R.next <= R.last => R.last = at)
    BY ZenonT(60), <1>1, <1>2, <2>2, BufferMoves
  <2>4. Run(listed \o t, e, gap)
    <3>1. CASE e = 0
      BY Zenon, <1>1, <1>2, <2>2, <2>3, <3>1, BufferMoves
    <3>2. CASE e # 0
      <4>1. e \in 1..N /\ Prev(e) \in 0..N /\ Prev(e) < e /\ e = Prev(e) + 1
        BY ZenonT(60), <1>1, <1>2, <3>2, BufferMoves
      <4>2. t = Append(got[g], e)
        BY Zenon, <2>1, <3>2
      <4> HIDE DEF t, again, e
      <4> QED
        BY Zenon, <1>2, <1>3, <2>2, <2>3, <4>1, <4>2, RunAppend
    <3> QED
      BY Zenon, <3>1, <3>2
  <2>5. R.ntPos = r.ntPos /\ R.ntSeen = r.ntSeen
    BY Zenon, <1>1, <1>8
  <2>6. GoodInfoEx(R, at, gap, listed \o t)
    BY Zenon, <1>1, <2>1, <2>2, <2>3, <2>4, <2>5 DEF GoodInfoEx
  <2>7. Good(R, scan', gap, listed \o t)
    <3>1. R.reader = "InfoEx" /\ R.reader # "NtQuery" /\ R.reader # "Find"
      BY ZenonT(60), <1>1, <1>8
    <3> QED
      BY Zenon, <1>2, <2>6, <3>1 DEF Good, vkernel
  <2> HIDE DEF t, m
  <2> QED
    BY Zenon, <1>1, <1>2, <1>4, <1>5, <1>6, <2>7, GoesOnListing DEF vworld
<1>9. CASE r.reader = "NtQuery"
  <2> DEFINE at == scan[r.ntHandle]
  <2>1. /\ GoodNt(r, at, gap, listed \o got[g]) /\ R.ntHandle = r.ntHandle
    BY Zenon, <1>1, <1>7, <1>9 DEF Good
  <2>2. r.last = at /\ ~r.ntEOF /\ r.ntStarted
    <3>1. ~ (r.next > r.last)
      BY Zenon, <1>2, BufferOrder
    <3> QED
      BY ZenonT(60), <1>2, <2>1, <3>1 DEF GoodNt
  <2>3. Before(r, at) = Prev(e) /\ Before(R, at) = e /\ (R.next <= R.last => R.last = at)
        /\ e \in 0..N /\ (e # 0 => e \in 1..N) /\ Prev(e) \in 0..N
        /\ (e # 0 => Prev(e) < e /\ e = Prev(e) + 1) /\ (e = 0 => Prev(e) = 0)
    <3>1. Before(r, at) = Prev(e) /\ Before(R, at) = e /\ (R.next <= R.last => R.last = at)
      <4>1. Before(r, r.last) = Prev(e) /\ Before(R, r.last) = e /\ (R.next <= R.last => R.last = r.last)
        BY ZenonT(60), <1>1, <1>2, BufferMoves
      <4> HIDE DEF at, e
      <4> QED
        BY Zenon, <2>2, <4>1
    <3>2. e \in 0..N /\ (e # 0 => e \in 1..N) /\ Prev(e) \in 0..N
          /\ (e # 0 => Prev(e) < e /\ e = Prev(e) + 1) /\ (e = 0 => Prev(e) = 0)
      <4>1. r.next \in 0..N + 1 /\ r.last \in 0..N
        BY Zenon, <1>2, InfoFields
      <4> QED
        BY <1>2, <4>1 DEF Prev
    <3> QED
      BY Zenon, <3>1, <3>2
  <2>4. r.ntSeen \in Nat /\ r.ntPos \in Nat /\ r.ntSeen <= r.ntPos /\ r.last \in 0..N /\ r.buf \in Nat
    BY Zenon, <1>2, <2>1, InfoFields DEF GoodNt
  <2>5. /\ gap => r.ntSeen = r.ntPos /\ Run(listed \o got[g], Prev(e), gap) /\ 2 * r.buf > MaxBuf
        /\ ~gap => /\ r.ntSeen = Prev(e) /\ Run(listed \o got[g], r.ntPos, gap)
                   /\ (\A k \in 1..r.ntPos : sizes[k] <= r.buf)
                   /\ (\A k \in 1..r.last : sizes[k] <= r.buf)
    BY ZenonT(60), <1>2, <2>1, <2>2, <2>3 DEF GoodNt
  <2>6. /\ R.ntSeen = IF e > 0 THEN r.ntSeen + 1 ELSE r.ntSeen
        /\ R.ntPos = IF e > 0 /\ ~(r.ntSeen < r.ntPos) THEN r.ntPos + 1 ELSE r.ntPos
        /\ t = IF e = 0 \/ r.ntSeen < r.ntPos THEN got[g] ELSE Append(got[g], e)
    BY Zenon, <1>1, <1>9
  <2>7. R.ntSeen <= R.ntPos /\ (gap => R.ntSeen = R.ntPos) /\ (~gap => R.ntSeen = e)
    <3>1. CASE gap
      <4>1. r.ntSeen = r.ntPos
        BY ZenonT(60), <2>5, <3>1
      <4>2. R.ntSeen = R.ntPos /\ R.ntSeen <= R.ntPos
        BY <2>3, <2>4, <2>6, <4>1
      <4> QED
        BY Zenon, <3>1, <4>2
    <3>2. CASE ~gap
      <4>1. r.ntSeen = Prev(e)
        BY ZenonT(60), <2>5, <3>2
      <4>2. R.ntSeen = e /\ R.ntSeen <= R.ntPos
        BY <2>3, <2>4, <2>6, <4>1
      <4> QED
        BY Zenon, <3>2, <4>2
    <3> QED
      BY Zenon, <3>1, <3>2
  <2>8. ~gap => \A k \in 1..R.ntPos : sizes[k] <= r.buf
    <3> SUFFICES ASSUME ~gap, NEW k \in 1..R.ntPos PROVE sizes[k] <= r.buf
      BY ZenonT(60)
    <3>1. k \in 1..r.ntPos \/ k \in 1..r.last
      BY SMTT(30), <1>2, <2>3, <2>4, <2>5, <2>6
    <3> QED
      BY Zenon, <2>5, <3>1
  <2>9. Run(listed \o t, IF gap THEN e ELSE R.ntPos, gap)
    <3>1. CASE e = 0 \/ r.ntSeen < r.ntPos
      <4>1. t = got[g] /\ R.ntPos = r.ntPos /\ (gap => e = 0 /\ Prev(e) = e)
        <5>1. gap => r.ntSeen = r.ntPos
          BY Zenon, <2>5
        <5>2. gap => ~(r.ntSeen < r.ntPos)
          BY ZenonT(60), <2>4, <5>1, NotLess
        <5>3. ~(e > 0 /\ ~(r.ntSeen < r.ntPos))
          BY <2>3, <3>1
        <5>4. t = got[g] /\ R.ntPos = r.ntPos
          BY Zenon, <2>6, <3>1, <5>3
        <5> QED
          BY Zenon, <2>3, <3>1, <5>2, <5>4
      <4> QED
        BY Zenon, <2>5, <4>1
    <3>2. CASE ~(e = 0 \/ r.ntSeen < r.ntPos)
      <4>1. e \in 1..N /\ Prev(e) \in 0..N /\ Prev(e) < e /\ e = Prev(e) + 1
        BY Zenon, <2>3, <3>2
      <4>2. t = Append(got[g], e) /\ (~gap => R.ntPos = e /\ r.ntPos = Prev(e))
        <5>1. ~gap => r.ntSeen = Prev(e)
          BY ZenonT(60), <2>5
        <5>2. ~gap => r.ntPos = Prev(e)
          BY <2>4, <3>2, <4>1, <5>1
        <5>3. e > 0
          BY <4>1
        <5>4. t = Append(got[g], e) /\ R.ntPos = r.ntPos + 1
          BY Zenon, <2>6, <3>2, <5>3
        <5> QED
          BY Zenon, <4>1, <5>2, <5>4
      <4>3. Run(listed \o got[g], Prev(e), gap)
        BY Zenon, <2>5, <4>2
      <4> HIDE DEF t, again, e
      <4>4. Run(listed \o t, e, gap)
        BY Zenon, <1>2, <1>3, <4>1, <4>2, <4>3, RunAppend
      <4> QED
        BY Zenon, <4>2, <4>4
    <3> QED
      BY Zenon, <3>1, <3>2
  <2>10. GoodNt(R, at, gap, listed \o t)
    <3>1. R.next <= R.last => \A k \in 1..R.last : ~gap => sizes[k] <= R.buf
      BY Zenon, <1>1, <2>2, <2>3, <2>5
    <3>2. ~R.findOpen /\ ~R.findEOF /\ R.ntHandle # NoHandle /\ R.ntStarted /\ ~R.ntEOF /\ at >= 0
      BY Zenon, <1>1, <2>1, <2>2 DEF GoodNt
    <3>3. gap => R.ntSeen = R.ntPos /\ 2 * R.buf > MaxBuf
      BY Zenon, <1>1, <2>5, <2>7
    <3> HIDE DEF t, e, again
    <3> QED
      BY ZenonT(60), <1>1, <2>3, <2>7, <2>8, <2>9, <3>1, <3>2, <3>3 DEF GoodNt
  <2>11. Good(R, scan', gap, listed \o t)
    <3>1. R.reader # "InfoEx" /\ R.reader = "NtQuery" /\ R.reader # "Find"
      BY Zenon, <1>1, <1>9
    <3> QED
      BY Zenon, <1>2, <2>1, <2>10, <3>1 DEF Good, vkernel
  <2> HIDE DEF t, m
  <2> QED
    BY Zenon, <1>1, <1>2, <1>4, <1>5, <1>6, <2>11, GoesOnListing DEF vworld
<1> QED
  BY Zenon, <1>2, <1>8, <1>9 DEF InfoType

\* A call ends and leaves its dirInfo alone.
LEMMA LeavesListing ==
  ASSUME Safe, Listing, NEW g \in Readers, pc[g] = "read", NEW failed \in BOOLEAN, Return(g, failed),
         UNCHANGED <<fs, sizes, dirinfo, info, vseek>>, gap' \in BOOLEAN, gap => gap',
         closed => failed = TRUE,
         ~closed => Good(info[dirinfo], scan', gap', listed \o got[g]),
         ~closed /\ failed = FALSE /\ (n[g] < 0 \/ got[g] = <<>>) => gap' \/ Len(listed \o got[g]) = N
  PROVE  Listing'
<1>1. dirinfo \in Infos /\ info[dirinfo] \in InfoType
  BY Zenon, ReadingFacts
<1>2. info' = [info EXCEPT ![dirinfo] = info[dirinfo]]
  BY Zenon, <1>1 DEF Safe, TypeOK
<1>3. CASE closed
  <2>1. info[dirinfo].next > info[dirinfo].last /\ ~info[dirinfo].ntEOF /\ failed = TRUE
    BY Zenon, <1>1, <1>3, NoInfoApart DEF Listing
  <2> QED
    BY Zenon, <1>1, <1>2, <1>3, <2>1, ShutListing
<1>4. CASE ~closed
  BY Zenon, <1>1, <1>2, <1>4, ReturnListing
<1> QED
  BY Zenon, <1>3, <1>4

\* The returns at the end of a listing, and with enough entries, keep Listing.
LEMMA FinishedListing ==
  ASSUME Safe, Listing, NEW g \in Readers, Enough(g) \/ NtFinished(g) \/ FindFinished(g)
  PROVE  Listing'
<1> DEFINE r == info[dirinfo]
           out == listed \o got[g]
<1>1. /\ pc[g] = "read" /\ Return(g, FALSE) /\ d[g] = dirinfo /\ dirinfo \in Infos /\ dirinfo # NoInfo
      /\ UNCHANGED <<vworld, dirinfo, info, vkernel, vseek, gap, calls, faults>> /\ gap \in BOOLEAN
  BY Zenon, ReadingFacts, NoInfoApart DEF Enough, NtFinished, FindFinished, Refills, Safe, TypeOK
<1>2. n[g] = 0 => got[g] # <<>> /\ ~(n[g] < 0)
  <2>1. n[g] = 0 => got[g] # <<>>
    BY Zenon, <1>1 DEF Listing, Wanted
  <2>2. n[g] = 0 => ~(n[g] < 0)
    OBVIOUS
  <2> QED
    BY Zenon, <2>1, <2>2
<1>3. \/ n[g] = 0
      \/ r.reader = "NtQuery" /\ r.ntEOF
      \/ r.reader = "Find" /\ r.findEOF
  BY Zenon, <1>1 DEF Enough, NtFinished, FindFinished, Refills
<1>4. ~closed
  BY Zenon, <1>1, <1>2, <1>3 DEF Listing, Safe, Buffers
<1>5. Good(r, scan, gap, out)
  BY Zenon, <1>1, <1>4, ListingGood
<1>6. n[g] < 0 \/ got[g] = <<>> => gap \/ Len(out) = N
  <2>1. CASE n[g] = 0
    BY Zenon, <1>2, <2>1
  <2>2. CASE r.reader = "NtQuery" /\ r.ntEOF
    <3>1. GoodNt(r, scan[r.ntHandle], gap, out)
      BY Zenon, <1>5, <2>2 DEF Good
    <3>2. CASE ~gap
      <4>1. r.ntPos = N /\ Run(out, r.ntPos, gap)
        BY Zenon, <2>2, <3>1, <3>2 DEF GoodNt
      <4> QED
        BY Zenon, <3>2, <4>1 DEF Run
    <3> QED
      BY Zenon, <3>2
  <2>3. CASE r.reader = "Find" /\ r.findEOF
    <3>1. Found(r) = N /\ Run(out, Found(r), gap)
      BY Zenon, <1>5, <2>3 DEF Good, GoodFind
    <3> QED
      BY Zenon, <3>1 DEF Run
  <2> QED
    BY Zenon, <1>3, <2>1, <2>2, <2>3
<1>7. scan' = scan /\ gap' = gap /\ gap' \in BOOLEAN /\ (gap => gap') /\ UNCHANGED <<fs, sizes, dirinfo, info, vseek>>
  BY Zenon, <1>1 DEF vkernel, vworld
<1> HIDE DEF out
<1> QED
  BY Zenon, <1>1, <1>4, <1>5, <1>6, <1>7, LeavesListing DEF out

\* Opening the handle to query keeps Listing.
LEMMA NtOpenListing ==
  ASSUME Safe, Listing, NEW g \in Readers, NtOpen(g)
  PROVE  Listing'
<1> DEFINE r == info[dirinfo]
           own == fs.overlapped /\ ~closed
           out == listed \o got[g]
<1>1. /\ pc[g] = "read" /\ n[g] # 0 /\ d[g] = dirinfo /\ dirinfo \in Infos /\ r \in InfoType /\ N \in Nat
      /\ r.next > r.last /\ r.reader = "NtQuery" /\ r.ntHandle = NoHandle /\ dirinfo # NoInfo
      /\ UNCHANGED <<vworld, dirinfo, searches, vseek, gap, calls>> /\ gap \in BOOLEAN
  BY Zenon, ReadingFacts, NoInfoApart DEF NtOpen, Refills, Safe, TypeOK
<1>2. ~closed => GoodNt(r, scan[r.ntHandle], gap, out)
  BY Zenon, <1>1, ListingGood DEF Good
<1>3. closed => ~r.ntEOF
  BY Zenon, <1>1 DEF Listing
<1>4. ~(r.next <= r.last) /\ r.ntPos \in Nat
  BY <1>1 DEF InfoType
<1>5. ~closed => /\ ~r.findOpen /\ ~r.findEOF /\ r.ntPos = 0 /\ ~r.ntStarted /\ ~r.ntEOF
                 /\ r.ntSeen = 0 /\ ~gap /\ Run(out, 0, gap)
  BY Zenon, <1>1, <1>2 DEF GoodNt
\* Nothing has been listed yet: the handle and the buffer may be any.
<1>6. ASSUME ~closed, NEW R \in InfoType, NEW at, R.reader = r.reader, R.next = r.next, R.last = r.last,
             R.ntPos = r.ntPos, R.ntSeen = r.ntSeen, R.ntStarted = r.ntStarted, R.ntEOF = r.ntEOF,
             R.findOpen = r.findOpen, R.findEOF = r.findEOF
      PROVE  GoodNt(R, at, gap, out)
  <2>1. 0 <= 0 /\ \A k \in 1..0 : FALSE
    OBVIOUS
  <2>2. \A k \in 1..R.ntPos : sizes[k] <= R.buf
    BY Zenon, <1>5, <1>6, <2>1
  <2>3. Run(out, IF gap THEN Before(R, at) ELSE R.ntPos, gap)
    BY ZenonT(60), <1>5, <1>6
  <2>4. R.ntSeen <= R.ntPos
    BY <1>5, <1>6
  <2> HIDE DEF out
  <2> QED
    BY Zenon, <1>1, <1>4, <1>5, <1>6, <2>2, <2>3, <2>4 DEF GoodNt
<1>7. ASSUME NEW R \in InfoType, R.reader = r.reader, R.next = r.next, R.last = r.last,
             R.ntPos = r.ntPos, R.ntSeen = r.ntSeen, R.ntStarted = r.ntStarted, R.ntEOF = r.ntEOF,
             R.findOpen = r.findOpen, R.findEOF = r.findEOF, info' = [info EXCEPT ![dirinfo] = R],
             GoesOn \/ Return(g, TRUE)
      PROVE  Listing'
  <2>1. R.reader = "NtQuery" /\ R.reader # "InfoEx" /\ R.reader # "Find" /\ R.next > R.last
    BY Zenon, <1>1, <1>7
  <2>2. CASE closed
    <3>1. GoesOn => got' = [got EXCEPT ![g] = <<>>]
      <4>1. got[g] = <<>> /\ got = [got EXCEPT ![g] = got[g]]
        BY ZenonT(60), <1>1, <2>2 DEF Listing, Safe, TypeOK
      <4> QED
        BY Zenon, <4>1 DEF GoesOn
    <3>2. UNCHANGED <<fs, sizes, dirinfo, vseek>> /\ gap' \in BOOLEAN /\ (gap => gap') /\ ~R.ntEOF
          /\ (GoesOn => UNCHANGED <<pc, d, n, mu, listed, ended>>)
      BY Zenon, <1>1, <1>3, <1>7, <2>2 DEF vworld, GoesOn
    <3> QED
      BY Zenon, <1>1, <1>7, <2>1, <2>2, <3>1, <3>2, ShutListing
  <2>3. CASE ~closed
    <3>1. Good(R, scan', gap, out)
      BY Zenon, <1>6, <1>7, <2>1, <2>3 DEF Good
    <3>2. UNCHANGED <<fs, sizes, dirinfo, vseek>> /\ gap' = gap /\ gap' \in BOOLEAN /\ (gap => gap')
          /\ TRUE # FALSE
      BY Zenon, <1>1 DEF vworld
    <3>3. CASE Return(g, TRUE)
      BY ZenonT(60), <1>1, <1>7, <2>3, <3>1, <3>2, <3>3, ReturnListing
    <3>4. CASE GoesOn
      <4>1. got' = [got EXCEPT ![g] = got[g]] /\ n' = [n EXCEPT ![g] = n[g]]
        BY Zenon, <3>4 DEF GoesOn, Safe, TypeOK
      <4>2. UNCHANGED <<pc, d, mu, listed, ended, gap>>
        BY Zenon, <3>2, <3>4 DEF GoesOn
      <4> QED
        BY ZenonT(60), <1>1, <1>7, <2>3, <3>1, <3>2, <4>1, <4>2, GoesOnListing
    <3> QED
      BY Zenon, <1>7, <3>3, <3>4
  <2> QED
    BY Zenon, <2>2, <2>3
<1>8. ASSUME NEW hd \in {NoHandle, FileHandle} \cup Infos, NEW b \in 0..MaxBuf,
             info' = [info EXCEPT ![dirinfo] = [r EXCEPT !.ntHandle = hd, !.buf = b]],
             GoesOn \/ Return(g, TRUE)
      PROVE  Listing'
  <2> DEFINE R == [r EXCEPT !.ntHandle = hd, !.buf = b]
  <2>1. R \in InfoType
    BY ZenonT(60), <1>1 DEF InfoType
  <2>2. R.reader = r.reader /\ R.next = r.next /\ R.last = r.last
        /\ R.ntPos = r.ntPos /\ R.ntSeen = r.ntSeen /\ R.ntStarted = r.ntStarted /\ R.ntEOF = r.ntEOF
        /\ R.findOpen = r.findOpen /\ R.findEOF = r.findEOF
    BY Zenon, <1>1 DEF InfoType
  <2> HIDE DEF R
  <2> QED
    BY Zenon, <1>7, <1>8, <2>1, <2>2 DEF R
<1>9. r.buf \in 0..MaxBuf /\ BufSize \in 0..MaxBuf /\ PoolSize \in 0..MaxBuf /\ 0 \in 0..MaxBuf
  BY <1>1, SizesAssumption DEF InfoType
<1>10. ASSUME info' = [info EXCEPT ![dirinfo] = [r EXCEPT !.ntHandle = IF own THEN dirinfo ELSE FileHandle,
                                                         !.buf = IF @ = 0 THEN 0 ELSE BufSize]], GoesOn
       PROVE  Listing'
  <2> DEFINE hd == IF own THEN dirinfo ELSE FileHandle
             b == IF r.buf = 0 THEN 0 ELSE BufSize
  <2>1. hd \in {NoHandle, FileHandle} \cup Infos /\ b \in 0..MaxBuf
    BY Zenon, <1>1, <1>9
  <2>2. info' = [info EXCEPT ![dirinfo] = [r EXCEPT !.ntHandle = hd, !.buf = b]]
    BY Zenon, <1>10
  <2> HIDE DEF hd, b
  <2> QED
    BY Zenon, <1>8, <1>10, <2>1, <2>2
<1>11. ASSUME info' = [info EXCEPT ![dirinfo] = [r EXCEPT !.buf = IF @ = 0 THEN PoolSize ELSE BufSize]],
              Return(g, TRUE)
       PROVE  Listing'
  <2> DEFINE b == IF r.buf = 0 THEN PoolSize ELSE BufSize
  <2>1. b \in 0..MaxBuf
    BY Zenon, <1>9
  <2>2. info' = [info EXCEPT ![dirinfo] = [r EXCEPT !.buf = b]]
    BY Zenon, <1>11
  <2> HIDE DEF b
  <2>3. [r EXCEPT !.buf = b] = [r EXCEPT !.ntHandle = NoHandle, !.buf = b]
    BY Zenon, <1>1 DEF InfoType
  <2> QED
    BY ZenonT(60), <1>8, <1>11, <2>1, <2>2, <2>3
<1>12. ASSUME Return(g, TRUE), UNCHANGED info PROVE Listing'
  <2>1. info' = [info EXCEPT ![dirinfo] = r]
    BY Zenon, <1>1, <1>12 DEF Safe, TypeOK
  <2> QED
    BY Zenon, <1>1, <1>7, <1>12, <2>1
<1> QED
  BY Zenon, <1>1, <1>10, <1>11, <1>12 DEF NtOpen

\* A scan at its end has passed the last entry, or the directory is empty.
LEMMA AtEndPos ==
  ASSUME N \in Nat, NEW pos \in Restart..N, AtEnd(pos)
  PROVE  IF pos = Restart THEN N = 0 ELSE pos = N
BY DEF AtEnd, FirstEntries, Restart

\* An answer starts right after where the scan stands, and all of it fits.
LEMMA FirstPos ==
  ASSUME N \in Nat, NEW pos \in Restart..N, NEW size, NEW a \in Answers(pos, size)
  PROVE  /\ a[1] \in 0..N /\ a[2] \in 0..N /\ a[1] <= a[2]
         /\ Prev(a[1]) = IF pos = Restart THEN 0 ELSE pos
         /\ \A e \in a[1]..a[2] : Size(e) <= size
<1>1. a[1] \in 0..N /\ a[2] \in 0..N /\ a[1] <= a[2] /\ a[1] \in FirstEntries(pos)
  BY Zenon DEF Answers
<1>2. \A e \in a[1]..a[2] : Size(e) <= size
  BY Zenon DEF Answers
<1>3. Prev(a[1]) = IF pos = Restart THEN 0 ELSE pos
  <2>1. pos \in Int /\ (pos # Restart => pos \in 0..N)
    BY DEF Restart
  <2>2. CASE pos = Restart
    BY <1>1, <2>2 DEF FirstEntries, Prev
  <2>3. CASE pos # Restart
    BY <1>1, <2>1, <2>3 DEF FirstEntries, Prev
  <2> QED
    BY Zenon, <2>2, <2>3
<1> QED
  BY Zenon, <1>1, <1>2, <1>3

\* The entry that does not fit is the one after where the scan stands.
LEMMA TooBigPos ==
  ASSUME N \in Nat, NEW pos \in Restart..N, NEW size \in Nat \ {0}, NEW a \in TooBig(pos, size)
  PROVE  /\ a \in 1..N /\ sizes[a] > size
         /\ a = IF pos = Restart THEN 1 ELSE pos + 1
BY DEF TooBig, FirstEntries, Restart, Size

\* The reader of Vista keeps Listing where its scans can be continued: it hands
\* over to another class or reader only before anything is listed.
LEMMA InfoExListing ==
  ASSUME Continues, Safe, Listing, NEW g \in Readers, InfoEx(g)
  PROVE  Listing'
<1> DEFINE r == info[dirinfo]
           c == r.class
           at == scan[FileHandle]
           pos == IF Restarts(c) THEN Restart ELSE at
           out == listed \o got[g]
<1>1. /\ pc[g] = "read" /\ n[g] # 0 /\ d[g] = dirinfo /\ dirinfo \in Infos /\ r \in InfoType /\ N \in Nat
      /\ r.buf # 0 /\ r.next > r.last /\ r.reader = "InfoEx" /\ dirinfo # NoInfo
      /\ UNCHANGED <<vworld, dirinfo, reopened, searches, vseek, calls>> /\ gap \in BOOLEAN
      /\ scan \in [Infos \cup {FileHandle} -> Restart..N]
      /\ got[g] \in Seq(1..N) /\ listed \in Seq(1..N)
  BY ZenonT(60), ReadingFacts, NoInfoApart DEF InfoEx, Refills, Safe, Buffers, TypeOK
<1>2. ~closed => GoodInfoEx(r, at, gap, out)
  BY Zenon, <1>1, ListingGood DEF Good
<1>3. ~(r.next <= r.last) /\ Before(r, at) = at /\ r.buf \in Nat \ {0}
  <2>1. ~(r.next <= r.last) /\ r.buf \in Nat \ {0}
    BY Zenon, <1>1, BufferOrder, InfoFields
  <2> QED
    BY Zenon, <2>1 DEF Before
<1>4. at \in Restart..N /\ pos \in Restart..N
  BY <1>1 DEF Restart
<1>5. fs.continues
  BY Zenon DEF Continues, Safe, TypeOK
<1>6. ~closed => IF Restarts(c) THEN ~gap /\ Run(out, 0, gap)
                 ELSE ~Refused(c) /\ at # Restart /\ at >= 0 /\ Run(out, at, gap)
  <2>1. at >= 0 => at # Restart
    BY <1>4 DEF Restart
  <2> QED
    BY Zenon, <1>2, <1>3, <1>5, <2>1 DEF GoodInfoEx, Refused
<1>7. UNCHANGED <<fs, sizes, dirinfo, vseek>>
  BY Zenon, <1>1 DEF vworld
\* The call goes on, with entries in the buffer or another class or reader.
<1>8. ASSUME NEW a \in Answers(pos, r.buf), ~closed, ~Refused(c),
             info' = [info EXCEPT ![dirinfo] = [r EXCEPT !.next = a[1], !.last = a[2], !.class = Kind(c)]],
             scan' = [scan EXCEPT ![FileHandle] = a[2]], GoesOn, UNCHANGED <<gap, faults>>
      PROVE  Listing'
  <2> DEFINE R == [r EXCEPT !.next = a[1], !.last = a[2], !.class = Kind(c)]
  <2>1. /\ a[1] \in 0..N /\ a[2] \in 0..N /\ a[1] <= a[2]
        /\ Prev(a[1]) = IF pos = Restart THEN 0 ELSE pos
    BY ZenonT(60), <1>1, <1>4, FirstPos
  <2>2. a[1] \in 0..N + 1 /\ Kind(c) \in {"FullRestart", "Full", "IdBothRestart", "IdBoth"}
        /\ ~Restarts(Kind(c)) /\ Kind(Kind(c)) = Kind(c) /\ a[2] >= 0
    BY <1>1, <2>1 DEF Kind, Restarts
  <2>3. R \in InfoType
    BY ZenonT(60), <1>1, <2>1, <2>2 DEF InfoType
  <2>4. R.next = a[1] /\ R.last = a[2] /\ R.class = Kind(c) /\ R.reader = r.reader
        /\ R.ntHandle = r.ntHandle /\ R.ntPos = r.ntPos /\ R.ntSeen = r.ntSeen
    BY Zenon, <1>1 DEF InfoType
  <2>5. R.ntStarted = r.ntStarted /\ R.ntEOF = r.ntEOF /\ R.findOpen = r.findOpen /\ R.findEOF = r.findEOF
    BY Zenon, <1>1 DEF InfoType
  <2>6. info' = [info EXCEPT ![dirinfo] = R] /\ scan'[FileHandle] = a[2]
    BY Zenon, <1>1, <1>8
  <2> HIDE DEF R
  <2>7. Run(out, Before(R, a[2]), gap)
    <3>1. Before(R, a[2]) = Prev(a[1])
      BY Zenon, <2>1, <2>4 DEF Before
    <3>2. Prev(a[1]) = IF Restarts(c) THEN 0 ELSE at
      BY Zenon, <1>6, <1>8, <2>1
    <3> QED
      BY Zenon, <1>6, <1>8, <3>1, <3>2
  <2>8. Kind(c) \in fs.knows
    BY Zenon, <1>8 DEF Refused
  <2>9. GoodInfoEx(R, a[2], gap, out)
    BY ZenonT(60), <1>2, <1>8, <2>2, <2>4, <2>5, <2>7, <2>8 DEF GoodInfoEx
  <2>10. Good(R, scan', gap, out)
    <3>1. R.reader = "InfoEx" /\ R.reader # "NtQuery" /\ R.reader # "Find"
      BY ZenonT(60), <1>1, <2>4
    <3> QED
      BY ZenonT(60), <2>6, <2>9, <3>1 DEF Good
  <2>11. got' = [got EXCEPT ![g] = got[g]] /\ n' = [n EXCEPT ![g] = n[g]]
    BY Zenon, <1>8 DEF GoesOn, Safe, TypeOK
  <2>12. UNCHANGED <<pc, d, mu, listed, ended, gap>>
    BY Zenon, <1>8 DEF GoesOn
  <2> QED
    BY ZenonT(60), <1>1, <1>7, <1>8, <2>3, <2>6, <2>10, <2>11, <2>12, GoesOnListing
<1>9. ASSUME NEW R \in InfoType, R.next = r.next, R.last = r.last, R.ntEOF = r.ntEOF,
             info' = [info EXCEPT ![dirinfo] = R],
             ~closed => Good(R, scan, gap, out) /\ (Restarts(c) => out = <<>>),
             got' = got \/ (Restarts(c) /\ got' = [got EXCEPT ![g] = <<>>]),
             UNCHANGED <<pc, d, n, mu, listed, ended, scan, gap, faults>>
      PROVE  Listing'
  <2>1. CASE closed
    <3>1. got[g] = <<>> /\ ~r.ntEOF
      BY Zenon, <1>1, <2>1 DEF Listing
    <3>2. got' = [got EXCEPT ![g] = <<>>]
      <4>1. got = [got EXCEPT ![g] = got[g]]
        BY Zenon DEF Safe, TypeOK
      <4> QED
        BY ZenonT(60), <1>9, <3>1, <4>1
    <3>3. gap' \in BOOLEAN /\ (gap => gap') /\ R.next > R.last /\ ~R.ntEOF
      BY Zenon, <1>1, <1>9, <3>1
    <3> QED
      BY ZenonT(60), <1>1, <1>7, <1>9, <2>1, <3>2, <3>3, ShutListing
  <2>2. CASE ~closed
    <3>1. got' = [got EXCEPT ![g] = got[g]]
      <4>1. got = [got EXCEPT ![g] = got[g]]
        BY DEF Safe, TypeOK
      <4>2. CASE Restarts(c)
        <5>1. out = <<>>
          BY Zenon, <1>9, <2>2, <4>2
        <5>2. got[g] = <<>>
          BY Zenon, <1>1, <5>1, NothingJoined
        <5> QED
          BY Zenon, <1>9, <4>1, <5>2
      <4> QED
        BY ZenonT(60), <1>9, <4>1, <4>2
    <3>2. n' = [n EXCEPT ![g] = n[g]]
      BY Zenon, <1>9 DEF Safe, TypeOK
    <3>3. Good(R, scan', gap, out)
      BY Zenon, <1>9, <2>2
    <3> QED
      BY ZenonT(60), <1>1, <1>7, <1>9, <2>2, <3>1, <3>2, <3>3, GoesOnListing
  <2> QED
    BY Zenon, <2>1, <2>2
<1>10. ~closed /\ Restarts(c) => out = <<>>
  <2>1. ~closed /\ Restarts(c) => Len(out) = 0
    BY ZenonT(60), <1>6 DEF Run
  <2>2. out \in Seq(1..N)
    BY <1>1
  <2> QED
    BY <2>1, <2>2
<1>11. ASSUME info' = [info EXCEPT ![dirinfo] = [r EXCEPT !.class = "IdBothRestart"]], GoesOn,
              Refused(c), UNCHANGED <<scan, gap, faults>>
       PROVE  Listing'
  <2> DEFINE R == [r EXCEPT !.class = "IdBothRestart"]
  <2>1. R \in InfoType
    BY ZenonT(60), <1>1 DEF InfoType
  <2>2. R.next = r.next /\ R.last = r.last /\ R.class = "IdBothRestart" /\ R.reader = r.reader
        /\ R.ntHandle = r.ntHandle /\ R.ntPos = r.ntPos /\ R.ntSeen = r.ntSeen
    BY Zenon, <1>1 DEF InfoType
  <2>3. R.ntStarted = r.ntStarted /\ R.ntEOF = r.ntEOF /\ R.findOpen = r.findOpen /\ R.findEOF = r.findEOF
    BY Zenon, <1>1 DEF InfoType
  <2>4. info' = [info EXCEPT ![dirinfo] = R] /\ UNCHANGED <<pc, d, n, mu, listed, ended, got>>
    BY Zenon, <1>11 DEF GoesOn
  <2> HIDE DEF R
  <2>5. Restarts(R.class) /\ R.reader = "InfoEx" /\ R.reader # "NtQuery" /\ R.reader # "Find"
    BY Zenon, <1>1, <2>2 DEF Restarts
  <2>6. ~closed => Good(R, scan, gap, out) /\ (Restarts(c) => out = <<>>)
    <3>1. ~closed => GoodInfoEx(R, at, gap, out)
      BY ZenonT(60), <1>1, <1>2, <1>6, <1>11, <2>2, <2>3, <2>5 DEF GoodInfoEx
    <3> QED
      BY Zenon, <1>10, <2>5, <3>1 DEF Good
  <2> QED
    BY Zenon, <1>9, <1>11, <2>1, <2>2, <2>3, <2>4, <2>6
<1>12. ASSUME info' = [info EXCEPT ![dirinfo] = [r EXCEPT !.reader = "NtQuery"]], Refused(c),
              got' = [got EXCEPT ![g] = <<>>],
              UNCHANGED <<pc, d, n, mu, listed, ended, scan, gap, faults>>
       PROVE  Listing'
  <2> DEFINE R == [r EXCEPT !.reader = "NtQuery"]
  <2>1. R \in InfoType
    BY ZenonT(60), <1>1 DEF InfoType
  <2>2. R.next = r.next /\ R.last = r.last /\ R.reader = "NtQuery" /\ R.buf = r.buf
        /\ R.ntHandle = r.ntHandle /\ R.ntPos = r.ntPos /\ R.ntSeen = r.ntSeen
    BY Zenon, <1>1 DEF InfoType
  <2>3. R.ntStarted = r.ntStarted /\ R.ntEOF = r.ntEOF /\ R.findOpen = r.findOpen /\ R.findEOF = r.findEOF
    BY Zenon, <1>1 DEF InfoType
  <2>4. info' = [info EXCEPT ![dirinfo] = R] /\ R.reader # "InfoEx" /\ R.reader # "Find"
    BY Zenon, <1>12, <2>2
  <2> HIDE DEF R
  <2>5. CASE closed
    <3>1. got' = got
      <4>1. got[g] = <<>> /\ got = [got EXCEPT ![g] = got[g]]
        BY ZenonT(60), <1>1, <2>5 DEF Listing, Safe, TypeOK
      <4> QED
        BY Zenon, <1>12, <4>1
    <3> QED
      BY Zenon, <1>9, <1>12, <2>1, <2>2, <2>3, <2>4, <2>5, <3>1
  <2>6. CASE ~closed
    <3>1. Restarts(c) /\ ~gap /\ Run(out, 0, gap)
      BY Zenon, <1>6, <1>12, <2>6
    <3>2. \A k \in 1..R.ntPos : sizes[k] <= R.buf
      <4>1. R.ntPos = 0
        BY Zenon, <1>2, <2>2, <2>6 DEF GoodInfoEx
      <4> QED
        BY <4>1
    <3>3. R.ntSeen <= R.ntPos /\ R.ntPos = 0 /\ R.ntSeen = 0
      <4>1. R.ntPos = 0 /\ R.ntSeen = 0
        BY Zenon, <1>2, <2>2, <2>6 DEF GoodInfoEx
      <4> QED
        BY <4>1
    <3>4. ~R.findOpen /\ ~R.findEOF /\ ~R.ntStarted /\ ~R.ntEOF /\ ~(R.next <= R.last) /\ R.next > R.last
      BY Zenon, <1>1, <1>2, <1>3, <2>2, <2>3, <2>6 DEF GoodInfoEx
    <3>5. Run(out, IF gap THEN Before(R, scan[R.ntHandle]) ELSE R.ntPos, gap)
      BY Zenon, <3>1, <3>3
    <3> HIDE DEF out
    <3>6. GoodNt(R, scan[R.ntHandle], gap, out)
      BY ZenonT(60), <3>1, <3>2, <3>3, <3>4, <3>5 DEF GoodNt
    <3>7. Good(R, scan, gap, out)
      BY Zenon, <2>2, <2>4, <3>6 DEF Good
    <3> USE DEF out
    <3> QED
      BY ZenonT(60), <1>9, <1>10, <1>12, <2>1, <2>2, <2>3, <2>4, <2>6, <3>1, <3>7
  <2> QED
    BY Zenon, <2>5, <2>6
\* The end of the directory.
<1>13. ~closed /\ AtEnd(pos) /\ ~Refused(c) => gap \/ Len(out) = N
  <2> SUFFICES ASSUME ~closed, AtEnd(pos) PROVE gap \/ Len(out) = N
    BY Zenon
  <2>1. CASE Restarts(c)
    <3>1. N = 0
      BY ZenonT(60), <1>1, <1>4, <2>1, AtEndPos
    <3>2. Run(out, N, gap)
      BY ZenonT(60), <1>6, <2>1, <3>1
    <3> QED
      BY Zenon, <3>2 DEF Run
  <2>2. CASE ~Restarts(c)
    <3>1. at = N
      BY Zenon, <1>1, <1>4, <1>6, <2>2, AtEndPos
    <3>2. Run(out, N, gap)
      BY Zenon, <1>6, <2>2, <3>1
    <3> QED
      BY Zenon, <3>2 DEF Run
  <2> QED
    BY Zenon, <2>1, <2>2
<1>14. ASSUME ~closed, ~Refused(c), AtEnd(pos), info' = [info EXCEPT ![dirinfo] = [r EXCEPT !.buf = 0]],
              Return(g, FALSE), UNCHANGED <<scan, gap, faults>>
       PROVE  Listing'
  <2> DEFINE R == [r EXCEPT !.buf = 0]
  <2>1. R \in InfoType
    <3>1. 0 \in 0..MaxBuf
      BY SizesAssumption
    <3> QED
      BY Zenon, <1>1, <3>1 DEF InfoType
  <2>2. R.next = r.next /\ R.last = r.last /\ R.class = r.class /\ R.reader = r.reader
        /\ R.ntHandle = r.ntHandle /\ R.ntPos = r.ntPos /\ R.ntSeen = r.ntSeen
    BY Zenon, <1>1 DEF InfoType
  <2>3. R.ntStarted = r.ntStarted /\ R.ntEOF = r.ntEOF /\ R.findOpen = r.findOpen /\ R.findEOF = r.findEOF
    BY Zenon, <1>1 DEF InfoType
  <2>4. info' = [info EXCEPT ![dirinfo] = R] /\ gap' \in BOOLEAN /\ (gap => gap') /\ scan' = scan /\ gap' = gap
    BY Zenon, <1>1, <1>14
  <2> HIDE DEF R
  <2>5. GoodInfoEx(R, at, gap, out)
    BY Zenon, <1>2, <1>14, <2>2, <2>3 DEF GoodInfoEx, Before
  <2>6. Good(R, scan', gap', out)
    <3>1. R.reader = "InfoEx" /\ R.reader # "NtQuery" /\ R.reader # "Find"
      BY Zenon, <1>1, <2>2
    <3> QED
      BY ZenonT(60), <2>4, <2>5, <3>1 DEF Good
  <2> QED
    BY ZenonT(60), <1>1, <1>7, <1>13, <1>14, <2>1, <2>4, <2>6, ReturnListing
<1>15. ASSUME ~closed, ~Refused(c), AtEnd(pos), Return(g, FALSE), UNCHANGED <<info, scan, gap, faults>>
       PROVE  Listing'
  <2>1. gap' \in BOOLEAN /\ (gap => gap') /\ gap' = gap /\ Good(r, scan', gap', out)
    BY Zenon, <1>1, <1>15, ListingGood
  <2> QED
    BY Zenon, <1>1, <1>7, <1>13, <1>15, <2>1, LeavesListing
<1>16. ASSUME Return(g, TRUE), UNCHANGED info, gap' \in BOOLEAN, gap => gap',
              ~closed => Good(r, scan', gap', out)
       PROVE  Listing'
  <2>1. TRUE # FALSE
    BY Zenon
  <2> QED
    BY Zenon, <1>1, <1>7, <1>16, <2>1, LeavesListing
<1>17. ASSUME ~closed, NEW a \in TooBig(pos, r.buf), NEW moved \in BOOLEAN,
              scan' = [scan EXCEPT ![FileHandle] = IF moved THEN a ELSE pos],
              gap' = (gap \/ (moved /\ ~Restarts(c))), ~Refused(c), Return(g, TRUE), UNCHANGED info
       PROVE  Listing'
  <2>1. a \in 1..N /\ a \in 0..N /\ a = (IF pos = Restart THEN 1 ELSE pos + 1)
    <3>1. a \in 1..N /\ a = IF pos = Restart THEN 1 ELSE pos + 1
      BY ZenonT(60), <1>1, <1>3, <1>4, <1>17, TooBigPos
    <3>2. a \in 0..N
      BY <1>1, <3>1
    <3> QED
      BY Zenon, <3>1, <3>2
  <2>2. gap' \in BOOLEAN /\ (gap => gap') /\ scan'[FileHandle] = IF moved THEN a ELSE pos
    BY Zenon, <1>1, <1>17
  <2>3. GoodInfoEx(r, scan'[FileHandle], gap', out)
    <3>1. CASE Restarts(c)
      <4>1. ~gap /\ gap' = gap
        BY Zenon, <1>1, <1>6, <1>17, <3>1
      <4> QED
        BY Zenon, <1>2, <1>17, <3>1, <4>1 DEF GoodInfoEx
    <3>2. CASE ~Restarts(c) /\ ~moved
      <4>1. gap' = gap /\ scan'[FileHandle] = at
        BY Zenon, <1>1, <1>17, <2>2, <3>2
      <4> QED
        BY Zenon, <1>2, <1>17, <4>1
    <3>3. CASE ~Restarts(c) /\ moved
      <4>1. gap' = TRUE /\ scan'[FileHandle] = a
        BY Zenon, <1>17, <2>2, <3>3
      <4>2. at \in 0..N /\ at <= a /\ a >= 0
        <5>1. at # Restart /\ at >= 0 /\ pos = at
          BY Zenon, <1>6, <1>17, <3>3
        <5> QED
          BY <1>4, <2>1, <5>1 DEF Restart
      <4>3. Run(out, a, TRUE)
        <5>1. Run(out, at, gap) /\ out \in Seq(1..N)
          BY Zenon, <1>1, <1>6, <1>17, <3>3, ListingGood
        <5> HIDE DEF out, at
        <5> QED
          BY Zenon, <1>1, <2>1, <4>2, <5>1, RunOn
      <4>4. Before(r, a) = a
        BY Zenon, <1>3 DEF Before
      <4> HIDE DEF out
      <4> QED
        BY ZenonT(60), <1>2, <1>3, <1>17, <3>3, <4>1, <4>2, <4>3, <4>4 DEF GoodInfoEx
    <3> QED
      BY Zenon, <3>1, <3>2, <3>3
  <2>4. Good(r, scan', gap', out)
    <3>1. r.reader # "NtQuery" /\ r.reader # "Find"
      BY Zenon, <1>1
    <3> QED
      BY Zenon, <2>3, <3>1 DEF Good
  <2> QED
    BY Zenon, <1>16, <1>17, <2>2, <2>4
<1>18. ASSUME UNCHANGED <<scan, gap>>, UNCHANGED info, Return(g, TRUE) PROVE Listing'
  <2>1. gap' \in BOOLEAN /\ (gap => gap') /\ (~closed => Good(r, scan', gap', out))
    BY Zenon, <1>1, <1>18, ListingGood
  <2> QED
    BY Zenon, <1>16, <1>18, <2>1
<1> HIDE DEF out
<1> QED
  BY ZenonT(60), <1>1, <1>8, <1>11, <1>12, <1>14, <1>15, <1>17, <1>18 DEF InfoEx

\* An entry is a position of the scan.
LEMMA EntryIsPosition ==
  ASSUME NEW m \in Nat, NEW e \in 1..m
  PROVE  e \in 0..m
OBVIOUS

\* The entry after a position is ahead of it.
LEMMA EntryAfter ==
  ASSUME NEW m \in Nat, NEW p \in 0..m, NEW e \in 1..m, e = p + 1
  PROVE  p <= e
OBVIOUS

\* A position before whose next entry everything listed lies is the last one
\* listed.
LEMMA NothingAhead ==
  ASSUME NEW m \in Nat, NEW p \in 0..m, NEW q \in 0..m, p <= q, p + 1 \notin 1..q
  PROVE  p = q
OBVIOUS

\* What readDirNtQuery knows when it queries: how far its scan is, and that
\* what it listed fits the buffer it queries with.
LEMMA NtQueryFacts ==
  ASSUME Safe, Listing, ~closed, NEW g \in Readers, pc[g] = "read",
         info[dirinfo].reader = "NtQuery", info[dirinfo].next > info[dirinfo].last, ~info[dirinfo].ntEOF,
         NEW at, at = scan[info[dirinfo].ntHandle], info[dirinfo].ntHandle # NoHandle,
         NEW size, size = IF info[dirinfo].buf = 0 THEN PoolSize ELSE info[dirinfo].buf
  PROVE  LET r == info[dirinfo]
             out == listed \o got[g]
         IN /\ r.ntSeen \in Nat /\ r.ntPos \in Nat /\ r.ntSeen <= r.ntPos
            /\ ~r.findOpen /\ ~r.findEOF /\ at \in Restart..N
            /\ ~r.ntStarted => ~gap /\ r.ntSeen = 0
            /\ r.ntStarted => at \in 0..N /\ at # Restart
            /\ r.ntStarted /\ ~gap => r.ntSeen = at
            /\ gap => r.ntSeen = r.ntPos /\ 2 * size > MaxBuf /\ Run(out, at, gap)
            /\ ~gap => /\ Run(out, r.ntPos, gap) /\ r.ntPos \in 0..N
                       /\ \A e \in 1..r.ntPos : sizes[e] <= size
<1> DEFINE r == info[dirinfo]
           out == listed \o got[g]
<1>1. GoodNt(r, at, gap, out)
  BY Zenon, ListingGood DEF Good
<1>2. r \in InfoType /\ N \in Nat /\ scan \in [Infos \cup {FileHandle} -> Restart..N] /\ sizes \in Seq(Nat)
  BY ZenonT(60), ReadingFacts, InputsAssumption DEF Safe, TypeOK
<1>3. r.ntSeen \in Nat /\ r.ntPos \in Nat /\ r.buf \in 0..MaxBuf /\ ~(r.next <= r.last)
      /\ r.ntHandle \in Infos \cup {FileHandle}
  BY Zenon, <1>2, BufferOrder, InfoFields
<1>4. Before(r, at) = at
  BY Zenon, <1>3 DEF Before
<1>5. gap => r.ntSeen = r.ntPos /\ 2 * r.buf > MaxBuf /\ Run(out, at, gap)
  BY Zenon, <1>1, <1>4 DEF GoodNt
<1>6. ~gap => /\ Run(out, r.ntPos, gap) /\ (r.ntStarted => r.ntSeen = at)
              /\ \A e \in 1..r.ntPos : sizes[e] <= r.buf
  BY Zenon, <1>1, <1>4 DEF GoodNt
<1>7. r.ntSeen <= r.ntPos /\ ~r.findOpen /\ ~r.findEOF /\ (~r.ntStarted => ~gap /\ r.ntSeen = 0)
      /\ (r.ntStarted => at >= 0)
  BY Zenon, <1>1 DEF GoodNt
<1>8. at \in Restart..N
  BY ZenonT(60), <1>2, <1>3
<1>9. r.ntStarted => at \in 0..N /\ at # Restart
  BY <1>2, <1>7, <1>8 DEF Restart
<1>10. ~gap => r.ntPos \in 0..N
  BY ZenonT(60), <1>6 DEF Run
<1>11. ~gap => \A e \in 1..r.ntPos : sizes[e] <= size
  <2> SUFFICES ASSUME ~gap, NEW e \in 1..r.ntPos PROVE sizes[e] <= size
    BY Zenon
  <2>1. r.ntPos \in 0..N /\ sizes[e] <= r.buf
    BY Zenon, <1>6, <1>10
  <2>2. sizes[e] \in Nat
    BY ZenonT(60), <1>2, <2>1, EntrySize
  <2> QED
    BY <1>3, <2>1, <2>2, SizesAssumption
<1>12. gap => 2 * size > MaxBuf
  BY <1>3, <1>5, SizesAssumption
<1> HIDE DEF out
<1>13. /\ r.ntSeen \in Nat /\ r.ntPos \in Nat /\ r.ntSeen <= r.ntPos
       /\ ~r.findOpen /\ ~r.findEOF /\ at \in Restart..N
       /\ ~r.ntStarted => ~gap /\ r.ntSeen = 0
       /\ r.ntStarted => at \in 0..N /\ at # Restart
       /\ r.ntStarted /\ ~gap => r.ntSeen = at
  BY Zenon, <1>3, <1>6, <1>7, <1>8, <1>9
<1>14. gap => r.ntSeen = r.ntPos /\ 2 * size > MaxBuf /\ Run(out, at, gap)
  BY Zenon, <1>5, <1>12
<1>15. ~gap => /\ Run(out, r.ntPos, gap) /\ r.ntPos \in 0..N
               /\ \A e \in 1..r.ntPos : sizes[e] <= size
  BY Zenon, <1>6, <1>10, <1>11
<1> QED
  BY Zenon, <1>13, <1>14, <1>15 DEF out

\* NtQueryDirectoryFile keeps Listing.  An entry that does not fit the buffer
\* is ahead of all that was listed, so a scan started again with a larger one
\* comes by ntPos listed entries first; at the largest buffer it is a gap.
LEMMA NtQueryListing ==
  ASSUME Safe, Listing, NEW g \in Readers, NtQuery(g)
  PROVE  Listing'
<1> DEFINE r == info[dirinfo]
           at == scan[r.ntHandle]
           restart == ~r.ntStarted
           pos == IF restart THEN Restart ELSE at
           size == IF r.buf = 0 THEN PoolSize ELSE r.buf
           out == listed \o got[g]
<1>1. /\ pc[g] = "read" /\ n[g] # 0 /\ d[g] = dirinfo /\ dirinfo \in Infos /\ r \in InfoType /\ N \in Nat
      /\ r.next > r.last /\ r.reader = "NtQuery" /\ r.ntHandle # NoHandle /\ ~r.ntEOF
      /\ UNCHANGED <<vworld, dirinfo, searches, vseek, calls>> /\ gap \in BOOLEAN /\ dirinfo # NoInfo
      /\ got[g] \in Seq(1..N) /\ listed \in Seq(1..N)
      /\ scan \in [Infos \cup {FileHandle} -> Restart..N]
  BY ZenonT(60), ReadingFacts, NoInfoApart DEF NtQuery, Refills, Safe, TypeOK
<1>2. UNCHANGED <<fs, sizes, dirinfo, vseek>>
  BY ZenonT(60), <1>1 DEF vworld
<1>3. ~(r.next <= r.last) /\ r.ntHandle \in Infos \cup {FileHandle} /\ r.buf \in 0..MaxBuf
      /\ size \in Nat \ {0} /\ size \in 0..MaxBuf
  <2>1. ~(r.next <= r.last) /\ r.ntHandle \in Infos \cup {FileHandle} /\ r.buf \in 0..MaxBuf
    BY ZenonT(60), <1>1, BufferOrder, InfoFields
  <2>2. size \in Nat \ {0} /\ size \in 0..MaxBuf
    BY <2>1, SizesAssumption
  <2> QED
    BY Zenon, <2>1, <2>2
<1>4. ~closed =>
        /\ r.ntSeen \in Nat /\ r.ntPos \in Nat /\ r.ntSeen <= r.ntPos
        /\ ~r.findOpen /\ ~r.findEOF /\ at \in Restart..N
        /\ ~r.ntStarted => ~gap /\ r.ntSeen = 0
        /\ r.ntStarted => at \in 0..N /\ at # Restart
        /\ r.ntStarted /\ ~gap => r.ntSeen = at
        /\ gap => r.ntSeen = r.ntPos /\ 2 * size > MaxBuf /\ Run(out, at, gap)
        /\ ~gap => /\ Run(out, r.ntPos, gap) /\ r.ntPos \in 0..N
                   /\ \A e \in 1..r.ntPos : sizes[e] <= size
  BY Zenon, <1>1, NtQueryFacts
<1>5. pos \in Restart..N
  <2>1. Restart \in Restart..N
    BY <1>1 DEF Restart
  <2> QED
    BY Zenon, <1>1, <1>3, <2>1
<1> HIDE DEF size, out
\* The dirInfo after a step that goes on.
<1>6. ASSUME ~closed, NEW R \in InfoType, R.reader = "NtQuery", GoodNt(R, scan'[R.ntHandle], gap, out),
             info' = [info EXCEPT ![dirinfo] = R], GoesOn, UNCHANGED gap
      PROVE  Listing'
  <2>1. Good(R, scan', gap, out)
    <3>1. R.reader # "InfoEx" /\ R.reader # "Find"
      BY Zenon, <1>6
    <3> QED
      BY Zenon, <1>6, <3>1 DEF Good
  <2>2. got' = [got EXCEPT ![g] = got[g]] /\ n' = [n EXCEPT ![g] = n[g]]
    BY ZenonT(60), <1>6 DEF GoesOn, Safe, TypeOK
  <2>3. UNCHANGED <<pc, d, mu, listed, ended, gap>>
    BY Zenon, <1>6 DEF GoesOn
  <2> QED
    BY ZenonT(60), <1>1, <1>2, <1>6, <2>1, <2>2, <2>3, GoesOnListing DEF out
\* The dirInfo after a step that fails.
<1>7. ASSUME NEW R \in InfoType, R.reader = "NtQuery", R.next = r.next, R.last = r.last, R.ntEOF = r.ntEOF,
             ~closed => GoodNt(R, scan'[R.ntHandle], gap', out), gap' \in BOOLEAN, gap => gap',
             info' = [info EXCEPT ![dirinfo] = R], Return(g, TRUE)
      PROVE  Listing'
  <2>1. ~closed => Good(R, scan', gap', out)
    <3>1. R.reader # "InfoEx" /\ R.reader # "Find"
      BY Zenon, <1>7
    <3> QED
      BY Zenon, <1>7, <3>1 DEF Good
  <2>2. CASE closed
    <3>1. R.next > R.last /\ ~R.ntEOF
      BY Zenon, <1>1, <1>7
    <3> QED
      BY Zenon, <1>1, <1>2, <1>7, <2>2, <3>1, ShutListing
  <2>3. CASE ~closed
    <3>1. TRUE # FALSE /\ TRUE \in BOOLEAN
      BY Zenon
    <3> QED
      BY ZenonT(60), <1>1, <1>2, <1>7, <2>1, <2>3, <3>1, ReturnListing DEF out
  <2> QED
    BY Zenon, <2>2, <2>3
\* Entries arrive.
<1>8. ASSUME ~closed, NEW a \in Answers(pos, size),
             info' = [info EXCEPT ![dirinfo] = [r EXCEPT !.next = a[1], !.last = a[2], !.buf = size,
                                                         !.ntStarted = TRUE]],
             scan' = [scan EXCEPT ![r.ntHandle] = a[2]], GoesOn, UNCHANGED <<reopened, gap, faults>>
      PROVE  Listing'
  <2> DEFINE R == [r EXCEPT !.next = a[1], !.last = a[2], !.buf = size, !.ntStarted = TRUE]
  <2>1. /\ a[1] \in 0..N /\ a[2] \in 0..N /\ a[1] <= a[2]
        /\ Prev(a[1]) = IF pos = Restart THEN 0 ELSE pos
        /\ \A e \in a[1]..a[2] : Size(e) <= size
    BY ZenonT(60), <1>1, <1>5, FirstPos
  <2>2. a[1] \in 0..N + 1 /\ a[2] >= 0
    BY <1>1, <2>1
  <2>3. R \in InfoType
    BY ZenonT(60), <1>1, <1>3, <2>1, <2>2 DEF InfoType
  <2>4. R.next = a[1] /\ R.last = a[2] /\ R.buf = size /\ R.reader = r.reader
        /\ R.ntHandle = r.ntHandle /\ R.ntPos = r.ntPos /\ R.ntSeen = r.ntSeen
    BY Zenon, <1>1 DEF InfoType
  <2>5. R.ntStarted = TRUE /\ R.ntEOF = r.ntEOF /\ R.findOpen = r.findOpen /\ R.findEOF = r.findEOF
    BY Zenon, <1>1 DEF InfoType
  <2>6. info' = [info EXCEPT ![dirinfo] = R] /\ scan'[R.ntHandle] = a[2]
    BY Zenon, <1>1, <1>3, <1>8, <2>4
  <2> HIDE DEF R
  <2>7. Before(R, a[2]) = Prev(a[1])
    BY Zenon, <2>1, <2>4 DEF Before
  <2>8. (~gap => Prev(a[1]) = r.ntSeen) /\ (gap => Prev(a[1]) = at)
    BY Zenon, <1>4, <1>8, <2>1
  <2>9. ~gap => \A e \in 1..a[2] : sizes[e] <= size
    <3> SUFFICES ASSUME ~gap, NEW e \in 1..a[2] PROVE sizes[e] <= size
      BY Zenon
    <3>1. CASE e >= a[1]
      <4>1. e \in a[1]..a[2] /\ e # 0
        BY <2>1, <3>1
      <4> QED
        BY ZenonT(60), <2>1, <4>1 DEF Size
    <3>2. CASE ~(e >= a[1])
      <4>1. e <= Prev(a[1]) /\ Prev(a[1]) \in Int
        BY <2>1, <3>2 DEF Prev
      <4>2. r.ntSeen \in Nat /\ r.ntPos \in Nat /\ r.ntSeen <= r.ntPos /\ Prev(a[1]) = r.ntSeen
        BY ZenonT(60), <1>4, <1>8, <2>8
      <4>3. e \in 1..r.ntPos
        BY <2>1, <4>1, <4>2
      <4> QED
        BY ZenonT(60), <1>4, <1>8, <4>3
    <3> QED
      BY Zenon, <3>1, <3>2
  <2>10. GoodNt(R, a[2], gap, out)
    <3>1. Run(out, IF gap THEN Before(R, a[2]) ELSE R.ntPos, gap)
      BY ZenonT(60), <1>4, <1>8, <2>4, <2>7, <2>8
    <3>2. ~gap => R.ntSeen = Before(R, a[2]) /\ \A e \in 1..R.ntPos : sizes[e] <= R.buf
      BY Zenon, <1>4, <1>8, <2>4, <2>7, <2>8
    <3>3. (R.next <= R.last => R.last = a[2]) /\ (~gap => \A e \in 1..R.last : sizes[e] <= R.buf)
      BY Zenon, <2>4, <2>9
    <3>4. gap => R.ntSeen = R.ntPos /\ 2 * R.buf > MaxBuf
      BY Zenon, <1>4, <1>8, <2>4
    <3>5. ~R.findOpen /\ ~R.findEOF /\ R.ntSeen <= R.ntPos /\ R.ntHandle # NoHandle /\ ~R.ntEOF /\ R.ntStarted
      BY Zenon, <1>1, <1>4, <1>8, <2>4, <2>5
    <3> QED
      BY ZenonT(60), <2>2, <3>1, <3>2, <3>3, <3>4, <3>5 DEF GoodNt
  <2>11. R.reader = "NtQuery" /\ GoodNt(R, scan'[R.ntHandle], gap, out)
    BY Zenon, <1>1, <2>4, <2>6, <2>10
  <2> QED
    BY Zenon, <1>6, <1>8, <2>3, <2>6, <2>11
\* The end.
<1>9. ASSUME ~closed, AtEnd(pos), NEW started \in {r.ntStarted, TRUE},
             info' = [info EXCEPT ![dirinfo] = [r EXCEPT !.ntEOF = TRUE, !.buf = 0, !.ntStarted = started]],
             GoesOn, UNCHANGED <<scan, reopened, gap, faults>>
      PROVE  Listing'
  <2> DEFINE R == [r EXCEPT !.ntEOF = TRUE, !.buf = 0, !.ntStarted = started]
  <2>1. started \in BOOLEAN /\ 0 \in 0..MaxBuf
    <3>1. r.ntStarted \in BOOLEAN /\ 0 \in 0..MaxBuf
      BY <1>1, SizesAssumption DEF InfoType
    <3> QED
      BY ZenonT(60), <1>9, <3>1
  <2>2. R \in InfoType
    BY ZenonT(60), <1>1, <2>1 DEF InfoType
  <2>3. R.next = r.next /\ R.last = r.last /\ R.reader = r.reader
        /\ R.ntHandle = r.ntHandle /\ R.ntPos = r.ntPos /\ R.ntSeen = r.ntSeen
    BY Zenon, <1>1 DEF InfoType
  <2>4. R.ntStarted = started /\ R.ntEOF = TRUE /\ R.findOpen = r.findOpen /\ R.findEOF = r.findEOF
    BY Zenon, <1>1 DEF InfoType
  <2>5. info' = [info EXCEPT ![dirinfo] = R] /\ scan'[R.ntHandle] = at
    BY Zenon, <1>9, <2>3
  <2> HIDE DEF R
  <2>6. gap \/ r.ntPos = N
    <3> SUFFICES ASSUME ~gap PROVE r.ntPos = N
      BY Zenon
    <3>1. r.ntPos \in 0..N /\ r.ntSeen \in Nat /\ r.ntSeen <= r.ntPos
      BY ZenonT(60), <1>4, <1>9
    <3>2. CASE restart
      <4>1. N = 0
        BY ZenonT(60), <1>1, <1>5, <1>9, <3>2, AtEndPos
      <4> QED
        BY <3>1, <4>1
    <3>3. CASE ~restart
      <4>1. at # Restart /\ pos = at /\ r.ntSeen = at
        BY Zenon, <1>4, <1>9, <3>3
      <4>2. at = N
        BY Zenon, <1>1, <1>5, <1>9, <4>1, AtEndPos
      <4>3. r.ntSeen = N
        BY Zenon, <4>1, <4>2
      <4> QED
        BY <1>1, <3>1, <4>3
    <3> QED
      BY Zenon, <3>2, <3>3
  <2>7. GoodNt(R, at, gap, out)
    <3>1. Before(R, at) = at
      BY Zenon, <1>3, <2>3 DEF Before
    <3>2. Run(out, IF gap THEN Before(R, at) ELSE R.ntPos, gap)
      BY ZenonT(60), <1>4, <1>9, <2>3, <3>1
    <3>3. ~R.ntStarted => R.next > R.last /\ R.ntSeen = 0 /\ ~gap
      BY ZenonT(60), <1>1, <1>4, <1>9, <2>3, <2>4
    <3>4. R.ntEOF /\ ~(R.next <= R.last) /\ (gap \/ R.ntPos = N) /\ R.ntHandle # NoHandle
          /\ ~R.findOpen /\ ~R.findEOF /\ R.ntSeen <= R.ntPos
      BY ZenonT(60), <1>1, <1>3, <1>4, <1>9, <2>3, <2>4, <2>6
    <3> HIDE DEF at
    <3> QED
      BY Zenon, <3>2, <3>3, <3>4 DEF GoodNt
  <2>8. R.reader = "NtQuery" /\ GoodNt(R, scan'[R.ntHandle], gap, out)
    BY ZenonT(60), <1>1, <2>3, <2>5, <2>7
  <2> QED
    BY Zenon, <1>6, <1>9, <2>2, <2>5, <2>8
\* An entry does not fit: nothing of what was listed is ahead of it.
<1>10. ASSUME ~closed, NEW a \in TooBig(pos, size)
       PROVE  /\ a \in 1..N /\ a \in 0..N
              /\ r.ntSeen = r.ntPos /\ (~restart => at \in 0..N /\ at <= a)
              /\ ~gap /\ ~restart => r.ntPos = at
  <2>1. a \in 1..N /\ sizes[a] > size /\ a = IF pos = Restart THEN 1 ELSE pos + 1
    BY ZenonT(60), <1>1, <1>3, <1>5, <1>10, TooBigPos
  <2>2. a \in 0..N /\ (~restart => at \in 0..N /\ at <= a /\ a = at + 1)
    <3>1. ~restart => at \in 0..N /\ a = at + 1
      BY Zenon, <1>4, <1>10, <2>1
    <3> QED
      BY ZenonT(60), <1>1, <2>1, <3>1, EntryAfter, EntryIsPosition
  <2>3. CASE gap
    BY ZenonT(60), <1>4, <1>10, <2>1, <2>2, <2>3
  <2>4. CASE ~gap
    <3>1. r.ntPos \in 0..N /\ r.ntSeen \in Nat /\ r.ntSeen <= r.ntPos /\ (\A e \in 1..r.ntPos : sizes[e] <= size)
          /\ (restart => r.ntSeen = 0 /\ a = 1) /\ (~restart => r.ntSeen = at)
      BY ZenonT(60), <1>4, <1>10, <2>1, <2>4
    <3>2. a \notin 1..r.ntPos
      <4> SUFFICES ASSUME a \in 1..r.ntPos PROVE FALSE
        BY Zenon
      <4>1. sizes[a] <= size /\ sizes[a] > size
        BY Zenon, <2>1, <3>1
      <4>2. sizes[a] \in Nat
        BY ZenonT(60), <1>1, <2>1, <3>1, EntrySize
      <4> QED
        BY <1>3, <4>1, <4>2
    <3>3. CASE restart
      <4>1. r.ntSeen = r.ntPos
        BY <3>1, <3>2, <3>3, <2>1
      <4> QED
        BY ZenonT(60), <2>1, <2>2, <3>3, <4>1
    <3>4. CASE ~restart
      <4>1. r.ntSeen = at /\ a = at + 1 /\ at \in 0..N
        BY Zenon, <2>2, <3>1, <3>4
      <4>2. r.ntSeen = r.ntPos
        BY ZenonT(60), <1>1, <3>1, <3>2, <4>1, NothingAhead
      <4> QED
        BY ZenonT(60), <2>1, <2>2, <3>4, <4>1, <4>2
    <3> QED
      BY Zenon, <3>3, <3>4
  <2> QED
    BY Zenon, <2>3, <2>4
<1>11. ASSUME ~closed, 2 * size <= MaxBuf, info' = [info EXCEPT ![dirinfo] = Regrown(r, size)],
              GoesOn, UNCHANGED gap
       PROVE  Listing'
  <2> DEFINE R == Regrown(r, size)
  <2>1. 2 * size \in 0..MaxBuf /\ 0 \in Nat /\ ~(2 * size > MaxBuf)
    BY <1>3, <1>11, SizesAssumption
  <2>2. R \in InfoType
    BY Zenon, <1>1, <2>1 DEF InfoType, Regrown
  <2>3. R.next = r.next /\ R.last = r.last /\ R.reader = r.reader /\ R.buf = 2 * size
        /\ R.ntHandle = r.ntHandle /\ R.ntPos = r.ntPos /\ R.ntSeen = 0
    BY Zenon, <1>1 DEF InfoType, Regrown
  <2>4. R.ntStarted = FALSE /\ R.ntEOF = r.ntEOF /\ R.findOpen = r.findOpen /\ R.findEOF = r.findEOF
    BY Zenon, <1>1 DEF InfoType, Regrown
  <2> HIDE DEF R
  <2>5. ~gap /\ Run(out, r.ntPos, gap) /\ r.ntPos \in 0..N /\ \A e \in 1..r.ntPos : sizes[e] <= size
    BY Zenon, <1>4, <1>11, <2>1
  <2>6. \A e \in 1..r.ntPos : sizes[e] <= 2 * size
    <3> SUFFICES ASSUME NEW e \in 1..r.ntPos PROVE sizes[e] <= 2 * size
      BY Zenon
    <3>1. sizes[e] <= size
      BY Zenon, <2>5
    <3>2. sizes[e] \in Nat
      BY ZenonT(60), <1>1, <2>5, EntrySize
    <3> QED
      BY <1>3, <3>1, <3>2
  <2>7. R.ntSeen <= R.ntPos
    BY <2>3, <2>5
  <2>8. GoodNt(R, scan'[R.ntHandle], gap, out)
    <3>1. Run(out, IF gap THEN Before(R, scan'[R.ntHandle]) ELSE R.ntPos, gap)
      BY Zenon, <2>3, <2>5
    <3>2. \A e \in 1..R.ntPos : sizes[e] <= R.buf
      BY Zenon, <2>3, <2>6
    <3>3. ~R.findOpen /\ ~R.findEOF /\ R.next > R.last /\ ~(R.next <= R.last) /\ R.ntHandle # NoHandle
          /\ ~R.ntEOF /\ ~R.ntStarted /\ R.ntSeen = 0
      BY ZenonT(60), <1>1, <1>3, <1>4, <1>11, <2>3, <2>4
    <3> QED
      BY Zenon, <2>5, <2>7, <3>1, <3>2, <3>3 DEF GoodNt
  <2>9. R.reader = "NtQuery" /\ info' = [info EXCEPT ![dirinfo] = R]
    BY Zenon, <1>1, <1>11, <2>3 DEF R
  <2> QED
    BY ZenonT(60), <1>6, <1>11, <2>2, <2>8, <2>9
\* The call fails; the buffer stays allocated.
<1>12. ASSUME NEW R, R = [r EXCEPT !.buf = size]
       PROVE  /\ R \in InfoType /\ R.reader = "NtQuery"
              /\ R.next = r.next /\ R.last = r.last /\ R.ntEOF = r.ntEOF /\ R.buf = size
              /\ R.ntHandle = r.ntHandle /\ R.ntPos = r.ntPos /\ R.ntSeen = r.ntSeen
              /\ R.ntStarted = r.ntStarted /\ R.findOpen = r.findOpen /\ R.findEOF = r.findEOF
  <2>1. R \in InfoType
    BY Zenon, <1>1, <1>3, <1>12 DEF InfoType
  <2>2. R.next = r.next /\ R.last = r.last /\ R.reader = r.reader /\ R.buf = size
        /\ R.ntHandle = r.ntHandle /\ R.ntPos = r.ntPos /\ R.ntSeen = r.ntSeen
    BY Zenon, <1>1, <1>12 DEF InfoType
  <2>3. R.ntStarted = r.ntStarted /\ R.ntEOF = r.ntEOF /\ R.findOpen = r.findOpen /\ R.findEOF = r.findEOF
    BY Zenon, <1>1, <1>12 DEF InfoType
  <2> QED
    BY Zenon, <1>1, <2>1, <2>2, <2>3
<1>13. ASSUME ~closed, NEW R, R = [r EXCEPT !.buf = size], NEW x, NEW b \in BOOLEAN,
              \/ b = gap /\ x = at
              \/ restart /\ b = gap
              \/ b = TRUE /\ ~restart /\ x \in 0..N /\ r.ntSeen = r.ntPos /\ 2 * size > MaxBuf /\ Run(out, x, TRUE)
       PROVE  GoodNt(R, x, b, out)
  <2>1. /\ R.next = r.next /\ R.last = r.last /\ R.ntEOF = r.ntEOF /\ R.buf = size
        /\ R.ntHandle = r.ntHandle /\ R.ntPos = r.ntPos /\ R.ntSeen = r.ntSeen
        /\ R.ntStarted = r.ntStarted /\ R.findOpen = r.findOpen /\ R.findEOF = r.findEOF
    BY Zenon, <1>12, <1>13
  <2>2. Before(R, x) = x
    BY Zenon, <1>3, <2>1 DEF Before
  <2>3. ~R.findOpen /\ ~R.findEOF /\ R.next > R.last /\ ~(R.next <= R.last) /\ R.ntHandle # NoHandle
        /\ ~R.ntEOF /\ R.ntSeen <= R.ntPos
    BY ZenonT(60), <1>1, <1>3, <1>4, <1>13, <2>1
  <2>4. ~R.ntStarted => R.ntSeen = 0 /\ ~b
    BY ZenonT(60), <1>4, <1>13, <2>1
  <2>5. R.ntStarted => x >= 0
    <3>1. R.ntStarted => x \in 0..N
      BY Zenon, <1>4, <1>13, <2>1
    <3> QED
      BY <1>1, <3>1
  <2>6. b => R.ntSeen = R.ntPos /\ 2 * R.buf > MaxBuf
    BY Zenon, <1>4, <1>13, <2>1
  <2>7. ~b => b = gap /\ (r.ntStarted => x = at)
    BY Zenon, <1>13
  <2>8. ~b => ~gap /\ (R.ntStarted => R.ntSeen = Before(R, x)) /\ \A e \in 1..R.ntPos : sizes[e] <= R.buf
    <3>1. ~b => ~gap
      BY Zenon, <2>7
    <3> HIDE DEF at
    <3> QED
      BY ZenonT(60), <1>4, <1>13, <2>1, <2>2, <2>7, <3>1
  <2>9. Run(out, IF b THEN Before(R, x) ELSE R.ntPos, b)
    <3> HIDE DEF at
    <3>1. CASE ~b
      <4>1. Run(out, r.ntPos, gap)
        BY Zenon, <1>4, <1>13, <2>8, <3>1
      <4> QED
        BY Zenon, <2>1, <2>7, <3>1, <4>1
    <3>2. CASE b /\ b = gap /\ x = at
      <4>1. gap /\ x = at /\ Run(out, at, gap)
        BY Zenon, <1>4, <1>13, <3>2
      <4>2. Run(out, x, b)
        BY Zenon, <3>2, <4>1
      <4> QED
        BY Zenon, <2>2, <3>2, <4>2
    <3>3. CASE b /\ ~(b = gap /\ x = at)
      <4>1. Run(out, x, TRUE) /\ b = TRUE
        BY Zenon, <1>4, <1>13, <3>3
      <4>2. Run(out, x, b)
        BY Zenon, <4>1
      <4> QED
        BY Zenon, <2>2, <3>3, <4>2
    <3> QED
      BY Zenon, <3>1, <3>2, <3>3
  <2> QED
    BY ZenonT(60), <2>3, <2>4, <2>5, <2>6, <2>8, <2>9 DEF GoodNt
<1>14. ASSUME ~closed, NEW a \in TooBig(pos, size), NEW moved \in BOOLEAN,
              scan' = [scan EXCEPT ![r.ntHandle] = IF moved THEN a ELSE pos], 2 * size > MaxBuf,
              info' = [info EXCEPT ![dirinfo] = [r EXCEPT !.buf = size]],
              gap' = (gap \/ (moved /\ ~restart)), Return(g, TRUE)
       PROVE  Listing'
  <2> DEFINE R == [r EXCEPT !.buf = size]
             x == scan'[r.ntHandle]
  <2>1. x = IF moved THEN a ELSE pos
    BY Zenon, <1>1, <1>3, <1>14
  <2>2. gap' \in BOOLEAN /\ (gap => gap')
    BY Zenon, <1>1, <1>14
  <2>3. \/ gap' = gap /\ x = at
        \/ restart /\ gap' = gap
        \/ gap' = TRUE /\ ~restart /\ x \in 0..N /\ r.ntSeen = r.ntPos /\ 2 * size > MaxBuf /\ Run(out, x, TRUE)
    <3>1. CASE restart
      BY Zenon, <1>1, <1>14, <3>1
    <3>2. CASE ~restart /\ ~moved
      BY Zenon, <1>1, <1>14, <2>1, <3>2
    <3>3. CASE ~restart /\ moved
      <4>1. gap' = TRUE /\ x = a
        BY Zenon, <1>14, <2>1, <3>3
      <4>2. a \in 0..N /\ r.ntSeen = r.ntPos /\ at \in 0..N /\ at <= a
            /\ (~gap => r.ntPos = at)
        BY Zenon, <1>10, <1>14, <3>3
      <4>3. Run(out, at, gap) /\ out \in Seq(1..N)
        <5>1. Run(out, at, gap)
          BY Zenon, <1>4, <1>14, <4>2
        <5> QED
          BY Zenon, <1>1, <1>14, <5>1, ListingGood DEF out
      <4>4. Run(out, a, TRUE)
        <5> HIDE DEF at
        <5> QED
          BY Zenon, <1>1, <4>2, <4>3, RunOn
      <4> QED
        BY Zenon, <1>14, <3>3, <4>1, <4>2, <4>4
    <3> QED
      BY Zenon, <3>1, <3>2, <3>3
  <2> HIDE DEF R, x
  <2>4. GoodNt(R, x, gap', out)
    BY Zenon, <1>13, <1>14, <2>2, <2>3 DEF R
  <2>5. /\ R \in InfoType /\ R.reader = "NtQuery" /\ R.next = r.next /\ R.last = r.last /\ R.ntEOF = r.ntEOF
        /\ R.ntHandle = r.ntHandle
    BY Zenon, <1>12 DEF R
  <2>6. info' = [info EXCEPT ![dirinfo] = R] /\ GoodNt(R, scan'[R.ntHandle], gap', out)
    BY Zenon, <1>14, <2>4, <2>5 DEF R, x
  <2> QED
    BY ZenonT(60), <1>7, <1>14, <2>2, <2>5, <2>6
<1>15. ASSUME info' = [info EXCEPT ![dirinfo] = [r EXCEPT !.buf = size]], Return(g, TRUE), UNCHANGED <<scan, gap>>
       PROVE  Listing'
  <2> DEFINE R == [r EXCEPT !.buf = size]
  <2>1. gap' \in BOOLEAN /\ (gap => gap') /\ gap' = gap /\ scan'[r.ntHandle] = at
    BY Zenon, <1>1, <1>15
  <2> HIDE DEF R
  <2>2. /\ R \in InfoType /\ R.reader = "NtQuery" /\ R.next = r.next /\ R.last = r.last /\ R.ntEOF = r.ntEOF
        /\ R.ntHandle = r.ntHandle
    BY Zenon, <1>12 DEF R
  <2>3. ~closed => GoodNt(R, at, gap, out)
    BY Zenon, <1>1, <1>13 DEF R
  <2>4. info' = [info EXCEPT ![dirinfo] = R] /\ (~closed => GoodNt(R, scan'[R.ntHandle], gap', out))
    BY Zenon, <1>15, <2>1, <2>2, <2>3 DEF R
  <2> QED
    BY ZenonT(60), <1>7, <1>15, <2>1, <2>2, <2>4
\* The directory is listed by name from now on: nothing is listed yet.
<1>16. ASSUME ~closed, restart, r.ntPos = 0,
              info' = [info EXCEPT ![dirinfo] = [r EXCEPT !.ntHandle = NoHandle, !.buf = 0, !.reader = "Find"]],
              EnterFind(g), got' = [got EXCEPT ![g] = <<>>], UNCHANGED <<n, mu, listed, ended, scan, gap, faults>>
       PROVE  Listing'
  <2> DEFINE R == [r EXCEPT !.ntHandle = NoHandle, !.buf = 0, !.reader = "Find"]
  <2>1. R \in InfoType
    <3>1. 0 \in 0..MaxBuf
      BY SizesAssumption
    <3> QED
      BY ZenonT(60), <1>1, <3>1 DEF InfoType
  <2>2. R.reader = "Find" /\ R.findOpen = r.findOpen /\ R.findEOF = r.findEOF
    BY Zenon, <1>1 DEF InfoType
  <2>3. info' = [info EXCEPT ![dirinfo] = R]
    BY Zenon, <1>16
  <2> HIDE DEF R
  <2>4. gap = FALSE /\ Run(out, 0, FALSE)
    <3>1. gap = FALSE /\ Run(out, r.ntPos, gap)
      BY Zenon, <1>1, <1>4, <1>16
    <3> QED
      BY Zenon, <1>16, <3>1
  <2>5. got[g] = <<>>
    BY Zenon, <1>1, <2>4, RunRewound DEF out
  <2>6. Found(R) = 0 /\ ~R.findEOF
    BY Zenon, <1>4, <1>16, <2>2 DEF Found
  <2>7. GoodFind(R, gap, out)
    BY Zenon, <2>4, <2>6 DEF GoodFind
  <2>8. Good(R, scan', gap, out)
    <3>1. R.reader # "InfoEx" /\ R.reader # "NtQuery"
      BY Zenon, <2>2
    <3> QED
      BY Zenon, <2>7, <3>1 DEF Good
  <2>9. got' = [got EXCEPT ![g] = got[g]]
    BY Zenon, <1>16, <2>5
  <2>10. n' = [n EXCEPT ![g] = n[g]]
    BY Zenon, <1>16 DEF Safe, TypeOK
  <2>11. pc' = [pc EXCEPT ![g] = "read"] /\ d' = [d EXCEPT ![g] = dirinfo]
    BY Zenon, <1>1, <1>16 DEF EnterFind
  <2>12. pc' = pc
    BY ZenonT(60), <1>1, <2>11, SameExcept DEF Safe, TypeOK
  <2>13. d' = d
    BY ZenonT(60), <1>1, <2>11 DEF Safe, TypeOK
  <2> QED
    BY ZenonT(60), <1>1, <1>2, <1>16, <2>1, <2>3, <2>8, <2>9, <2>10, <2>12, <2>13, GoesOnListing DEF out
<1> USE DEF size
<1>17. \/ /\ fs.nt /\ ~closed
          /\ \E a \in Answers(pos, size) :
                /\ info' = [info EXCEPT ![dirinfo] = [r EXCEPT !.next = a[1], !.last = a[2],
                                                      !.buf = size, !.ntStarted = TRUE]]
                /\ scan' = [scan EXCEPT ![r.ntHandle] = a[2]]
          /\ GoesOn /\ UNCHANGED <<reopened, gap, faults>>
       \/ /\ ~closed /\ AtEnd(pos)
          /\ \E started \in {r.ntStarted, TRUE} :
                info' = [info EXCEPT ![dirinfo] = [r EXCEPT !.ntEOF = TRUE, !.buf = 0, !.ntStarted = started]]
          /\ GoesOn /\ UNCHANGED <<scan, reopened, gap, faults>>
       \/ /\ ~closed
          /\ \E a \in TooBig(pos, size), moved \in BOOLEAN :
                /\ scan' = [scan EXCEPT ![r.ntHandle] = IF moved THEN a ELSE pos]
                /\ \/ /\ 2 * size <= MaxBuf
                      /\ info' = [info EXCEPT ![dirinfo] = Regrown(r, size)]
                      /\ GoesOn /\ UNCHANGED gap
                   \/ /\ 2 * size > MaxBuf
                      /\ info' = [info EXCEPT ![dirinfo] = [r EXCEPT !.buf = size]]
                      /\ gap' = (gap \/ (moved /\ ~restart))
                      /\ Return(g, TRUE)
       \/ /\ ~closed /\ restart /\ r.ntPos = 0
          /\ info' = [info EXCEPT ![dirinfo] = [r EXCEPT !.ntHandle = NoHandle, !.buf = 0, !.reader = "Find"]]
          /\ EnterFind(g)
          /\ got' = [got EXCEPT ![g] = <<>>]
          /\ UNCHANGED <<n, mu, listed, ended, scan, gap, faults>>
       \/ /\ info' = [info EXCEPT ![dirinfo] = [r EXCEPT !.buf = size]]
          /\ Return(g, TRUE)
          /\ UNCHANGED <<scan, reopened, gap>>
  BY ZenonT(60), <1>1 DEF NtQuery
<1> HIDE DEF size, pos, at, r
<1> QED
  BY ZenonT(60), <1>8, <1>9, <1>11, <1>14, <1>15, <1>16, <1>17

\* What a call listing by name knows.
LEMMA FindGood ==
  ASSUME Safe, Listing, NEW g \in Readers, pc[g] = "read", info[dirinfo].reader = "Find"
  PROVE  /\ ~closed /\ dirinfo \in Infos /\ info[dirinfo] \in InfoType /\ N \in Nat /\ gap \in BOOLEAN
         /\ GoodFind(info[dirinfo], gap, listed \o got[g])
         /\ Good(info[dirinfo], scan, gap, listed \o got[g])
         /\ listed \in Seq(1..N) /\ got[g] \in Seq(1..N)
<1>1. ~closed /\ dirinfo \in Infos /\ info[dirinfo] \in InfoType /\ N \in Nat /\ gap \in BOOLEAN
      /\ listed \in Seq(1..N) /\ got[g] \in Seq(1..N)
  BY Zenon, ReadingFacts, NoInfoApart DEF Safe, Buffers, TypeOK
<1>2. Good(info[dirinfo], scan, gap, listed \o got[g])
  BY Zenon, <1>1, ListingGood
<1> QED
  BY Zenon, <1>1, <1>2 DEF Good

\* A step of the search by name, up to where it returns.
LEMMA FindOn ==
  ASSUME Safe, Listing, NEW g \in Readers, pc[g] = "read", info[dirinfo].reader = "Find",
         NEW R \in InfoType, R.reader = "Find", info' = [info EXCEPT ![dirinfo] = R],
         UNCHANGED <<pc, d, mu, listed, ended, gap>>, UNCHANGED <<fs, sizes, dirinfo, vseek>>,
         NEW t, got' = [got EXCEPT ![g] = t], NEW m, n' = [n EXCEPT ![g] = m],
         m = 0 => t # <<>>, GoodFind(R, gap, listed \o t)
  PROVE  Listing'
<1>1. R.reader # "InfoEx" /\ R.reader # "NtQuery"
  BY Zenon
<1>2. Good(R, scan', gap, listed \o t)
  BY Zenon, <1>1 DEF Good
<1> QED
  BY Zenon, <1>2, FindGood, GoesOnListing

\* FindFirstFile keeps Listing: its entry is pending and not listed.
LEMMA FindFirstListing ==
  ASSUME Safe, Listing, NEW g \in Readers, FindFirst(g)
  PROVE  Listing'
<1> DEFINE r == info[dirinfo]
           out == listed \o got[g]
<1>1. /\ pc[g] = "read" /\ n[g] # 0 /\ d[g] = dirinfo /\ r.reader = "Find" /\ ~r.findOpen /\ ~r.findEOF
      /\ UNCHANGED <<vworld, dirinfo, scan, reopened, vseek, gap, calls>>
  BY Zenon, ReadingFacts DEF FindFirst
<1>2. /\ ~closed /\ dirinfo \in Infos /\ r \in InfoType /\ N \in Nat /\ gap \in BOOLEAN
      /\ GoodFind(r, gap, out) /\ Good(r, scan, gap, out)
  BY Zenon, <1>1, FindGood
<1>3. Found(r) = 0 /\ Run(out, 0, gap)
  BY Zenon, <1>1, <1>2 DEF GoodFind, Found
<1>4. UNCHANGED <<fs, sizes, dirinfo, vseek>>
  BY Zenon, <1>1 DEF vworld
<1>5. ASSUME NEW R \in InfoType, R.reader = "Find", info' = [info EXCEPT ![dirinfo] = R], GoesOn,
             GoodFind(R, gap, out)
      PROVE  Listing'
  <2>1. got' = [got EXCEPT ![g] = got[g]] /\ n' = [n EXCEPT ![g] = n[g]]
    BY Zenon, <1>5 DEF GoesOn, Safe, TypeOK
  <2>2. UNCHANGED <<pc, d, mu, listed, ended, gap>>
    BY Zenon, <1>1, <1>5 DEF GoesOn
  <2> QED
    BY ZenonT(60), <1>1, <1>4, <1>5, <2>1, <2>2, FindOn
<1>6. ASSUME NEW e \in FirstEntries(Restart) \cap 0..N, GoesOn,
             info' = [info EXCEPT ![dirinfo] = [r EXCEPT !.findOpen = TRUE, !.findAt = e, !.findPending = TRUE]]
      PROVE  Listing'
  <2> DEFINE R == [r EXCEPT !.findOpen = TRUE, !.findAt = e, !.findPending = TRUE]
  <2>1. e \in 0..N /\ e \in {0, 1}
    BY Zenon, <1>6 DEF FirstEntries
  <2>2. R \in InfoType
    BY Zenon, <1>2, <2>1 DEF InfoType
  <2>3. R.reader = r.reader /\ R.findOpen = TRUE /\ R.findAt = e /\ R.findPending = TRUE /\ R.findEOF = r.findEOF
    BY Zenon, <1>2 DEF InfoType
  <2>4. info' = [info EXCEPT ![dirinfo] = R]
    BY Zenon, <1>6
  <2> HIDE DEF R
  <2>5. Prev(e) = 0
    BY <2>1 DEF Prev
  <2>6. Found(R) = 0
    BY Zenon, <2>3, <2>5 DEF Found
  <2>7. GoodFind(R, gap, out) /\ R.reader = "Find"
    BY Zenon, <1>1, <1>3, <2>3, <2>6 DEF GoodFind
  <2> QED
    BY Zenon, <1>5, <1>6, <2>2, <2>4, <2>7
<1>7. ASSUME AtEnd(Restart), GoesOn, info' = [info EXCEPT ![dirinfo] = [r EXCEPT !.findEOF = TRUE]]
      PROVE  Listing'
  <2> DEFINE R == [r EXCEPT !.findEOF = TRUE]
  <2>1. N = 0
    BY <1>2, <1>7 DEF AtEnd, FirstEntries, Restart
  <2>2. R \in InfoType
    BY Zenon, <1>2 DEF InfoType
  <2>3. R.reader = r.reader /\ R.findOpen = r.findOpen
    BY Zenon, <1>2 DEF InfoType
  <2>4. info' = [info EXCEPT ![dirinfo] = R]
    BY Zenon, <1>7
  <2> HIDE DEF R
  <2>5. Found(R) = 0
    BY Zenon, <1>1, <2>3 DEF Found
  <2>6. GoodFind(R, gap, out) /\ R.reader = "Find"
    BY Zenon, <1>1, <1>3, <2>1, <2>3, <2>5 DEF GoodFind
  <2> QED
    BY Zenon, <1>5, <1>7, <2>2, <2>4, <2>6
<1>8. ASSUME Return(g, TRUE), UNCHANGED info PROVE Listing'
  <2>1. gap' \in BOOLEAN /\ (gap => gap') /\ Good(r, scan', gap', out) /\ TRUE # FALSE
    BY Zenon, <1>1, <1>2
  <2> QED
    BY ZenonT(60), <1>1, <1>2, <1>4, <1>8, <2>1, LeavesListing
<1> QED
  BY Zenon, <1>1, <1>6, <1>7, <1>8 DEF FindFirst

\* FindNextFile keeps Listing: the pending entry or the next one is listed.
LEMMA FindNextListing ==
  ASSUME Safe, Listing, NEW g \in Readers, FindNext(g)
  PROVE  Listing'
<1> DEFINE r == info[dirinfo]
           out == listed \o got[g]
           e == IF r.findPending THEN r.findAt ELSE r.findAt + 1
<1>1. /\ pc[g] = "read" /\ n[g] # 0 /\ d[g] = dirinfo /\ r.reader = "Find" /\ r.findOpen /\ ~r.findEOF
      /\ UNCHANGED <<vworld, dirinfo, vkernel, vseek, gap, calls>>
  BY Zenon, ReadingFacts DEF FindNext
<1>2. /\ ~closed /\ dirinfo \in Infos /\ r \in InfoType /\ N \in Nat /\ gap \in BOOLEAN
      /\ GoodFind(r, gap, out) /\ Good(r, scan, gap, out) /\ listed \in Seq(1..N) /\ got[g] \in Seq(1..N)
  BY Zenon, <1>1, FindGood
<1>3. e \in 0..N + 1 /\ Prev(e) \in 0..N /\ Found(r) = Prev(e) /\ (e > N => Found(r) = N)
  <2>1. r.findAt \in 0..N
    BY Zenon, <1>2, InfoFields
  <2>2. CASE r.findPending
    <3>1. e = r.findAt
      BY Zenon, <2>2
    <3>2. Found(r) = Prev(e)
      BY Zenon, <1>1, <2>2, <3>1 DEF Found
    <3> HIDE DEF e
    <3> QED
      BY Zenon, <1>2, <2>1, <3>1, <3>2, PrevOfPending
  <2>3. CASE ~r.findPending
    <3>1. e = r.findAt + 1
      BY Zenon, <2>3
    <3>2. Found(r) = r.findAt
      BY Zenon, <1>1, <2>3 DEF Found
    <3> HIDE DEF e
    <3> QED
      BY Zenon, <1>2, <2>1, <3>1, <3>2, PrevOfNext
  <2> QED
    BY ZenonT(60), <2>2, <2>3
<1>4. Run(out, Prev(e), gap)
  BY Zenon, <1>2, <1>3 DEF GoodFind
<1>5. UNCHANGED <<fs, sizes, dirinfo, vseek>>
  BY Zenon, <1>1 DEF vworld
<1>6. n[g] \in Int /\ n \in [Readers -> Int] /\ got \in [Readers -> Seq(1..N)]
  BY Zenon DEF Safe, TypeOK
<1> HIDE DEF e
<1>7. ASSUME e <= N, info' = [info EXCEPT ![dirinfo] = [r EXCEPT !.findAt = e, !.findPending = FALSE]],
             IF e = 0 THEN UNCHANGED <<n, got>>
             ELSE /\ got' = [got EXCEPT ![g] = Append(@, e)]
                  /\ n' = [n EXCEPT ![g] = IF @ < 0 THEN @ ELSE @ - 1],
             UNCHANGED <<pc, d, mu, listed, ended, faults>>
      PROVE  Listing'
  <2> DEFINE R == [r EXCEPT !.findAt = e, !.findPending = FALSE]
             t == IF e = 0 THEN got[g] ELSE Append(got[g], e)
             m == IF e = 0 THEN n[g] ELSE IF n[g] < 0 THEN n[g] ELSE n[g] - 1
  <2>1. e \in 0..N
    BY <1>2, <1>3, <1>7
  <2>2. R \in InfoType
    BY Zenon, <1>2, <2>1 DEF InfoType
  <2>3. R.reader = r.reader /\ R.findOpen = r.findOpen /\ R.findAt = e /\ R.findPending = FALSE
        /\ R.findEOF = r.findEOF
    BY Zenon, <1>2 DEF InfoType
  <2>4. info' = [info EXCEPT ![dirinfo] = R]
    BY Zenon, <1>7
  <2> HIDE DEF R
  <2>5. Found(R) = e
    BY Zenon, <1>1, <2>3 DEF Found
  <2>6. got' = [got EXCEPT ![g] = t] /\ n' = [n EXCEPT ![g] = m]
    <3>1. CASE e = 0
      BY Zenon, <1>6, <1>7, <3>1
    <3>2. CASE e # 0
      BY Zenon, <1>7, <3>2
    <3> QED
      BY Zenon, <3>1, <3>2
  <2>7. m = 0 => t # <<>>
    <3>1. CASE e = 0
      BY Zenon, <1>1, <3>1
    <3>2. CASE e # 0
      <4>1. Append(got[g], e) # <<>>
        <5>1. e \in 1..N
          BY <1>2, <2>1, <3>2
        <5>2. Len(Append(got[g], e)) = Len(got[g]) + 1 /\ Len(got[g]) \in Nat
          BY <1>2, <5>1
        <5>3. Len(<<>>) = 0
          BY Zenon
        <5> QED
          BY <5>2, <5>3
      <4> QED
        BY Zenon, <3>2, <4>1
    <3> QED
      BY Zenon, <3>1, <3>2
  <2>8. Run(listed \o t, e, gap)
    <3>1. CASE e = 0
      <4>1. Prev(e) = e /\ t = got[g]
        BY Zenon, <3>1 DEF Prev
      <4> QED
        BY Zenon, <1>4, <4>1
    <3>2. CASE e # 0
      <4>1. e \in 1..N /\ Prev(e) < e /\ e = Prev(e) + 1
        BY <2>1, <1>2, <3>2 DEF Prev
      <4>2. t = Append(got[g], e)
        BY Zenon, <3>2
      <4>3. Run(listed \o Append(got[g], e), e, gap)
        BY Zenon, <1>2, <1>3, <1>4, <4>1, RunAppend
      <4> QED
        BY Zenon, <4>2, <4>3
    <3> QED
      BY Zenon, <3>1, <3>2
  <2> HIDE DEF t, m
  <2>9. GoodFind(R, gap, listed \o t) /\ R.reader = "Find"
    BY Zenon, <1>1, <2>3, <2>5, <2>8 DEF GoodFind
  <2>10. UNCHANGED <<pc, d, mu, listed, ended, gap>>
    BY Zenon, <1>1, <1>7
  <2> QED
    BY ZenonT(60), <1>1, <1>5, <2>2, <2>4, <2>6, <2>7, <2>9, <2>10, FindOn
<1>8. ASSUME e > N, info' = [info EXCEPT ![dirinfo] = [r EXCEPT !.findEOF = TRUE]], GoesOn
      PROVE  Listing'
  <2> DEFINE R == [r EXCEPT !.findEOF = TRUE]
  <2>1. R \in InfoType
    BY Zenon, <1>2 DEF InfoType
  <2>2. R.reader = r.reader /\ R.findOpen = r.findOpen /\ R.findAt = r.findAt /\ R.findPending = r.findPending
    BY Zenon, <1>2 DEF InfoType
  <2>3. info' = [info EXCEPT ![dirinfo] = R]
    BY Zenon, <1>8
  <2> HIDE DEF R
  <2>4. Found(R) = Found(r)
    BY Zenon, <2>2 DEF Found
  <2>5. GoodFind(R, gap, out) /\ R.reader = "Find"
    BY Zenon, <1>1, <1>2, <1>3, <1>8, <2>2, <2>4 DEF GoodFind
  <2>6. got' = [got EXCEPT ![g] = got[g]] /\ n' = [n EXCEPT ![g] = n[g]]
    BY Zenon, <1>6, <1>8 DEF GoesOn
  <2>7. UNCHANGED <<pc, d, mu, listed, ended, gap>>
    BY Zenon, <1>1, <1>8 DEF GoesOn
  <2> QED
    BY ZenonT(60), <1>1, <1>5, <2>1, <2>3, <2>5, <2>6, <2>7, FindOn
<1>9. ASSUME Return(g, TRUE), UNCHANGED info PROVE Listing'
  <2>1. gap' \in BOOLEAN /\ (gap => gap') /\ Good(r, scan', gap', out) /\ TRUE # FALSE
    BY Zenon, <1>1, <1>2 DEF vkernel
  <2> QED
    BY Zenon, <1>1, <1>2, <1>5, <1>9, <2>1, LeavesListing
<1> QED
  BY Zenon, <1>1, <1>7, <1>8, <1>9 DEF FindNext, e

\* Nothing that was listed or is about to be changes.
LEMMA QuietListing ==
  ASSUME Safe, Listing, UNCHANGED <<fs, sizes, dirinfo, scan, listed, ended, gap, got, ctl, closed, mu>>,
         dirinfo # NoInfo => info'[dirinfo] = info[dirinfo],
         \A h \in Readers : Wanted(h)'
  PROVE  Listing'
<1>1. N' = N /\ Out' = Out
  BY Zenon DEF N, Out
<1>2. (EachOnceInOrder /\ EndIsTheEnd)'
  BY Zenon, <1>1 DEF Listing, EachOnceInOrder, EndIsTheEnd
<1>3. ~closed' /\ dirinfo' # NoInfo => Good(info[dirinfo], scan, gap, Out)'
  <2> SUFFICES ASSUME ~closed', dirinfo' # NoInfo PROVE Good(info[dirinfo], scan, gap, Out)'
    BY Zenon
  <2>1. Good(info[dirinfo], scan', gap', Out) /\ info'[dirinfo] = info[dirinfo]
    BY Zenon DEF Listing
  <2> QED
    BY Zenon, <1>1, <2>1, GoodStill
<1>4. ~closed' /\ ctl' # "close" /\ dirinfo' = NoInfo => listed' = <<>> /\ ~ended' /\ ~gap'
  BY Zenon DEF Listing
<1>5. closed' /\ dirinfo' # NoInfo =>
        /\ info'[dirinfo'].next > info'[dirinfo'].last /\ ~info'[dirinfo'].ntEOF
        /\ \A g \in Readers : got'[g] = <<>>
  BY Zenon DEF Listing
<1> QED
  BY Zenon, <1>2, <1>3, <1>4, <1>5 DEF Listing

\* A call that moves on before it reads.
LEMMA WantedMoves ==
  ASSUME Safe, Listing, NEW g \in Readers, NEW p \in {"load", "cas", "lock"},
         pc[g] # "read", pc' = [pc EXCEPT ![g] = p], n'[g] # 0, \A h \in Readers \ {g} : n'[h] = n[h], got' = got
  PROVE  \A h \in Readers : Wanted(h)'
<1> SUFFICES ASSUME NEW h \in Readers PROVE Wanted(h)'
  BY Zenon
<1>1. pc'[h] = IF h = g THEN p ELSE pc[h]
  BY Zenon DEF Safe, TypeOK
<1>2. p # "read" /\ Wanted(h)
  BY Zenon DEF Listing
<1> QED
  BY Zenon, <1>1, <1>2 DEF Wanted

\* A new call keeps Listing.
LEMMA StartListing ==
  ASSUME Safe, Listing, NEW g \in Readers, Start(g)
  PROVE  Listing'
<1>1. /\ pc[g] = "idle" /\ pc' = [pc EXCEPT ![g] = "load"]
      /\ UNCHANGED <<vworld, dirinfo, info, mu, vkernel, d, got, vseek, vlisted, faults>>
  BY Zenon DEF Start
<1>2. PICK k \in Counts : n' = [n EXCEPT ![g] = k]
  BY Zenon DEF Start
<1>3. k # 0 /\ pc[g] # "read" /\ "load" \in {"load", "cas", "lock"}
  BY Zenon, <1>1, InputsAssumption
<1>4. n'[g] # 0 /\ \A h \in Readers \ {g} : n'[h] = n[h]
  BY ZenonT(60), <1>2, <1>3 DEF Safe, TypeOK
<1>5. \A h \in Readers : Wanted(h)'
  BY Zenon, <1>1, <1>3, <1>4, WantedMoves
<1>6. UNCHANGED <<fs, sizes, dirinfo, info, scan, listed, ended, gap, got, ctl, closed, mu>>
  BY Zenon, <1>1 DEF vworld, vkernel, vseek, vlisted
<1> QED
  BY Zenon, <1>5, <1>6, QuietListing

\* Taking the dirInfo of the file, or making one, keeps Listing.
LEMMA LoadListing ==
  ASSUME Safe, Listing, NEW g \in Readers, Load(g)
  PROVE  Listing'
<1>1. /\ pc[g] = "load"
      /\ UNCHANGED <<vworld, dirinfo, mu, vkernel, n, got, vseek, vlisted, calls, faults>>
  BY Zenon DEF Load
<1>2. pc[g] # "read" /\ pc[g] # "idle" /\ "lock" \in {"load", "cas", "lock"} /\ "cas" \in {"load", "cas", "lock"}
  BY Zenon, <1>1
<1>3. n'[g] # 0
  BY Zenon, <1>1, <1>2 DEF Listing, Wanted
<1>4. \E p \in {"load", "cas", "lock"} : pc' = [pc EXCEPT ![g] = p]
  BY Zenon, <1>2 DEF Load
<1>5. \A h \in Readers : Wanted(h)'
  BY Zenon, <1>1, <1>2, <1>3, <1>4, WantedMoves
<1>6. UNCHANGED <<fs, sizes, dirinfo, scan, listed, ended, gap, got, ctl, closed, mu>>
  BY Zenon, <1>1 DEF vworld, vkernel, vseek, vlisted
<1>7. dirinfo # NoInfo => info'[dirinfo] = info[dirinfo]
  BY Zenon DEF Load
<1> QED
  BY Zenon, <1>5, <1>6, <1>7, QuietListing

\* Publishing a new dirInfo keeps Listing: nothing was listed since Seek.
LEMMA CasListing ==
  ASSUME Safe, Listing, NEW g \in Readers, Cas(g)
  PROVE  Listing'
<1>1. /\ pc[g] = "cas"
      /\ UNCHANGED <<vworld, info, mu, vkernel, n, got, vseek, vlisted, calls, faults>>
  BY Zenon DEF Cas
<1>2. pc[g] # "read" /\ pc[g] # "idle" /\ "lock" \in {"load", "cas", "lock"} /\ "load" \in {"load", "cas", "lock"}
  BY Zenon, <1>1
<1>3. n'[g] # 0 /\ ctl = "idle" /\ ctl # "close"
  <2>1. n'[g] # 0 /\ ctl = "idle"
    BY ZenonT(60), <1>1, <1>2 DEF Listing, Wanted, Safe, Control
  <2> QED
    BY Zenon, <2>1
<1>4. \E p \in {"load", "cas", "lock"} : pc' = [pc EXCEPT ![g] = p]
  BY Zenon, <1>2 DEF Cas
<1>5. \A h \in Readers : Wanted(h)'
  BY Zenon, <1>1, <1>2, <1>3, <1>4, WantedMoves
<1>6. UNCHANGED <<fs, sizes, info, scan, listed, ended, gap, got, ctl, closed, mu>>
  BY Zenon, <1>1 DEF vworld, vkernel, vseek, vlisted
<1>7. CASE dirinfo # NoInfo
  <2>1. dirinfo' = dirinfo
    BY Zenon, <1>7 DEF Cas
  <2> QED
    BY Zenon, <1>5, <1>6, <2>1, QuietListing
<1>8. CASE dirinfo = NoInfo
  <2>1. dirinfo' = d[g] /\ d[g] \in Infos /\ info[d[g]] = NewInfo /\ d[g] # NoInfo /\ mu[d[g]] = None
    BY ZenonT(60), <1>1, <1>8, NoInfoApart DEF Cas, Safe, Control, CallOf
  <2>2. N' = N /\ N \in Nat /\ gap \in BOOLEAN
    BY ZenonT(60), <1>6, NIsNat DEF N, Safe, TypeOK
  <2>3. (EachOnceInOrder /\ EndIsTheEnd)'
    BY ZenonT(60), <1>6, <2>2 DEF Listing, EachOnceInOrder, EndIsTheEnd
  <2>4. NewInfo.next > NewInfo.last /\ ~NewInfo.ntEOF /\ Restarts(NewInfo.class)
        /\ NewInfo.reader = "InfoEx" /\ NewInfo.ntHandle = NoHandle /\ NewInfo.ntPos = 0 /\ NewInfo.ntSeen = 0
    <3>1. fs.class \in {"FullRestart", "IdBothRestart"}
      BY Zenon, FileSystemsAssumption DEF Safe, TypeOK, FSType
    <3>2. Restarts(NewInfo.class)
      BY Zenon, <3>1 DEF NewInfo, Restarts
    <3> QED
      BY <3>2 DEF NewInfo
  <2>5. ~NewInfo.ntStarted /\ ~NewInfo.findOpen /\ ~NewInfo.findEOF
    BY Zenon DEF NewInfo
  <2>6. ~closed' /\ dirinfo' # NoInfo => Good(info[dirinfo], scan, gap, Out)'
    <3> SUFFICES ASSUME ~closed PROVE Good(info[dirinfo], scan, gap, Out)'
      BY Zenon, <1>6
    <3>1. listed = <<>> /\ ~gap
      BY Zenon, <1>3, <1>8 DEF Listing
    <3>2. Run(<<>>, 0, gap)
      BY Zenon, <2>2, RunEmpty
    <3>3. Out' = <<>>
      BY Zenon, <1>6, <2>1, <3>1 DEF Out
    <3>4. GoodInfoEx(NewInfo, scan'[FileHandle], gap, <<>>)
      BY Zenon, <2>4, <2>5, <3>1, <3>2 DEF GoodInfoEx
    <3>5. NewInfo.reader # "NtQuery" /\ NewInfo.reader # "Find"
      BY Zenon, <2>4
    <3>6. Good(NewInfo, scan', gap', <<>>)
      BY Zenon, <1>6, <3>4, <3>5 DEF Good
    <3>7. info'[dirinfo'] = NewInfo
      BY ZenonT(60), <1>6, <2>1
    <3> HIDE DEF NewInfo
    <3> QED
      BY ZenonT(60), <1>6, <2>2, <3>3, <3>6, <3>7 DEF Good, GoodInfoEx, GoodNt, GoodFind, Run, Found, Before, Prev
  <2>7. \A h \in Readers : got'[h] = <<>>
    BY ZenonT(60), <1>6, <1>8 DEF Safe, Control, CallOf, Listing, Wanted
  <2> QED
    BY ZenonT(60), <1>5, <1>6, <2>1, <2>3, <2>4, <2>6, <2>7 DEF Listing
<1> QED
  BY Zenon, <1>7, <1>8

\* Taking the lock, and a buffer, keeps Listing: a buffer from the pool is not
\* smaller than what the scan needs.
LEMMA LockListing ==
  ASSUME Safe, Listing, NEW g \in Readers, Lock(g)
  PROVE  Listing'
<1> DEFINE r == info[dirinfo]
           b == CASE r.reader = "Find" -> 0 [] r.buf = 0 -> PoolSize [] OTHER -> r.buf
           R == [r EXCEPT !.buf = b]
<1>1. /\ pc[g] = "lock" /\ d[g] = dirinfo /\ dirinfo \in Infos /\ mu[dirinfo] = None /\ dirinfo # NoInfo
      /\ r \in InfoType /\ N \in Nat /\ g # None
      /\ UNCHANGED <<vworld, dirinfo, vkernel, n, got, vseek, vlisted, calls, faults>>
  BY ZenonT(60), NIsNat, NoInfoApart, ReadersAssumption DEF Lock, Safe, Control, CallOf, TypeOK
<1>2. /\ mu' = [mu EXCEPT ![dirinfo] = g] /\ info' = [info EXCEPT ![dirinfo] = R]
  BY Zenon, <1>1 DEF Lock
<1>3. pc' = [pc EXCEPT ![g] = "read"]
  BY Zenon, <1>1 DEF Lock, EnterFind
<1>4. UNCHANGED <<fs, sizes, dirinfo, scan, listed, ended, gap, got, n, ctl, closed>> /\ N' = N
  BY Zenon, <1>1 DEF vworld, vkernel, vseek, vlisted, N
<1>5. (EachOnceInOrder /\ EndIsTheEnd)'
  BY Zenon, <1>4 DEF Listing, EachOnceInOrder, EndIsTheEnd
<1>6. got[g] = <<>> /\ n[g] # 0
  <2>1. pc[g] # "read" /\ pc[g] # "idle"
    BY Zenon, <1>1
  <2> QED
    BY Zenon, <2>1 DEF Listing, Wanted
<1>7. \A h \in Readers : Wanted(h)'
  <2> SUFFICES ASSUME NEW h \in Readers PROVE Wanted(h)'
    BY Zenon
  <2>1. pc'[h] = IF h = g THEN "read" ELSE pc[h]
    BY Zenon, <1>3 DEF Safe, TypeOK
  <2> QED
    BY ZenonT(60), <1>4, <1>6, <2>1 DEF Listing, Wanted
<1>8. b \in 0..MaxBuf /\ (r.reader = "NtQuery" => b = IF r.buf = 0 THEN PoolSize ELSE r.buf)
  <2>1. r.buf \in 0..MaxBuf
    BY Zenon, <1>1, InfoFields
  <2>2. 0 \in 0..MaxBuf /\ PoolSize \in 0..MaxBuf /\ "NtQuery" # "Find"
    BY SizesAssumption
  <2>3. CASE r.reader = "Find"
    BY Zenon, <2>2, <2>3
  <2>4. CASE r.reader # "Find"
    BY Zenon, <2>1, <2>2, <2>4
  <2> QED
    BY Zenon, <2>3, <2>4
<1> HIDE DEF b
<1>9. R \in InfoType
  BY Zenon, <1>1, <1>8 DEF InfoType
<1>10. R.buf = b /\ R.next = r.next /\ R.last = r.last /\ R.reader = r.reader /\ R.class = r.class
       /\ R.ntHandle = r.ntHandle /\ R.ntPos = r.ntPos /\ R.ntSeen = r.ntSeen
  BY Zenon, <1>1 DEF InfoType
<1>11. R.ntStarted = r.ntStarted /\ R.ntEOF = r.ntEOF /\ R.findOpen = r.findOpen /\ R.findEOF = r.findEOF
       /\ R.findAt = r.findAt /\ R.findPending = r.findPending
  BY Zenon, <1>1 DEF InfoType
<1> HIDE DEF R
<1>12. info'[dirinfo] = R /\ mu'[dirinfo] = g
  BY ZenonT(60), <1>1, <1>2 DEF Safe, TypeOK
<1>13. Out' = listed /\ Out = listed
  <2>1. Out' = listed \o <<>> /\ Out = listed
    BY Zenon, <1>1, <1>4, <1>6, <1>12 DEF Out
  <2> QED
    BY ZenonT(60), <2>1, ConcatEmpty DEF Safe, TypeOK
<1>14. ~closed => Good(R, scan, gap, listed)
  <2> SUFFICES ASSUME ~closed PROVE Good(R, scan, gap, listed)
    BY Zenon
  <2>1. Good(r, scan, gap, listed)
    BY Zenon, <1>1, <1>13 DEF Listing
  <2>2. \A x : Before(R, x) = Before(r, x)
    BY Zenon, <1>10 DEF Before
  <2>3. ASSUME R.reader = "InfoEx" PROVE GoodInfoEx(R, scan[FileHandle], gap, listed)
    BY ZenonT(60), <1>10, <1>11, <2>1, <2>2, <2>3 DEF Good, GoodInfoEx
  <2>4. ASSUME R.reader = "Find" PROVE GoodFind(R, gap, listed)
    <3>1. Found(R) = Found(r)
      BY Zenon, <1>10, <1>11 DEF Found
    <3> QED
      BY ZenonT(60), <1>10, <1>11, <2>1, <2>4, <3>1 DEF Good, GoodFind
  <2>5. ASSUME R.reader = "NtQuery" PROVE GoodNt(R, scan[R.ntHandle], gap, listed)
    <3>1. GoodNt(r, scan[R.ntHandle], gap, listed)
      BY Zenon, <1>10, <2>1, <2>5 DEF Good
    <3>2. b = (IF r.buf = 0 THEN PoolSize ELSE r.buf) /\ r.buf \in 0..MaxBuf
      BY ZenonT(60), <1>1, <1>8, <1>10, <2>5 DEF InfoType
    <3>3. 2 * r.buf > MaxBuf => 2 * R.buf > MaxBuf
      BY SMTT(30), <1>10, <3>2, SizesAssumption
    <3>4. ASSUME NEW m \in Nat, m <= N, \A e \in 1..m : sizes[e] <= r.buf
          PROVE  \A e \in 1..m : sizes[e] <= R.buf
      <4> SUFFICES ASSUME NEW e \in 1..m PROVE sizes[e] <= b
        BY Zenon, <1>10
      <4>1. sizes \in Seq(Nat) /\ sizes[e] <= r.buf
        BY ZenonT(60), <3>4, InputsAssumption DEF Safe, TypeOK
      <4>3. m \in 0..N
        BY <1>1, <3>4
      <4>2. sizes[e] \in Nat
        BY ZenonT(60), <1>1, <3>4, <4>3, EntrySize
      <4> QED
        BY <3>2, <4>1, <4>2, SizesAssumption
    <3>5. r.last \in Nat /\ r.last <= N /\ r.ntPos \in Nat
      BY <1>1 DEF InfoType
    <3>6. ~gap => r.ntPos <= N
      <4>1. ~gap => r.ntPos \in 0..N
        BY Zenon, <3>1 DEF GoodNt, Run
      <4> QED
        BY <1>1, <4>1
    <3>7. ~r.ntEOF /\ ~gap => /\ \A e \in 1..r.ntPos : sizes[e] <= R.buf
                              /\ r.next <= r.last => \A e \in 1..r.last : sizes[e] <= R.buf
      BY Zenon, <3>1, <3>4, <3>5, <3>6 DEF GoodNt
    <3> QED
      BY ZenonT(60), <1>10, <1>11, <2>2, <3>1, <3>3, <3>7 DEF GoodNt
  <2> QED
    BY Zenon, <2>3, <2>4, <2>5 DEF Good
<1>15. ~closed' /\ dirinfo' # NoInfo => Good(info[dirinfo], scan, gap, Out)'
  <2> SUFFICES ASSUME ~closed' PROVE Good(info[dirinfo], scan, gap, Out)'
    BY Zenon
  <2>1. Good(R, scan', gap', listed)
    BY Zenon, <1>4, <1>14
  <2> QED
    BY Zenon, <1>4, <1>12, <1>13, <2>1, GoodStill
<1>16. closed' /\ dirinfo' # NoInfo =>
         /\ info'[dirinfo'].next > info'[dirinfo'].last /\ ~info'[dirinfo'].ntEOF
         /\ \A h \in Readers : got'[h] = <<>>
  BY ZenonT(60), <1>1, <1>4, <1>10, <1>11, <1>12 DEF Listing
<1> QED
  BY ZenonT(60), <1>1, <1>4, <1>5, <1>7, <1>15, <1>16 DEF Listing

\* Seek starts the listing over, and Close ends it.
LEMMA SwapListing ==
  ASSUME Safe, Listing, ~SeekRaces, NEW op \in {"seek", "close"}, Swap(op)
  PROVE  Listing'
<1>1. /\ ctl = "idle" /\ (\A g \in Readers : pc[g] = "idle")
      /\ ctl' = op /\ dirinfo' = NoInfo /\ N' = N
      /\ UNCHANGED <<vworld, info, mu, vkernel, pc, d, n, got, closed, calls, faults>>
  BY Zenon DEF Swap, vworld, N
<1>2. \A h \in Readers : Wanted(h)'
  BY Zenon, <1>1 DEF Listing, Wanted
<1>3. CASE op = "seek"
  <2>1. listed' = <<>> /\ ended' = FALSE /\ gap' = FALSE
    BY Zenon, <1>3 DEF Swap
  <2>2. (EachOnceInOrder /\ EndIsTheEnd)'
    BY <2>1 DEF EachOnceInOrder, EndIsTheEnd
  <2> QED
    BY ZenonT(60), <1>1, <1>2, <2>1, <2>2 DEF Listing
<1>4. CASE op = "close"
  <2>1. UNCHANGED <<listed, ended, gap>> /\ ctl' = "close"
    <3>1. op # "seek"
      BY Zenon, <1>4
    <3> QED
      BY Zenon, <1>1, <1>4, <3>1 DEF Swap, vlisted
  <2>2. (EachOnceInOrder /\ EndIsTheEnd)'
    BY ZenonT(60), <1>1, <2>1 DEF Listing, EachOnceInOrder, EndIsTheEnd
  <2> QED
    BY ZenonT(60), <1>1, <1>2, <2>1, <2>2 DEF Listing
<1> QED
  BY Zenon, <1>3, <1>4

\* Closing the dirInfo that was swapped out keeps Listing.
LEMMA CloseInfoListing ==
  ASSUME Safe, Listing, CloseInfo
  PROVE  Listing'
<1>1. /\ ctl # "idle" /\ dirinfo = NoInfo /\ (\A g \in Readers : pc[g] = "idle") /\ N' = N
      /\ ctl' = "idle" /\ closed' = (closed \/ ctl = "close")
      /\ UNCHANGED <<vworld, dirinfo, mu, scan, pc, d, n, got, seeks, vlisted, calls, faults>>
  BY Zenon DEF CloseInfo, Safe, Control, vworld, N
<1>2. \A h \in Readers : Wanted(h)'
  BY Zenon, <1>1 DEF Listing, Wanted
<1>3. UNCHANGED <<listed, ended, gap>>
  BY Zenon, <1>1 DEF vlisted
<1>4. (EachOnceInOrder /\ EndIsTheEnd)'
  BY ZenonT(60), <1>1, <1>3 DEF Listing, EachOnceInOrder, EndIsTheEnd
<1>5. ~closed' => listed' = <<>> /\ ~ended' /\ ~gap'
  BY Zenon, <1>1, <1>3 DEF Listing
<1> QED
  BY ZenonT(60), <1>1, <1>2, <1>4, <1>5 DEF Listing

\* Listing holds before the first call.
LEMMA InitListing ==
  ASSUME Init
  PROVE  Listing
<1>1. EachOnceInOrder /\ EndIsTheEnd
  BY DEF Init, EachOnceInOrder, EndIsTheEnd
<1>2. \A g \in Readers : Wanted(g)
  BY Zenon DEF Init, Wanted
<1> QED
  BY ZenonT(60), <1>1, <1>2 DEF Init, Listing

\* Every step keeps Listing, where scans can be continued and Seek and Close
\* do not race with a call.
LEMMA NextListing ==
  ASSUME Safe, Listing, ~SeekRaces, Continues, [Next]_vars
  PROVE  Listing'
<1>1. CASE UNCHANGED vars
  <2>1. UNCHANGED <<fs, sizes, dirinfo, info, scan, listed, ended, gap, got, ctl, closed, mu, pc, n>>
    BY Zenon, <1>1 DEF vars, vworld, vkernel, vseek, vlisted
  <2>2. \A h \in Readers : Wanted(h)'
    BY Zenon, <2>1 DEF Listing, Wanted
  <2> QED
    BY Zenon, <2>1, <2>2, QuietListing
<1>2. ASSUME NEW g \in Readers, Step(g) PROVE Listing'
  BY ZenonT(60), <1>2, LoadListing, CasListing, LockListing, FinishedListing, DrainListing, InfoExListing,
     NtOpenListing, NtQueryListing, FindFirstListing, FindNextListing DEF Step
<1> QED
  BY Zenon, <1>1, <1>2, StartListing, SwapListing, CloseInfoListing DEF Next

----------------------------------------------------------------------------

(* There are more dirInfos than calls.  Only this needs the theorems about  *)
(* cardinalities, and an instance of them this far down keeps them out of  *)
(* every other proof.  The instance brings its own IsFiniteSet and          *)
(* Cardinality; what they abbreviate relates them to those of ReadDir.      *)

\* S has all its elements in one sequence.
Enumerable(S) == \E seq \in Seq(S) : \A s \in S : \E i \in 1..Len(seq) : seq[i] = s

\* The elements of S are taken away one by one.
Count(S) ==
  LET CS[T \in SUBSET S] == IF T = {} THEN 0 ELSE 1 + CS[T \ {CHOOSE x : x \in T}]
  IN  CS[S]

\* What ReadDir says of the number of goroutines and of dirInfos.
LEMMA InfosCount ==
  Enumerable(Readers) /\ Infos = 1..(2 * Count(Readers) + 1)
<1>1. Enumerable(Readers)
  BY Zenon, ReadersAssumption DEF IsFiniteSet, Enumerable
<1>2. Cardinality(Readers) = Count(Readers)
  BY Zenon DEF Cardinality, Count
<1> QED
  BY Zenon, <1>1, <1>2 DEF Infos

LOCAL INSTANCE FiniteSetTheorems

\* The same in terms of the instance: there are finitely many goroutines, and
\* more than twice as many dirInfos.
LEMMA InfosSuffice ==
  /\ IsFiniteSet(Readers) /\ Cardinality(Readers) \in Nat
  /\ IsFiniteSet(Infos) /\ Cardinality(Infos) = 2 * Cardinality(Readers) + 1
<1>1. IsFiniteSet(Readers)
  BY Zenon, InfosCount DEF IsFiniteSet, Enumerable
<1>2. Cardinality(Readers) = Count(Readers)
  BY Zenon DEF Cardinality, Count
<1>3. Cardinality(Readers) \in Nat
  BY ZenonT(60), <1>1, FS_CardinalityType
<1> HIDE DEF Count
<1>4. IsFiniteSet(Infos) /\ Cardinality(Infos) = 2 * Cardinality(Readers) + 1
  BY SMTT(30), <1>2, <1>3, InfosCount, FS_Interval
<1> QED
  BY ZenonT(60), <1>1, <1>3, <1>4

\* There is a dirInfo nobody refers to: calls have one each at most, and there
\* are more.
LEMMA FreshExists ==
  ASSUME Safe, dirinfo = NoInfo, closing = NoInfo
  PROVE  FreshIsUnused
<1> DEFINE D == {d[g] : g \in Readers}
           C == Cardinality(Readers)
<1>1. IsFiniteSet(D) /\ Cardinality(D) <= C /\ C \in Nat
  <2>1. d \in Surjection(Readers, D)
    <3>1. d \in [Readers -> D]
      BY Zenon DEF Safe, TypeOK
    <3> QED
      BY ZenonT(60), <3>1 DEF Surjection
  <2> HIDE DEF D
  <2> QED
    BY ZenonT(30), <2>1, InfosSuffice, FS_Surjection
<1>2. IsFiniteSet(Infos) /\ Cardinality(Infos) = 2 * C + 1
  BY Zenon, InfosSuffice
<1>3. \E i \in Infos : i \notin D
  <2> SUFFICES ASSUME Infos \subseteq D PROVE FALSE
    BY Zenon
  <2>1. Cardinality(Infos) <= Cardinality(D)
    BY ZenonT(60), <1>1, FS_Subset
  <2>2. Cardinality(D) \in Nat
    BY ZenonT(60), <1>1, FS_CardinalityType
  <2> HIDE DEF D, C
  <2> QED
    BY SMTT(30), <1>1, <1>2, <2>1, <2>2
<1>4. \A i \in Infos : i \notin {dirinfo, closing} /\ mu[i] = None
  BY ZenonT(60), NoInfoApart DEF Safe, Control
<1> QED
  BY ZenonT(60), <1>3, <1>4 DEF Fresh, FreshIsUnused

\* Every step keeps Safe, unless Seek or Close races with a call.
LEMMA NextSafe ==
  ASSUME Safe, ~SeekRaces, [Next]_vars
  PROVE  Safe'
<1>1. CASE UNCHANGED vars
  <2>1. UNCHANGED <<fs, sizes, dirinfo, info, mu, scan, reopened, searches, pc, d, n, got,
                    ctl, closing, closed, seeks, listed, ended, gap, calls, faults>>
    BY ZenonT(60), <1>1 DEF vars, vworld, vkernel, vseek, vlisted
  <2>2. TypeOK'
    BY ZenonT(60), <2>1 DEF Safe, TypeOK, N, InfoType, Infos
  <2>3. Control'
    BY ZenonT(60), <2>1 DEF Safe, Control, CallOf, NewInfo
  <2>4. Handles' /\ Buffers'
    BY ZenonT(60), <2>1 DEF Safe, Handles, Buffers
  <2> QED
    BY ZenonT(60), <2>2, <2>3, <2>4 DEF Safe
<1>2. ASSUME NEW g \in Readers, Load(g) PROVE Safe'
  <2>1. closing = NoInfo
    BY ZenonT(60), <1>2 DEF Load, Safe, Control
  <2> QED
    BY ZenonT(60), <1>2, <2>1, LoadSafe, FreshExists
<1>3. ASSUME NEW g \in Readers, Step(g) PROVE Safe'
  BY ZenonT(60), <1>2, <1>3, CasSafe, LockSafe, FinishedSafe, DrainSafe, InfoExSafe, NtOpenSafe,
     NtQuerySafe, FindFirstSafe, FindNextSafe DEF Step
<1> QED
  BY ZenonT(60), <1>1, <1>3, StartSafe, SwapSafe, CloseInfoSafe DEF Next

\* The fields of the dirInfos and of the calls keep their types, and no buffer
\* grows past maxNtQueryBufSize, whatever the directory, the kernel, the number
\* of goroutines and the buffer sizes.
THEOREM TypeCorrect ==
  ASSUME ~SeekRaces
  PROVE  Spec => []TypeOK
<1>1. Init => Safe
  BY Zenon, InitSafe
<1>2. Safe /\ [Next]_vars => Safe'
  BY Zenon, NextSafe
<1>3. Safe => TypeOK
  BY Zenon DEF Safe
<1> QED
  BY <1>1, <1>2, <1>3, PTL DEF Spec

\* A reopened directory and a search by name always belong to a dirInfo that
\* Seek or Close will close, and after Close none is open.
THEOREM NoHandleForgotten ==
  ASSUME ~SeekRaces
  PROVE  Spec => []HandlesOwned
<1>1. Init => Safe
  BY Zenon, InitSafe
<1>2. Safe /\ [Next]_vars => Safe'
  BY Zenon, NextSafe
<1>3. Safe => HandlesOwned
  BY Zenon DEF Safe, Handles, HandlesOwned
<1> QED
  BY <1>1, <1>2, <1>3, PTL DEF Spec

\* The calls since the last Seek list every entry once and in order, whoever
\* makes them, over changes of the reader, larger buffers and failed queries.
THEOREM ListedInOrder ==
  ASSUME ~SeekRaces, Continues
  PROVE  Spec => []EachOnceInOrder
<1>1. Init => Safe /\ Listing
  BY Zenon, InitSafe, InitListing
<1>2. Safe /\ Listing /\ [Next]_vars => Safe' /\ Listing'
  BY ZenonT(60), NextSafe, NextListing
<1>3. Listing => EachOnceInOrder
  BY ZenonT(60) DEF Listing
<1> QED
  BY <1>1, <1>2, <1>3, PTL DEF Spec

\* io.EOF, and a nil error for all entries, mean that all entries are listed.
THEOREM EndAfterAll ==
  ASSUME ~SeekRaces, Continues
  PROVE  Spec => []EndIsTheEnd
<1>1. Init => Safe /\ Listing
  BY Zenon, InitSafe, InitListing
<1>2. Safe /\ Listing /\ [Next]_vars => Safe' /\ Listing'
  BY Zenon, NextSafe, NextListing
<1>3. Listing => EndIsTheEnd
  BY ZenonT(60) DEF Listing
<1> QED
  BY <1>1, <1>2, <1>3, PTL DEF Spec
=============================================================================
