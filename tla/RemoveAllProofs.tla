-------------------------- MODULE RemoveAllProofs --------------------------
(***************************************************************************)
(* Deleteat and Renameat lose no file by mistake, leave no stray without a *)
(* reason and free the name of a file they delete, and RemoveAll says nil  *)
(* only of a directory that is gone: for any number of callers, files and  *)
(* names, and whatever fails or crashes.                                   *)
(***************************************************************************)
EXTENDS RemoveAllInv, TLAPS

----------------------------------------------------------------------------
(* Steps that move no file.                                                *)

\* The calls of the others are where they were.
Keeps(c) ==
  \A b \in Callers \ {c} :
    /\ pc'[b] = pc[b] /\ ret'[b] = ret[b] /\ name'[b] = name[b] /\ newname'[b] = newname[b]
    /\ opt'[b] = opt[b] /\ aside'[b] = aside[b] /\ h'[b] = h[b] /\ h2'[b] = h2[b]
    /\ res'[b] = res[b] /\ answer'[b] = answer[b]

\* c's own call keeps its arguments and its first handle.
SameCall(c) ==
  /\ ret'[c] = ret[c] /\ name'[c] = name[c] /\ newname'[c] = newname[c]
  /\ opt'[c] = opt[c] /\ h'[c] = h[c] /\ answer'[c] = answer[c]

\* Settle does what Settles says.
LEMMA SettleSettles ==
  ASSUME NEW X, Settle(X), pending' = pending, Shape
  PROVE  /\ Settles
         /\ where' \in [Objects -> Places]
BY Zenon DEF Settle, Settles, Shape, Places

\* What one caller does leaves the facts about the others' calls alone.
LEMMA OthersKept ==
  ASSUME NEW c \in Callers, NEW b \in Callers \ {c}, Keeps(c),
         HandlesOf(b), BaseOf(b), doomed \subseteq doomed', BaseGone => BaseGone'
  PROVE  HandlesOf(b)' /\ BaseOf(b)'
<1>1. HandlesOf(b)'
  BY Zenon DEF HandlesOf, Keeps
<1>2. BaseOf(b)'
  BY Zenon DEF BaseOf, Keeps, Succeeded
<1> QED
  BY Zenon, <1>1, <1>2

\* A step of a call that moves no file: what the call was responsible for is
\* marked or excused, or it still is.
LEMMA Stays ==
  ASSUME IInv, Shape', NEW c \in Callers, Keeps(c), HandlesOf(c)', BaseOf(c)',
         Settles, kind' = kind, protected' = protected, readonly \ readonly' \subseteq doomed',
         pending \subseteq pending', pending' \subseteq pending \cup doomed',
         doomed \subseteq doomed', excused \subseteq excused',
         \A f \in Files : Responsible(c, f)
           => f \in pending' \cup excused' \/ Responsible(c, f)',
         pc'[c] \in Busy /\ name'[c] \in Objects
           => where[h'[c]] = h'[c] \/ h'[c] \in pending' \cup excused'
  PROVE  IInv'
<1> USE PlacesAssumption DEF IInv, Objects
<1>1. OwnPlace' /\ BaseStays'
  BY Zenon DEF OwnPlace, BaseStays, Settles, Shape, Top
<1>2. \A b \in Callers : HandlesOf(b)' /\ BaseOf(b)'
  <2>1. BaseGone => BaseGone'
    BY Zenon DEF BaseGone, Settles
  <2> QED
    BY Zenon, <2>1, OthersKept
<1>3. OnlyNamedFilesHarmed'
  BY Zenon DEF OnlyNamedFilesHarmed, At, Settles
<1>4. Accounted'
  <2> SUFFICES ASSUME NEW f \in Files, where'[f] = f
               PROVE  f \in pending' \cup excused' \/ \E b \in Callers : Responsible(b, f)'
    BY Zenon DEF Accounted
  <2>1. where[f] = f
    BY Zenon DEF Settles
  <2>2. CASE f \in pending \cup excused
    BY Zenon, <2>2
  <2>3. ASSUME NEW b \in Callers \ {c}, Responsible(b, f) PROVE Responsible(b, f)'
    BY Zenon, <2>3 DEF Responsible, Keeps
  <2> QED
    BY Zenon, <2>1, <2>2, <2>3 DEF Accounted
<1>5. FoundAside'
  <2> SUFFICES ASSUME NEW b \in Callers, pc'[b] \in Busy, name'[b] \in Objects
               PROVE  where'[h'[b]] = h'[b] \/ h'[b] \in pending' \cup excused'
    BY Zenon DEF FoundAside
  <2>1. h'[b] \in Objects
    BY Zenon, <1>2 DEF HandlesOf
  <2>2. where[h'[b]] = h'[b] \/ h'[b] \in pending' \cup excused'
    BY ZenonT(60) DEF FoundAside, Keeps
  <2> QED
    BY Zenon, <2>1, <2>2 DEF Settles
<1> QED
  BY Zenon, <1>1, <1>2, <1>3, <1>4, <1>5

\* A caller that is in no file operation, before and after or because it
\* crashed, disturbs nothing.
LEMMA Leaves ==
  ASSUME IInv, Shape', NEW c \in Callers, Keeps(c), BaseOf(c)', Settles,
         kind' = kind, protected' = protected, readonly' = readonly,
         pending' = pending, doomed' = doomed, excused \subseteq excused',
         pc'[c] \notin Busy,
         opt'[c] = "rename" => pc'[c] # "d_open" /\ name'[c] \in Names /\ newname'[c] \in Names,
         pc'[c] = "r_open" => opt'[c] = "rename",
         \A f \in Files : Responsible(c, f) => f \in pending \cup excused'
  PROVE  IInv'
<1>1. HandlesOf(c)'
  BY Zenon DEF HandlesOf, Busy, DSteps, RSteps
<1> QED
  BY Zenon, <1>1, Stays

----------------------------------------------------------------------------
(* Steps that move a file.                                                 *)

\* Moving a file keeps every file at a place.
LEMMA MovedType ==
  ASSUME Shape, NEW f \in Objects, NEW nm \in Names \cup Objects
  PROVE  Moved(f, nm) \in [Objects -> Places]
BY Zenon DEF Shape, Moved, Places

\* f moves to nm, over files that may die.  It is excused if another call holds
\* it, or it goes to the name made from its id and somebody answers for it.
LEMMA Moves ==
  ASSUME IInv, Shape', NEW c \in Callers, Keeps(c), HandlesOf(c)', BaseOf(c)',
         NEW f \in Files, NEW nm \in Names \cup {f}, where' = Moved(f, nm),
         At(nm) \ {f} \subseteq doomed', doomed \subseteq doomed', excused \subseteq excused',
         kind' = kind, protected' = protected, readonly' = readonly, pending' = pending,
         nm # f => Contested(c, f) \subseteq excused',
         nm = f => where[f] = f \/ f \in pending \cup excused' \/ Responsible(c, f)',
         \A g \in Files : Responsible(c, g) =>
           \/ g \in pending \cup excused' \/ Responsible(c, g)' \/ (g = f /\ nm # f),
         pc'[c] \in Busy /\ name'[c] \in Objects =>
           /\ pc[c] \in Busy /\ name[c] \in Objects /\ h'[c] = h[c]
           /\ nm # f => h[c] # f
  PROVE  IInv'
<1> USE PlacesAssumption
<1>1. nm \notin {"gone", Top} /\ f \in Objects /\ f # Base /\ (nm # f => nm \notin Objects)
  BY Zenon DEF Objects
<1>2. \A x \in Objects : where'[x] = where[x] \/ x = f \/ (where[x] = nm /\ where'[x] = "gone")
  BY Zenon DEF Moved
<1>3. where'[f] = nm
  BY Zenon, <1>1 DEF Moved
<1>4. where'[Base] = where[Base]
  BY Zenon, <1>1, <1>2 DEF IInv, BaseStays, Objects
<1>5. OwnPlace' /\ BaseStays'
  BY <1>1, <1>2, <1>3, <1>4 DEF IInv, OwnPlace, BaseStays, Objects, Top
<1>6. \A b \in Callers : HandlesOf(b)' /\ BaseOf(b)'
  <2>1. BaseGone => BaseGone'
    BY Zenon, <1>4 DEF BaseGone
  <2> QED
    BY Zenon, <2>1, OthersKept DEF IInv
<1>7. OnlyNamedFilesHarmed'
  <2>1. \A x \in Objects : where'[x] = "gone" => where[x] = "gone" \/ x \in At(nm) \ {f}
    BY Zenon, <1>1, <1>2, <1>3 DEF At
  <2> QED
    BY Zenon, <2>1 DEF IInv, OnlyNamedFilesHarmed, At
<1>8. nm = f => \A x \in Objects : where'[x] = where[x] \/ x = f
  BY <1>1, <1>2 DEF IInv, OwnPlace
<1>9. Accounted'
  <2> SUFFICES ASSUME NEW g \in Files, where'[g] = g
               PROVE  g \in pending' \cup excused' \/ \E b \in Callers : Responsible(b, g)'
    BY Zenon DEF Accounted
  <2>1. CASE where[g] = g
    <3>1. \/ g \in pending \cup excused
          \/ \E b \in Callers : Responsible(b, g)
      BY Zenon, <2>1 DEF IInv, Accounted
    <3>2. ~(g = f /\ nm # f)
      BY Zenon, <1>3
    <3>3. ASSUME NEW b \in Callers \ {c}, Responsible(b, g) PROVE Responsible(b, g)'
      BY Zenon, <3>3 DEF Responsible, Keeps
    <3> QED
      BY Zenon, <3>1, <3>2, <3>3
  <2>2. CASE where[g] # g
    <3>1. g = f /\ nm = f
      BY Zenon, <2>2, <1>1, <1>2, <1>3 DEF Objects
    <3> QED
      BY Zenon, <3>1, <2>2
  <2> QED
    BY Zenon, <2>1, <2>2
<1>10. FoundAside'
  <2> SUFFICES ASSUME NEW b \in Callers, pc'[b] \in Busy, name'[b] \in Objects
               PROVE  where'[h'[b]] = h'[b] \/ h'[b] \in pending' \cup excused'
    BY Zenon DEF FoundAside
  <2>1. pc[b] \in Busy /\ name[b] \in Objects /\ h'[b] = h[b]
    BY Zenon DEF Keeps
  <2>2. h[b] \in Objects
    BY Zenon, <2>1 DEF IInv, HandlesOf
  <2>3. where[h[b]] = h[b] \/ h[b] \in pending \cup excused
    BY Zenon, <2>1 DEF IInv, FoundAside
  <2>4. CASE h[b] = f /\ nm # f
    <3>1. b # c
      BY Zenon, <2>4
    <3>2. f \in Contested(c, f)
      BY Zenon, <3>1, <2>4 DEF Contested
    <3> QED
      BY Zenon, <3>2, <2>1, <2>4
  <2>5. CASE h[b] # f \/ nm = f
    BY ZenonT(60), <2>1, <2>2, <2>3, <2>5, <1>1, <1>2, <1>3, <1>8
  <2> QED
    BY Zenon, <2>4, <2>5
<1> QED
  BY Zenon, <1>5, <1>6, <1>7, <1>9, <1>10 DEF IInv

----------------------------------------------------------------------------
(* Other programs and crashes, and the first state.                        *)

\* A step of nobody's call that moves no file.
LEMMA Still ==
  ASSUME IInv, Settles, where' \in [Objects -> Places],
         UNCHANGED <<disk, pending, readonly, doomed, excused, pc, args, h, h2, aside,
                     res, todo, answer>>
  PROVE  IInv'
<1> USE PlacesAssumption DEF IInv, Objects, args, disk
<1>1. Shape'
  BY Zenon DEF Shape
<1>2. OwnPlace' /\ BaseStays'
  BY Zenon DEF OwnPlace, BaseStays, Settles, Shape, Top
<1>3. \A c \in Callers : HandlesOf(c)'
  BY Zenon DEF HandlesOf
<1>4. \A c \in Callers : BaseOf(c)'
  <2>1. BaseGone => BaseGone'
    BY Zenon DEF BaseGone, Settles
  <2> QED
    BY Zenon, <2>1 DEF BaseOf, Succeeded
<1>5. OnlyNamedFilesHarmed'
  BY Zenon DEF OnlyNamedFilesHarmed, At, Settles
<1>6. Accounted'
  <2>1. \A f \in Files, c \in Callers : Responsible(c, f)' = Responsible(c, f)
    BY ZenonT(60) DEF Responsible
  <2> QED
    BY Zenon, <2>1 DEF Accounted, Settles
<1>7. FoundAside'
  BY Zenon DEF FoundAside, Settles, HandlesOf
<1> QED
  BY Zenon, <1>1, <1>2, <1>3, <1>4, <1>5, <1>6, <1>7

\* Another program opens or closes a file.
LEMMA OtherHoldsInv ==
  ASSUME IInv, NEW f \in Objects, UNCHANGED walkVars,
         OtherOpens(f) \/ OtherDenies(f) \/ OtherCloses(f)
  PROVE  IInv'
<1>1. CASE OtherOpens(f) \/ OtherDenies(f)
  BY Zenon, <1>1, Still DEF IInv, OtherOpens, OtherDenies, Meddle, Settles, Shape, walkVars
<1>2. CASE OtherCloses(f)
  <2>1. Settles /\ where' \in [Objects -> Places]
    BY Zenon, <1>2, SettleSettles DEF IInv, OtherCloses
  <2> QED
    BY Zenon, <1>2, <2>1, Still DEF OtherCloses, walkVars
<1> QED
  BY Zenon, <1>1, <1>2

\* Another program creates a file at a free name, or moves one away.
LEMMA OtherMovesInv ==
  ASSUME IInv, NEW f \in Files, UNCHANGED walkVars, OtherCreates(f) \/ OtherMoves(f)
  PROVE  IInv'
<1> USE PlacesAssumption
<1>1. where \in [Objects -> Places] /\ f \in Objects
  BY Zenon DEF IInv, Shape, Objects
<1>2. PICK nm \in Names \cup {"away"} :
        /\ where[f] \in Names \cup {"unborn"} /\ where'[f] = nm
        /\ where' \in [Objects -> Places]
        /\ \A x \in Objects : where'[x] = where[x] \/ x = f
  <2>1. CASE OtherCreates(f)
    <3>1. PICK nm \in Names : At(nm) = {} /\ where' = Moved(f, nm)
      BY Zenon, <2>1 DEF OtherCreates
    <3>2. where'[f] = nm /\ \A x \in Objects : where'[x] = where[x] \/ x = f
      BY Zenon, <1>1, <3>1 DEF Moved, At
    <3>3. where' \in [Objects -> Places]
      BY Zenon, <1>1, <3>1, MovedType DEF IInv
    <3>4. where[f] = "unborn"
      BY Zenon, <2>1 DEF OtherCreates
    <3> QED
      BY Zenon, <3>2, <3>3, <3>4
  <2>2. CASE OtherMoves(f)
    BY Zenon, <1>1, <2>2 DEF OtherMoves, Places
  <2> QED
    BY Zenon, <2>1, <2>2
<1>3. UNCHANGED <<kind, pending, readonly, protected, doomed, excused, pc, ret, name,
                  newname, opt, h, h2, aside, res, todo, answer>>
  BY Zenon DEF OtherCreates, OtherMoves, Meddle, disk, args, walkVars
<1>4. /\ where[f] \notin Objects \cup {"gone"} /\ nm \notin Objects \cup {"gone", Top}
      /\ f # Base
  BY Zenon, <1>2 DEF Objects, Top
<1>5. Shape'
  BY Zenon, <1>2, <1>3 DEF IInv, Shape
<1>6. OwnPlace' /\ BaseStays' /\ OnlyNamedFilesHarmed'
  BY ZenonT(60), <1>2, <1>3, <1>4 DEF IInv, OwnPlace, BaseStays, OnlyNamedFilesHarmed, At, Objects
<1>7. \A c \in Callers : HandlesOf(c)'
  BY Zenon, <1>3 DEF IInv, HandlesOf
<1>8. \A c \in Callers : BaseOf(c)'
  <2>1. BaseGone = BaseGone'
    BY Zenon, <1>2, <1>3, <1>4 DEF BaseGone, Objects
  <2> QED
    BY ZenonT(60), <1>3, <2>1 DEF IInv, BaseOf, Succeeded
<1>9. Accounted'
  <2>1. \A g \in Files, c \in Callers : Responsible(c, g)' = Responsible(c, g)
    BY ZenonT(60), <1>3 DEF Responsible
  <2>2. \A g \in Files : where'[g] = g => where[g] = g
    BY Zenon, <1>2, <1>4 DEF Objects
  <2> QED
    BY Zenon, <1>3, <2>1, <2>2 DEF IInv, Accounted
<1>10. FoundAside'
  <2>1. \A c \in Callers : pc[c] \in Busy => h[c] \in Objects
    BY Zenon DEF IInv, HandlesOf
  <2> QED
    BY Zenon, <1>2, <1>3, <1>4, <2>1 DEF IInv, FoundAside
<1> QED
  BY Zenon, <1>5, <1>6, <1>7, <1>8, <1>9, <1>10 DEF IInv

\* A crash: marked files may go, and what the caller held is excused.
LEMMA CrashInv ==
  ASSUME IInv, NEW c \in Callers, Crash(c), UNCHANGED walkVars
  PROVE  IInv'
<1> USE PlacesAssumption DEF disk, args, walkVars
<1>1. Settles /\ where' \in [Objects -> Places]
  BY Zenon, SettleSettles DEF IInv, Crash
<1>2. Shape' /\ Keeps(c) /\ pc'[c] = "crashed"
  BY Zenon, <1>1 DEF IInv, Shape, Keeps, Crash, Goto, PCs
<1>3. \A f \in Files : Responsible(c, f) => f \in excused'
  BY Zenon DEF Responsible, Crash, Objects
<1>4. HandlesOf(c) /\ BaseOf(c)
  BY Zenon DEF IInv
<1>5. opt'[c] = "rename" => name'[c] \in Names /\ newname'[c] \in Names
  BY Zenon, <1>4 DEF Crash, HandlesOf
<1>6. pc'[c] \notin Busy
  BY Zenon, <1>2 DEF Busy, DSteps, RSteps
<1>7. BaseOf(c)'
  <2>1. BaseGone => BaseGone'
    BY Zenon, <1>1 DEF BaseGone, Settles, Crash, Objects
  <2> QED
    BY Zenon, <1>2, <1>4, <2>1 DEF BaseOf, Crash, DSteps, RSteps, Verdicts, Succeeded
<1> QED
  BY Zenon, <1>1, <1>2, <1>3, <1>5, <1>6, <1>7, Leaves DEF Crash

\* Every disk of Disks satisfies the invariant before the first call.
LEMMA InitInv == Init => IInv
<1> SUFFICES ASSUME Init PROVE IInv
  BY Zenon
<1> USE PlacesAssumption
<1>1. PICK d \in Disks :
        /\ kind = [f \in Objects |-> IF f = Base THEN "dir" ELSE d.kind[f]]
        /\ where = [f \in Objects |-> IF f = Base THEN Top ELSE d.where[f]]
        /\ readonly = d.readonly /\ protected = d.readonly
  BY Zenon DEF Init, AtInit
<1>2. d.where \in [Files -> Names \cup {"unborn"}]
  BY Zenon, AtAssumption DEF DiskType
<1>3. /\ where \in [Objects -> Places] /\ kind[Base] = "dir" /\ where[Base] = Top
      /\ \A f \in Files : where[f] \in Names \cup {"unborn"}
  BY Zenon, <1>1, <1>2 DEF Objects, Places
<1>4. Shape
  BY Zenon, <1>3 DEF Init, AtInit, Shape, PCs, Between, Options, Results
<1>5. OwnPlace /\ BaseStays /\ OnlyNamedFilesHarmed
  BY ZenonT(60), <1>1, <1>3 DEF Init, AtInit, OwnPlace, BaseStays, OnlyNamedFilesHarmed, At, Objects, Top
<1>6. \A c \in Callers : HandlesOf(c) /\ BaseOf(c)
  BY Zenon DEF Init, AtInit, HandlesOf, BaseOf, Busy, DSteps, RSteps, Verdicts
<1>7. Accounted /\ FoundAside
  BY <1>3 DEF Init, AtInit, Accounted, FoundAside, Busy, DSteps, RSteps, Objects
<1> QED
  BY Zenon, <1>4, <1>5, <1>6, <1>7 DEF IInv

----------------------------------------------------------------------------
\* What no step of the walk touches.
Apart == UNCHANGED <<disk, readonly, pending, h, h2, aside, doomed, excused>>

\* A step from one call of Deleteat to the next.
LEMMA Walks ==
  ASSUME IInv, Shape', NEW c \in Callers, Keeps(c), BaseOf(c)', Settles, Apart,
         pc[c] \in Between, pc'[c] \in Between \cup {"d_open"},
         opt'[c] # "rename" \/ (pc'[c] # "d_open" /\ UNCHANGED args)
  PROVE  IInv'
<1>1. pc'[c] \notin Busy \cup {"r_open"}
  BY Zenon DEF Busy, DSteps, RSteps, Between
<1>2. \A f \in Files : ~Responsible(c, f)
  BY Zenon DEF Responsible, Between
<1>3. opt[c] = "rename" => name[c] \in Names /\ newname[c] \in Names
  BY Zenon DEF IInv, HandlesOf
<1> QED
  BY Zenon, <1>1, <1>2, <1>3, Leaves DEF disk, args, Apart

\* removeAllFrom returns, and says nil only of a directory that is gone.
LEMMA ReturnInv ==
  ASSUME IInv, NEW c \in Callers, pc[c] \in Between, Apart,
         Settles, where' \in [Objects -> Places],
         NEW a \in {"nil", "err"}, Returns(c, a), a = "nil" => BaseGone
  PROVE  IInv'
<1>1. /\ pc'[c] = "idle" /\ ret'[c] = "idle" /\ name'[c] = Top /\ opt'[c] = "any"
      /\ answer'[c] = a /\ res'[c] = "nil"
  BY Zenon DEF IInv, Shape, Returns, Goto, Forget, Result
<1>2. Shape'
  <2>1. "idle" \in Between /\ "idle" \in PCs /\ "any" \in Options /\ "nil" \in Results
    BY Zenon DEF Between, PCs, Options, Results
  <2> QED
    BY Zenon, <2>1 DEF IInv, Shape, Apart, Returns, Goto, Forget, Result
<1>3. Keeps(c)
  BY Zenon DEF IInv, Shape, Keeps, Apart, Returns, Goto, Forget, Result
<1>4. BaseOf(c)'
  <2>1. BaseGone => BaseGone'
    BY Zenon DEF BaseGone, Settles, Apart, Objects
  <2> QED
    BY Zenon, <1>1, <2>1 DEF BaseOf, Verdicts, DSteps, RSteps
<1> QED
  BY Zenon, <1>1, <1>2, <1>3, <1>4, Walks DEF Between

\* The walk goes on with what it has.
LEMMA GoInv ==
  ASSUME IInv, NEW c \in Callers, pc[c] \in Between \ {"idle"}, Apart,
         Settles, where' \in [Objects -> Places],
         NEW l \in Between \ (Verdicts \cup {"idle"}), Goto(c, l),
         UNCHANGED <<args, res, answer>>, todo' \in [Callers -> SUBSET (Names \cup Files)]
  PROVE  IInv'
<1>1. /\ pc'[c] = l /\ ret'[c] = ret[c] /\ name'[c] = name[c] /\ opt'[c] = opt[c]
      /\ answer'[c] = answer[c] /\ res'[c] = res[c] /\ h'[c] = h[c]
  BY Zenon DEF IInv, Shape, Goto, args, Apart
<1>2. Shape'
  <2>1. l \in PCs
    BY Zenon DEF PCs
  <2> QED
    BY Zenon, <2>1 DEF IInv, Shape, Apart, Goto, args
<1>3. Keeps(c)
  BY Zenon DEF IInv, Shape, Keeps, Apart, Goto, args
<1>4. BaseOf(c)'
  <2>1. BaseOf(c) /\ (BaseGone => BaseGone')
    BY Zenon DEF IInv, BaseGone, Settles, Apart, Objects
  <2>2. l \notin DSteps \cup RSteps \cup {"back", "close", "r_aside", "r_retry", "r_mark"}
    BY Zenon DEF Between, DSteps, RSteps
  <2> QED
    BY Zenon, <1>1, <2>1, <2>2 DEF BaseOf, Verdicts, DSteps, RSteps
<1> QED
  <2>1. l # "d_open"
    BY Zenon DEF Between
  <2> QED
    BY Zenon, <1>1, <1>2, <1>3, <1>4, <2>1, Walks

\* Deleteat is called.
LEMMA CallInv ==
  ASSUME IInv, NEW c \in Callers, pc[c] \in Between, Apart,
         Settles, where' \in [Objects -> Places],
         NEW nm \in Names \cup Files \cup {Top}, NEW o \in {"any", "file", "dir"},
         NEW r \in Between, CallDelete(c, nm, o, r), r \in Verdicts => nm = Top,
         res' = res, answer' = answer \/ answer' = [answer EXCEPT ![c] = "none"],
         todo' \in [Callers -> SUBSET (Names \cup Files)]
  PROVE  IInv'
<1>1. /\ pc'[c] = "d_open" /\ ret'[c] = r /\ name'[c] = nm /\ opt'[c] = o
      /\ answer'[c] \in {"none", answer[c]} /\ h'[c] = h[c]
  BY Zenon DEF IInv, Shape, CallDelete, Goto, Apart
<1>2. Shape'
  <2>1. "d_open" \in PCs /\ o \in Options
    BY Zenon DEF PCs, Options
  <2> QED
    BY Zenon, <2>1 DEF IInv, Shape, Apart, CallDelete, Goto
<1>3. Keeps(c)
  BY ZenonT(60) DEF IInv, Shape, Keeps, Apart, CallDelete, Goto
<1>4. BaseOf(c)'
  <2>1. BaseOf(c) /\ (BaseGone => BaseGone')
    BY Zenon DEF IInv, BaseGone, Settles, Apart, Objects
  <2> QED
    BY Zenon, <1>1, <2>1 DEF BaseOf, Verdicts, DSteps, RSteps
<1> QED
  BY Zenon, <1>1, <1>2, <1>3, <1>4, Walks

----------------------------------------------------------------------------
(* The steps one by one.                                                   *)

\* First, and Last: Deleteat's answer for Base is believed.
LEMMA VerdictInv ==
  ASSUME IInv, NEW c \in Callers, First(c) \/ Last(c)
  PROVE  IInv'
<1>1. Apart /\ Settles /\ where' \in [Objects -> Places] /\ pc[c] \in Verdicts
  BY Zenon DEF IInv, Shape, Settles, Apart, First, Last, Quiet, Verdicts
<1>2. Succeeded(c) => BaseGone
  BY Zenon, <1>1 DEF IInv, BaseOf
<1>3. pc[c] \in Between \ {"idle"}
  BY Zenon, <1>1 DEF Verdicts, Between
<1>4. CASE \E a \in {"nil", "err"} : Returns(c, a) /\ (a = "nil" => Succeeded(c))
  BY Zenon, <1>1, <1>2, <1>3, <1>4, ReturnInv
<1>5. CASE Goto(c, "w_opendir") /\ UNCHANGED <<args, res, walkVars>>
  <2>1. todo' \in [Callers -> SUBSET (Names \cup Files)] /\ answer' = answer
    BY Zenon, <1>5 DEF IInv, Shape, walkVars
  <2>2. "w_opendir" \in Between \ (Verdicts \cup {"idle"})
    BY Zenon DEF Between, Verdicts
  <2> QED
    BY Zenon, <1>1, <1>3, <1>5, <2>1, <2>2, GoInv
<1> QED
  BY Zenon, <1>4, <1>5 DEF First, Last

\* OpenDir: there is no directory, it is listed, or its removal is tried.
LEMMA OpenDirInv ==
  ASSUME IInv, NEW c \in Callers, OpenDir(c)
  PROVE  IInv'
<1>1. Apart /\ Settles /\ where' \in [Objects -> Places] /\ pc[c] = "w_opendir"
  BY Zenon DEF IInv, Shape, Settles, Apart, OpenDir, Quiet
<1>2. {"w_opendir", "w_read", "w_rmdir"} \subseteq Between \ (Verdicts \cup {"idle"})
  BY Zenon DEF Between, Verdicts
<1>3. CASE At(Top) = {} /\ Returns(c, "nil")
  <2>1. BaseGone
    BY Zenon, <1>3 DEF IInv, BaseStays, BaseGone, At, Objects
  <2> QED
    BY Zenon, <1>1, <1>2, <1>3, <2>1, ReturnInv
<1>4. CASE /\ Goto(c, "w_read") \/ Goto(c, "w_rmdir")
           /\ UNCHANGED <<args, res, todo, answer>>
  BY Zenon, <1>1, <1>2, <1>4, GoInv DEF IInv, Shape
<1> QED
  BY Zenon, <1>3, <1>4 DEF OpenDir

\* Read: a page of names, or an error.
LEMMA ReadInv ==
  ASSUME IInv, NEW c \in Callers, Read(c)
  PROVE  IInv'
<1>1. {"w_read", "w_next", "w_rmdir"} \subseteq Between \ (Verdicts \cup {"idle"})
  BY Zenon DEF Between, Verdicts
<1>2. CASE Page(c)
  <2>1. Apart /\ Settles /\ where' \in [Objects -> Places] /\ pc[c] = "w_read"
    BY Zenon, <1>2 DEF IInv, Shape, Settles, Apart, Read, Page
  <2>2. EntryNames \subseteq Names \cup Files
    BY Zenon DEF IInv, OwnPlace, Objects, EntryNames, Inside
  <2>3. todo' \in [Callers -> SUBSET (Names \cup Files)]
    BY ZenonT(60), <1>2, <2>2 DEF IInv, Shape, Page
  <2>4. Goto(c, "w_next") /\ UNCHANGED <<args, res, answer>>
    BY Zenon, <1>2 DEF Page
  <2> QED
    BY Zenon, <1>1, <2>1, <2>3, <2>4, GoInv
<1>3. CASE ListingFails(c)
  <2>1. Apart /\ pc[c] = "w_read" /\ Settle({}) /\ pending' = pending
    BY Zenon, <1>3 DEF Apart, Read, ListingFails, CloseListing
  <2>2. Settles /\ where' \in [Objects -> Places]
    BY Zenon, <2>1, SettleSettles DEF IInv
  <2>3. CASE Returns(c, "err")
    BY Zenon, <1>1, <2>1, <2>2, <2>3, ReturnInv
  <2>4. CASE Goto(c, "w_rmdir") /\ UNCHANGED <<args, res, walkVars>>
    BY Zenon, <1>1, <2>1, <2>2, <2>4, GoInv DEF IInv, Shape, walkVars
  <2> QED
    BY Zenon, <1>3, <2>3, <2>4 DEF ListingFails
<1> QED
  BY Zenon, <1>2, <1>3 DEF Read

\* NextName: an entry is deleted, or the page is done.
LEMMA NextNameInv ==
  ASSUME IInv, NEW c \in Callers, NextName(c)
  PROVE  IInv'
<1>1. {"w_read", "w_next", "w_rmdir", "w_opendir"} \subseteq Between \ (Verdicts \cup {"idle"})
  BY Zenon DEF Between, Verdicts
<1>2. pc[c] = "w_next" /\ res' = res
  BY Zenon DEF NextName
<1>3. ASSUME NEW nm \in todo[c], CallDelete(c, nm, "file", "w_child"),
             todo' = [todo EXCEPT ![c] = @ \ {nm}],
             UNCHANGED <<disk, where, pending, h, h2, answer>>
      PROVE  IInv'
  <2>1. Apart /\ Settles /\ where' \in [Objects -> Places]
    BY Zenon, <1>3 DEF IInv, Shape, Settles, Apart, NextName
  <2>2. nm \in Names \cup Files /\ todo' \in [Callers -> SUBSET (Names \cup Files)]
    BY Zenon, <1>3 DEF IInv, Shape
  <2>3. "w_child" \in Between \ Verdicts
    BY Zenon DEF Between, Verdicts
  <2> QED
    BY Zenon, <1>1, <1>2, <1>3, <2>1, <2>2, <2>3, CallInv
<1>4. CASE PageEnd(c)
  <2>1. /\ Apart /\ (where' = where \/ Settle({}))
        /\ \E l \in {"w_read", "w_rmdir", "w_opendir"} : Goto(c, l)
        /\ UNCHANGED <<args, walkVars>>
    BY Zenon, <1>4 DEF Apart, NextName, PageEnd, CloseListing
  <2>2. Settles /\ where' \in [Objects -> Places]
    <3>1. CASE where' = where
      BY Zenon, <3>1 DEF IInv, Shape, Settles
    <3>2. CASE Settle({})
      BY Zenon, <2>1, <3>2, SettleSettles DEF IInv, Apart
    <3> QED
      BY Zenon, <2>1, <3>1, <3>2
  <2>3. todo' \in [Callers -> SUBSET (Names \cup Files)] /\ answer' = answer
    BY Zenon, <2>1 DEF IInv, Shape, walkVars
  <2> QED
    BY Zenon, <1>1, <1>2, <2>1, <2>2, <2>3, GoInv
<1> QED
  BY Zenon, <1>3, <1>4 DEF NextName

\* Child, Sub and Gone: the entry is gone, is tried as a directory, or is not
\* removed.
LEMMA EntryInv ==
  ASSUME IInv, NEW c \in Callers, Child(c) \/ Sub(c) \/ Gone(c)
  PROVE  IInv'
<1>1. {"w_child", "w_sub", "w_gone", "w_next"} \subseteq Between \ (Verdicts \cup {"idle"})
  BY Zenon DEF Between, Verdicts
<1>2. /\ Apart /\ Settles /\ where' \in [Objects -> Places]
      /\ pc[c] \in {"w_child", "w_sub", "w_gone"}
  BY Zenon DEF IInv, Shape, Settles, Apart, Child, Sub, Gone, Quiet
<1>3. CASE /\ Goto(c, "w_next") \/ Goto(c, "w_sub")
           /\ UNCHANGED <<args, res, todo, answer>>
  BY Zenon, <1>1, <1>2, <1>3, GoInv DEF IInv, Shape
<1>4. CASE CallDelete(c, name[c], "dir", "w_gone") /\ UNCHANGED <<res, todo, answer>>
  <2>1. name[c] \in Names \cup Files \cup {Top} /\ todo' \in [Callers -> SUBSET (Names \cup Files)]
    BY Zenon, <1>4 DEF IInv, Shape
  <2> QED
    BY Zenon, <1>1, <1>2, <1>4, <2>1, CallInv
<1> QED
  BY Zenon, <1>3, <1>4 DEF Child, Sub, Gone, EntryFails, walkVars

\* RmDir and RemoveAllCall: Deleteat is called on Base.
LEMMA OnBaseInv ==
  ASSUME IInv, NEW c \in Callers, RmDir(c) \/ RemoveAllCall(c)
  PROVE  IInv'
<1>1. /\ Apart /\ pc[c] \in Between /\ Settles /\ where' \in [Objects -> Places]
      /\ res' = res /\ todo' = todo
  BY Zenon DEF IInv, Shape, Settles, Apart, RmDir, RemoveAllCall, Quiet, walkVars, Between
<1>2. answer' = answer \/ answer' = [answer EXCEPT ![c] = "none"]
  BY Zenon DEF RmDir, RemoveAllCall, walkVars
<1>3. \/ CallDelete(c, Top, "dir", "w_last")
      \/ CallDelete(c, Top, "file", "w_first")
  BY Zenon DEF RmDir, RemoveAllCall
<1>4. {"w_last", "w_first"} \subseteq Between
  BY Zenon DEF Between
<1>5. todo' \in [Callers -> SUBSET (Names \cup Files)]
  BY Zenon, <1>1 DEF IInv, Shape
<1> QED
  BY Zenon, <1>1, <1>2, <1>3, <1>4, <1>5, CallInv

\* Deletes and Renames: a call begins.
LEMMA BeginInv ==
  ASSUME IInv, NEW c \in Callers, Deletes(c) \/ Renames(c), UNCHANGED walkVars
  PROVE  IInv'
<1>1. PICK r \in Requests[c] : \/ Begins(c, r, "d_open", "any")
                               \/ r.op = "rename" /\ Begins(c, r, "r_open", "rename")
  BY Zenon DEF Deletes, Renames
<1>2. /\ pc[c] = "idle" /\ pc' = [pc EXCEPT ![c] = pc'[c]] /\ pc'[c] \in {"d_open", "r_open"}
      /\ opt' = [opt EXCEPT ![c] = opt'[c]] /\ opt'[c] \in {"any", "rename"}
      /\ name' = [name EXCEPT ![c] = r.name] /\ newname' = [newname EXCEPT ![c] = r.newname]
      /\ opt'[c] = "rename" => r.op = "rename"
      /\ pc'[c] = "r_open" <=> opt'[c] = "rename"
  BY ZenonT(60), <1>1 DEF IInv, Shape, Begins, Goto
<1>3. /\ {r.name, r.newname} \subseteq Names \cup {Top}
      /\ r.op = "rename" => r.name \in Names /\ r.newname \in Names
  BY Zenon, RequestsAssumption
<1>4. Apart /\ where' = where /\ UNCHANGED <<ret, res, answer, todo>>
  BY Zenon, <1>1 DEF Begins, Apart, walkVars
<1>5. Shape' /\ Settles
  <2>1. pc'[c] \in PCs /\ opt'[c] \in Options
    BY Zenon, <1>2 DEF PCs, Options
  <2> QED
    BY <1>2, <1>3, <1>4, <2>1 DEF IInv, Shape, Settles, Apart
<1>6. Keeps(c)
  BY Zenon, <1>2, <1>4 DEF IInv, Shape, Keeps, Apart
<1>7. BaseOf(c)'
  <2>1. BaseOf(c) /\ (BaseGone => BaseGone')
    BY Zenon, <1>4 DEF IInv, BaseGone, Apart
  <2> QED
    BY Zenon, <1>2, <1>4, <2>1 DEF BaseOf, Verdicts, DSteps, RSteps
<1>8. (\A f \in Files : ~Responsible(c, f)) /\ pc'[c] \notin Busy
  BY Zenon, <1>2 DEF Responsible, Busy, DSteps, RSteps
<1>9. opt'[c] = "rename" => pc'[c] # "d_open" /\ name'[c] \in Names /\ newname'[c] \in Names
  BY Zenon, <1>2, <1>3 DEF IInv, Shape
<1> QED
  BY Zenon, <1>2, <1>4, <1>5, <1>6, <1>7, <1>8, <1>9, Leaves DEF Apart, disk

\* Close: the call returns, to the program or to removeAllFrom.
LEMMA CloseInv ==
  ASSUME IInv, NEW c \in Callers, Close(c), UNCHANGED walkVars
  PROVE  IInv'
<1>1. /\ pc[c] = "close" /\ BaseOf(c) /\ HandlesOf(c) /\ ret[c] \in Between
      /\ \A f \in Files : ~Responsible(c, f)
  BY Zenon DEF IInv, Shape, Responsible, Close
<1>2. /\ UNCHANGED <<disk, readonly, pending, doomed, excused, answer, todo>>
      /\ Settles /\ where' \in [Objects -> Places]
  BY Zenon, SettleSettles DEF IInv, Close, StillDisk, walkVars
<1>3. Shape' /\ Keeps(c)
  <2>1. ret[c] \in PCs /\ "idle" \in Between /\ "any" \in Options /\ "nil" \in Results
    BY Zenon, <1>1 DEF PCs, Between, Options, Results
  <2>2. Shape'
    BY SMTT(30), <1>2, <2>1 DEF IInv, Shape, Close, Goto, Forget, Result, args
  <2>3. Keeps(c)
    BY <1>2 DEF IInv, Shape, Keeps, Close, Goto, Forget, Result, args
  <2> QED
    BY Zenon, <2>2, <2>3
<1>4. /\ pc'[c] = ret[c] /\ aside'[c] = FALSE /\ answer'[c] = answer[c]
      /\ \/ ret[c] = "idle" /\ ret'[c] = "idle" /\ opt'[c] = "any" /\ name'[c] = Top
         \/ /\ ret[c] # "idle" /\ ret'[c] = ret[c] /\ opt'[c] = opt[c] /\ name'[c] = name[c]
            /\ res'[c] = res[c] /\ newname'[c] = newname[c]
  BY <1>2 DEF IInv, Shape, Close, Goto, Forget, Result, args
<1>5. BaseOf(c)'
  <2>1. BaseGone => BaseGone'
    BY Zenon, <1>2 DEF BaseGone, Settles, Objects
  <2>2. pc'[c] \notin DSteps \cup RSteps \cup {"back", "close", "r_aside", "r_retry", "r_mark"}
    BY Zenon, <1>1, <1>4 DEF Between, DSteps, RSteps
  <2> QED
    BY Zenon, <1>1, <1>4, <2>1, <2>2 DEF BaseOf, Verdicts, Succeeded, DSteps, RSteps
<1>6. pc'[c] \notin Busy \cup {"d_open", "r_open"}
  BY Zenon, <1>1, <1>4 DEF Between, Busy, DSteps, RSteps
<1>7. opt'[c] # "rename"
  BY Zenon, <1>1, <1>4 DEF BaseOf
<1> QED
  BY Zenon, <1>1, <1>2, <1>3, <1>4, <1>5, <1>6, <1>7, Leaves DEF disk

----------------------------------------------------------------------------
(* The steps of a call, and those of Deleteat.                             *)

\* A step of c's call: its arguments and its first handle stay.
Frame(c) ==
  /\ UNCHANGED <<disk, args, h, answer, todo>>
  /\ pc' = [pc EXCEPT ![c] = pc'[c]] /\ res' = [res EXCEPT ![c] = res'[c]]
  /\ h2' = [h2 EXCEPT ![c] = h2'[c]] /\ aside' = [aside EXCEPT ![c] = aside'[c]]
  /\ res'[c] \in Results /\ h2'[c] \in Objects \cup {NoFile} /\ aside'[c] \in BOOLEAN

\* Where a step of c's call may lead, and what it must have found.
Onward(c) ==
  /\ \/ pc[c] \in DSteps /\ pc'[c] \in DSteps \cup {"back", "close"}
     \/ pc[c] \in RSteps /\ pc'[c] \in RSteps \cup {"back", "close"}
     \/ pc[c] = "back" /\ pc'[c] = "close"
  /\ pc'[c] \in {"d_clear", "r_info", "r_aside", "r_retry", "r_mark"} => h2'[c] \in Objects
  /\ pc'[c] = "r_mark" => h2'[c] \in doomed'
  /\ pc'[c] \in {"r_aside", "r_retry", "r_mark"} => h2'[c] # Base
  /\ pc[c] \in RSteps /\ pc'[c] = "back" => h2'[c] # Base
  /\ pc[c] \in DSteps /\ pc'[c] = "back" => aside[c]
  /\ pc[c] \in DSteps /\ pc'[c] \in DSteps /\ aside'[c] => h[c] # Base
  /\ pc[c] \in DSteps /\ pc'[c] = "close" /\ res'[c] \in {"nil", "notexist"}
       => h[c] \in pending' \/ At(name[c]) = {}

\* Such a step changes nothing of the other calls.
LEMMA Framed ==
  ASSUME IInv, NEW c \in Callers, Frame(c), Onward(c),
         where' \in [Objects -> Places], pending' \subseteq Objects
  PROVE  Shape' /\ Keeps(c) /\ SameCall(c) /\ pc[c] \in Busy
<1>1. pc'[c] \in PCs /\ pc[c] \in Busy
  BY Zenon DEF Onward, PCs, Busy
<1>2. Shape'
  BY Zenon, <1>1 DEF IInv, Shape, Frame, args
<1>3. Keeps(c) /\ SameCall(c)
  BY ZenonT(60) DEF IInv, Shape, Keeps, SameCall, Frame, args
<1> QED
  BY Zenon, <1>1, <1>2, <1>3

\* Such a step keeps what the call knows.
LEMMA Knows ==
  ASSUME IInv, NEW c \in Callers, SameCall(c), Onward(c),
         doomed \subseteq doomed', BaseGone => BaseGone', pending \subseteq pending'
  PROVE  HandlesOf(c)' /\ BaseOf(c)'
<1>1. HandlesOf(c) /\ BaseOf(c)
  BY Zenon DEF IInv
<1>2. pc[c] \in Busy /\ pc'[c] \in Busy \cup {"close"}
  BY Zenon DEF Onward, Busy
<1>3. HandlesOf(c)'
  <2>1. /\ pc'[c] \in DSteps => pc[c] \in DSteps
        /\ pc'[c] \in RSteps => pc[c] \in RSteps
        /\ pc'[c] \notin {"d_open", "r_open"}
    BY Zenon DEF Onward, DSteps, RSteps
  <2> QED
    BY Zenon, <1>1, <1>2, <2>1 DEF HandlesOf, Onward, SameCall, Busy
<1>4. BaseOf(c)'
  <2>1. ret[c] \in Verdicts /\ pc'[c] = "close" /\ res'[c] \in {"nil", "notexist"} => BaseGone'
    <3> SUFFICES ASSUME ret[c] \in Verdicts, pc'[c] = "close", res'[c] \in {"nil", "notexist"}
                 PROVE  BaseGone'
      BY Zenon
    <3>1. name[c] = Top /\ opt[c] # "rename"
      BY Zenon, <1>1 DEF BaseOf, Verdicts
    <3>2. pc[c] \in DSteps
      BY Zenon, <1>1, <1>2, <3>1 DEF BaseOf, HandlesOf, Busy
    <3>3. h[c] = Base
      BY Zenon, <1>1, <3>1, <3>2 DEF BaseOf
    <3>4. CASE At(Top) = {}
      BY Zenon, <3>4 DEF IInv, BaseStays, BaseGone, At, Objects
    <3>5. CASE Base \in pending'
      BY Zenon, <3>5 DEF BaseGone
    <3> QED
      BY Zenon, <3>1, <3>2, <3>3, <3>4, <3>5 DEF Onward
  <2>2. pc'[c] = "back" /\ opt[c] # "rename" => h[c] # Base /\ name[c] # Top
    BY Zenon, <1>1 DEF Onward, BaseOf, HandlesOf
  <2>3. pc'[c] \in {"r_aside", "r_retry", "r_mark", "back"} /\ opt[c] = "rename" => h2'[c] # Base
    BY Zenon, <1>1 DEF Onward, HandlesOf
  <2>4. /\ pc'[c] \in DSteps => pc[c] \in DSteps
        /\ pc'[c] \in RSteps => pc[c] \in RSteps
        /\ pc'[c] \notin Verdicts \cup {"idle"}
    BY Zenon DEF Onward, DSteps, RSteps, Verdicts
  <2> QED
    BY Zenon, <1>1, <2>1, <2>2, <2>3, <2>4 DEF BaseOf, Onward, SameCall, Succeeded
<1> QED
  BY Zenon, <1>3, <1>4

\* A step of a call that moves no file.
LEMMA Works ==
  ASSUME IInv, NEW c \in Callers, Frame(c), Onward(c),
         Settles, where' \in [Objects -> Places], pending' \subseteq Objects,
         readonly \ readonly' \subseteq doomed',
         pending \subseteq pending', pending' \subseteq pending \cup doomed',
         doomed' = doomed, excused \subseteq excused',
         \A f \in Files : Responsible(c, f)
           => f \in pending' \cup excused' \/ Responsible(c, f)'
  PROVE  IInv'
<1>1. Shape' /\ Keeps(c) /\ SameCall(c) /\ pc[c] \in Busy
  BY Zenon, Framed
<1>2. BaseGone => BaseGone'
  BY Zenon DEF BaseGone, Settles, Objects
<1>3. HandlesOf(c)' /\ BaseOf(c)'
  BY Zenon, <1>1, <1>2, Knows
<1>4. pc'[c] \in Busy /\ name'[c] \in Objects
        => where[h'[c]] = h'[c] \/ h'[c] \in pending' \cup excused'
  BY Zenon, <1>1 DEF IInv, FoundAside, SameCall
<1>5. kind' = kind /\ protected' = protected
  BY Zenon DEF Frame, disk
<1> QED
  BY Zenon, <1>1, <1>3, <1>4, <1>5, Stays

\* A step of a call that moves the file f.
LEMMA WorksMoving ==
  ASSUME IInv, NEW c \in Callers, Frame(c), Onward(c),
         NEW f \in Files, NEW nm \in Names \cup {f}, where' = Moved(f, nm),
         At(nm) \ {f} \subseteq doomed', doomed \subseteq doomed', excused \subseteq excused',
         UNCHANGED <<readonly, pending>>,
         nm # f => Contested(c, f) \subseteq excused',
         nm = f => where[f] = f \/ f \in pending \cup excused' \/ Responsible(c, f)',
         \A g \in Files : Responsible(c, g)
           => g \in pending \cup excused' \/ Responsible(c, g)' \/ (g = f /\ nm # f),
         pc'[c] \in Busy /\ name[c] \in Objects /\ nm # f => h[c] # f
  PROVE  IInv'
<1> USE PlacesAssumption
<1>1. where' \in [Objects -> Places] /\ f \in Objects /\ nm \in Places
  BY Zenon, MovedType DEF IInv, Shape, Objects, Places
<1>2. Shape' /\ Keeps(c) /\ SameCall(c) /\ pc[c] \in Busy
  BY Zenon, <1>1, Framed DEF IInv, Shape
<1>3. BaseGone => BaseGone'
  BY Zenon DEF BaseGone, Moved, Objects, Top
<1>4. HandlesOf(c)' /\ BaseOf(c)'
  BY Zenon, <1>2, <1>3, Knows
<1>5. kind' = kind /\ protected' = protected
  BY Zenon DEF Frame, disk
<1> QED
  BY SMTT(30), <1>2, <1>4, <1>5, Moves DEF SameCall

----------------------------------------------------------------------------
(* Deleteat.                                                               *)

\* DOpen: the file at the name is opened, or Deleteat returns.
LEMMA DOpenInv ==
  ASSUME IInv, NEW c \in Callers, DOpen(c), UNCHANGED walkVars
  PROVE  IInv'
<1>1. /\ pc[c] = "d_open" /\ HandlesOf(c) /\ BaseOf(c) /\ opt[c] # "rename"
      /\ \A f \in Files : ~Responsible(c, f)
  BY Zenon DEF IInv, HandlesOf, Responsible, DOpen
<1>2. /\ UNCHANGED <<disk, where, readonly, pending, args, h2, answer, todo>> /\ Settles
      /\ excused \subseteq excused' /\ doomed \subseteq doomed'
  BY Zenon DEF DOpen, StillDisk, Settles, Opened, walkVars
<1>3. Shape' /\ Keeps(c)
  <2>1. {"close", "d_ex"} \subseteq PCs /\ {"nil", "notexist", "isdir", "err"} \subseteq Results
    BY ZenonT(60) DEF PCs, Busy, DSteps, Results
  <2>2. Shape'
    BY SMTT(30), <1>2, <2>1 DEF IInv, Shape, DOpen, Opened, At, Goto, Result, Leave, args
  <2>3. Keeps(c)
    BY ZenonT(60), <1>2 DEF IInv, Shape, Keeps, DOpen, Opened, Goto, Result, Leave, args
  <2> QED
    BY Zenon, <2>2, <2>3
<1>4. ret'[c] = ret[c] /\ name'[c] = name[c] /\ opt'[c] = opt[c] /\ answer'[c] = answer[c]
  BY Zenon, <1>2 DEF args
<1>5. CASE /\ pc'[c] = "close" /\ doomed' = doomed
           /\ res'[c] \in {"nil", "notexist"} => At(name[c]) = {}
  <2>1. BaseOf(c)'
    <3>1. name[c] = Top /\ At(name[c]) = {} => BaseGone
      BY Zenon DEF IInv, BaseStays, BaseGone, At, Objects
    <3> QED
      BY Zenon, <1>1, <1>2, <1>4, <1>5, <3>1
         DEF BaseOf, BaseGone, Succeeded, Verdicts, DSteps, RSteps
  <2> QED
    BY Zenon, <1>1, <1>2, <1>3, <1>4, <1>5, <2>1, Leaves DEF disk, Busy, DSteps, RSteps
<1>6. ASSUME NEW f \in At(name[c]), pc'[c] = "d_ex", h'[c] = f, doomed' = doomed \cup {f},
             aside'[c] = FALSE
      PROVE  IInv'
  <2>1. f \in Objects /\ where[f] = name[c]
    BY Zenon DEF At
  <2>2. name[c] \in Objects => f = name[c]
    BY Zenon, <2>1 DEF IInv, OwnPlace
  <2>3. name[c] = Top => f = Base
    BY Zenon, <2>1 DEF IInv, BaseStays, Objects
  <2>4. HandlesOf(c)'
    BY Zenon, <1>1, <1>4, <1>6, <2>1, <2>2 DEF HandlesOf, Busy, DSteps, RSteps
  <2>5. BaseOf(c)'
    BY Zenon, <1>1, <1>2, <1>4, <1>6, <2>3 DEF BaseOf, BaseGone, Verdicts, DSteps, RSteps
  <2> QED
    BY Zenon, <1>1, <1>2, <1>3, <1>4, <1>6, <2>1, <2>2, <2>4, <2>5, Stays DEF disk
<1> QED
  BY ZenonT(60), <1>5, <1>6 DEF IInv, Shape, DOpen, Leave, Goto, Result, Opened

\* DEx: the file is marked, or the fallback begins.
LEMMA DExInv ==
  ASSUME IInv, NEW c \in Callers, DEx(c), UNCHANGED walkVars
  PROVE  IInv'
<1>1. /\ Settles /\ where' \in [Objects -> Places]
      /\ doomed' = doomed /\ pending \subseteq pending' /\ excused \subseteq excused'
  BY Zenon DEF IInv, Shape, Settles, DEx, Fault, Upset, Goto, Result, Leave, StillDisk,
     NoFault, args, disk, holds, walkVars
<1>2. Frame(c)
  BY ZenonT(60) DEF IInv, Shape, HandlesOf, Frame, Results, At, DEx, Fault, Upset, Goto, Result,
     Leave, StillDisk, NoFault, args, disk, holds, walkVars
<1>3. Onward(c)
  <2>1. pc[c] = "d_ex" /\ aside'[c] = aside[c] /\ (aside[c] => h[c] # Base)
    BY Zenon DEF IInv, BaseOf, DSteps, DEx
  <2>2. \/ pc'[c] = "d_info"
        \/ pc'[c] = "close" /\ (res'[c] = "err" \/ h[c] \in pending')
    BY ZenonT(60) DEF IInv, Shape, DEx, Goto, Result, Leave
  <2> QED
    BY ZenonT(60), <2>1, <2>2 DEF Onward, DSteps, RSteps
<1>4. /\ pending' \subseteq Objects /\ pending' \subseteq pending \cup doomed'
      /\ readonly \ readonly' \subseteq doomed'
  BY DEF IInv, Shape, HandlesOf, DSteps, RSteps, Busy, DEx, Fault, Upset, Goto,
     Result, Leave, StillDisk, NoFault, args, disk, holds, walkVars
<1>5. \A f \in Files : Responsible(c, f) => f \in pending' \cup excused' \/ Responsible(c, f)'
  BY ZenonT(60) DEF IInv, Shape, Responsible, DEx, Fault, Upset, Goto, Result, Leave, StillDisk,
     NoFault, args, disk, holds, walkVars
<1> QED
  BY Zenon, <1>1, <1>2, <1>3, <1>4, <1>5, Works

\* DInfo: the attribute is read.
LEMMA DInfoInv ==
  ASSUME IInv, NEW c \in Callers, DInfo(c), UNCHANGED walkVars
  PROVE  IInv'
<1>1. /\ Settles /\ where' \in [Objects -> Places]
      /\ doomed' = doomed /\ pending \subseteq pending' /\ excused \subseteq excused'
  BY Zenon DEF IInv, Shape, Settles, DInfo, Goto, Result, Leave, StillDisk, NoFault, args,
     disk, holds, walkVars
<1>2. Frame(c)
  BY ZenonT(60) DEF IInv, Shape, HandlesOf, Frame, Results, At, DInfo, Goto, Result, Leave,
     StillDisk, NoFault, args, disk, holds, walkVars
<1>3. Onward(c)
  BY Zenon DEF IInv, Shape, HandlesOf, BaseOf, BaseStays, Onward, DSteps, RSteps, At, Busy,
     DInfo, Goto, Result, Leave, StillDisk, NoFault, args, disk, holds, walkVars
<1>4. /\ pending' \subseteq Objects /\ pending' \subseteq pending \cup doomed'
      /\ readonly \ readonly' \subseteq doomed'
  BY Zenon DEF IInv, Shape, HandlesOf, DSteps, RSteps, Busy, DInfo, Goto, Result, Leave,
     StillDisk, NoFault, args, disk, holds, walkVars
<1>5. \A f \in Files : Responsible(c, f) => f \in pending' \cup excused' \/ Responsible(c, f)'
  BY Zenon DEF IInv, Shape, Responsible, DInfo, Goto, Result, Leave, StillDisk, NoFault,
     args, disk, holds, walkVars
<1> QED
  BY Zenon, <1>1, <1>2, <1>3, <1>4, <1>5, Works

\* DReopen: the name is opened again.
LEMMA DReopenInv ==
  ASSUME IInv, NEW c \in Callers, DReopen(c), UNCHANGED walkVars
  PROVE  IInv'
<1>1. /\ Settles /\ where' \in [Objects -> Places]
      /\ doomed' = doomed /\ pending \subseteq pending' /\ excused \subseteq excused'
  BY Zenon DEF IInv, Shape, Settles, DReopen, Goto, Result, Leave, StillDisk, NoFault,
     args, disk, holds, walkVars
<1>2. Frame(c)
  BY ZenonT(60) DEF IInv, Shape, HandlesOf, Frame, Results, At, DReopen, Goto, Result, Leave,
     StillDisk, NoFault, args, disk, holds, walkVars
<1>3. Onward(c)
  <2>1. pc[c] = "d_reopen" /\ aside'[c] = aside[c] /\ (aside[c] => h[c] # Base)
    BY Zenon DEF IInv, BaseOf, DSteps, DReopen
  <2>2. \/ pc'[c] = "d_clear" /\ h2'[c] \in Objects
        \/ pc'[c] = "close" /\ (res'[c] = "err" \/ At(name[c]) = {})
    BY ZenonT(60) DEF IInv, Shape, At, DReopen, Goto, Result, Leave
  <2> QED
    BY ZenonT(60), <2>1, <2>2 DEF Onward, DSteps, RSteps
<1>4. /\ pending' \subseteq Objects /\ pending' \subseteq pending \cup doomed'
      /\ readonly \ readonly' \subseteq doomed'
  BY Zenon DEF IInv, Shape, HandlesOf, DSteps, RSteps, Busy, DReopen, Goto, Result, Leave,
     StillDisk, NoFault, args, disk, holds, walkVars
<1>5. \A f \in Files : Responsible(c, f) => f \in pending' \cup excused' \/ Responsible(c, f)'
  BY Zenon DEF IInv, Shape, Responsible, DReopen, Goto, Result, Leave, StillDisk, NoFault,
     args, disk, holds, walkVars
<1> QED
  BY Zenon, <1>1, <1>2, <1>3, <1>4, <1>5, Works

\* DClear: the attribute of the file that is to be deleted is cleared.
LEMMA DClearInv ==
  ASSUME IInv, NEW c \in Callers, DClear(c), UNCHANGED walkVars
  PROVE  IInv'
<1>1. /\ Settles /\ where' \in [Objects -> Places]
      /\ doomed' = doomed /\ pending \subseteq pending' /\ excused \subseteq excused'
  BY ZenonT(60), SettleSettles DEF IInv, Shape, Settles, DClear, Goto, Result, Leave, StillDisk,
     NoFault, args, disk, holds, walkVars
<1>2. Frame(c)
  BY ZenonT(60) DEF IInv, Shape, HandlesOf, Frame, Results, At, DClear, Goto, Result, Leave,
     StillDisk, NoFault, args, disk, holds, walkVars
<1>3. Onward(c)
  <2>1. pc[c] = "d_clear" /\ aside'[c] = aside[c] /\ (aside[c] => h[c] # Base)
    BY Zenon DEF IInv, BaseOf, DSteps, DClear
  <2>2. pc'[c] = "d_aside" \/ (pc'[c] = "close" /\ res'[c] = "err")
    BY ZenonT(60) DEF IInv, Shape, DClear, Goto, Result, Leave
  <2> QED
    BY ZenonT(60), <2>1, <2>2 DEF Onward, DSteps, RSteps
<1>4. /\ pending' \subseteq Objects /\ pending' \subseteq pending \cup doomed'
      /\ readonly \ readonly' \subseteq doomed'
  BY ZenonT(60) DEF IInv, Shape, HandlesOf, DSteps, RSteps, Busy, DClear, Goto, Result, Leave,
     StillDisk, NoFault, args, disk, holds, walkVars
<1>5. \A f \in Files : Responsible(c, f) => f \in pending' \cup excused' \/ Responsible(c, f)'
  BY Zenon DEF IInv, Shape, Responsible, DClear, Goto, Result, Leave, StillDisk, NoFault,
     args, disk, holds, walkVars
<1> QED
  BY Zenon, <1>1, <1>2, <1>3, <1>4, <1>5, Works

\* DMark: the file is marked, or goes back.
LEMMA DMarkInv ==
  ASSUME IInv, NEW c \in Callers, DMark(c), UNCHANGED walkVars
  PROVE  IInv'
<1>1. /\ Settles /\ where' \in [Objects -> Places]
      /\ doomed' = doomed /\ pending \subseteq pending' /\ excused \subseteq excused'
  BY Zenon DEF IInv, Shape, Settles, DMark, Goto, Result, Leave, StillDisk, NoFault, args,
     disk, holds, walkVars
<1>2. Frame(c)
  BY ZenonT(60) DEF IInv, Shape, HandlesOf, Frame, Results, At, DMark, Goto, Result, Leave,
     StillDisk, NoFault, args, disk, holds, walkVars
<1>3. Onward(c)
  <2>1. pc[c] = "d_mark" /\ aside'[c] = aside[c] /\ (aside[c] => h[c] # Base)
    BY Zenon DEF IInv, BaseOf, DSteps, DMark
  <2>2. \/ pc'[c] = "back" /\ aside[c]
        \/ pc'[c] = "close" /\ (res'[c] = "err" \/ h[c] \in pending')
    BY ZenonT(60) DEF IInv, Shape, DMark, Goto, Result, Leave
  <2> QED
    BY ZenonT(60), <2>1, <2>2 DEF Onward, DSteps, RSteps
<1>4. /\ pending' \subseteq Objects /\ pending' \subseteq pending \cup doomed'
      /\ readonly \ readonly' \subseteq doomed'
  BY DEF IInv, Shape, HandlesOf, DSteps, RSteps, Busy, DMark, Goto, Result, Leave,
     StillDisk, NoFault, args, disk, holds, walkVars
<1>5. \A f \in Files : Responsible(c, f) => f \in pending' \cup excused' \/ Responsible(c, f)'
  BY Zenon DEF IInv, Shape, Responsible, DMark, Goto, Result, Leave, StillDisk, NoFault,
     args, disk, holds, walkVars
<1> QED
  BY Zenon, <1>1, <1>2, <1>3, <1>4, <1>5, Works

\* Only the file itself can be at the name made from its id.
LEMMA OwnName ==
  ASSUME IInv, NEW f \in Objects
  PROVE  At(f) \ {f} = {}
BY Zenon DEF IInv, OwnPlace, At

\* DAside: the file is set aside, where it may be.
LEMMA DAsideInv ==
  ASSUME IInv, NEW c \in Callers, DAside(c), UNCHANGED walkVars
  PROVE  IInv'
<1>1. /\ pc[c] = "d_aside" /\ pc'[c] = "d_mark" /\ h[c] \in Objects /\ opt[c] # "rename"
      /\ pc[c] \in DSteps /\ pc[c] \in Busy /\ BaseOf(c) /\ h'[c] = h[c]
      /\ name'[c] = name[c] /\ opt'[c] = opt[c]
      /\ \A f \in Files : ~Responsible(c, f)
  BY Zenon DEF IInv, Shape, HandlesOf, Responsible, Busy, DSteps, DAside, Goto, args
<1>2. /\ UNCHANGED <<disk, readonly, pending, doomed>> /\ excused \subseteq excused'
      /\ pending \subseteq doomed
  BY Zenon DEF IInv, OnlyNamedFilesHarmed, DAside, StillDisk
<1>3. Frame(c)
  BY Zenon DEF IInv, Shape, Frame, DAside, Goto, StillDisk, disk, args, walkVars
<1>4. CASE UNCHANGED <<where, aside>>
  <2>1. Onward(c)
    BY Zenon, <1>1, <1>4 DEF Onward, BaseOf, DSteps, RSteps
  <2>2. Settles /\ where' \in [Objects -> Places] /\ pending' \subseteq Objects
    BY Zenon, <1>2, <1>4 DEF IInv, Shape, Settles
  <2> QED
    BY Zenon, <1>1, <1>2, <1>3, <2>1, <2>2, Works
<1>5. CASE where' = Moved(h[c], h[c]) /\ aside'[c] = TRUE /\ kind[h[c]] = "file"
  <2>1. h[c] \in Files
    BY Zenon, <1>1, <1>5 DEF IInv, BaseStays, Objects
  <2>2. Onward(c)
    BY Zenon, <1>1, <1>5, <2>1, PlacesAssumption DEF Onward, DSteps, RSteps
  <2>3. where[h[c]] = h[c] \/ h[c] \in pending \cup excused' \/ Responsible(c, h[c])'
    BY Zenon, <1>1, <1>2, <1>5 DEF IInv, FoundAside, Responsible
  <2>4. At(h[c]) \ {h[c]} \subseteq doomed' /\ doomed \subseteq doomed'
    BY Zenon, <1>1, <1>2, OwnName
  <2> QED
    BY Zenon, <1>1, <1>2, <1>3, <1>5, <2>1, <2>2, <2>3, <2>4, WorksMoving
<1> QED
  BY ZenonT(60), <1>4, <1>5 DEF IInv, Shape, DAside

----------------------------------------------------------------------------
(* Renameat, and the way back.                                             *)

\* ROpen: the file at the old name is opened, or Renameat returns.
LEMMA ROpenInv ==
  ASSUME IInv, NEW c \in Callers, ROpen(c), UNCHANGED walkVars
  PROVE  IInv'
<1> USE PlacesAssumption
<1>1. /\ pc[c] = "r_open" /\ HandlesOf(c) /\ BaseOf(c) /\ opt[c] = "rename"
      /\ name[c] \in Names /\ newname[c] \in Names /\ ret[c] = "idle"
      /\ \A f \in Files : ~Responsible(c, f)
  BY Zenon DEF IInv, HandlesOf, BaseOf, Responsible, ROpen
<1>2. /\ UNCHANGED <<disk, where, readonly, pending, args, h2, answer, todo, aside, doomed>>
      /\ Settles /\ excused \subseteq excused'
  BY Zenon DEF ROpen, StillDisk, Settles, Opened, walkVars
<1>3. Shape' /\ Keeps(c)
  <2>1. {"close", "r_ex"} \subseteq PCs /\ {"nil", "notexist", "isdir", "err"} \subseteq Results
    BY ZenonT(60) DEF PCs, Busy, RSteps, Results
  <2>2. Shape'
    <3>1. pc' \in [Callers -> PCs] /\ res' \in [Callers -> Results]
      <4>1. /\ Goto(c, "close") \/ Goto(c, "r_ex")
            /\ res' = res \/ Result(c, "notexist") \/ Result(c, "err")
        BY Zenon DEF ROpen, Leave
      <4>2. pc \in [Callers -> PCs] /\ res \in [Callers -> Results]
        BY Zenon DEF IInv, Shape
      <4> QED
        BY <2>1, <4>1, <4>2 DEF Goto, Result
    <3>2. h' \in [Callers -> Objects \cup {NoFile}]
      <4>1. h' = h \/ \E f \in Objects : h' = [h EXCEPT ![c] = f]
        BY Zenon DEF ROpen, Opened, At
      <4> QED
        BY Zenon, <4>1 DEF IInv, Shape
    <3> QED
      BY Zenon, <1>2, <3>1, <3>2 DEF IInv, Shape, args
  <2>3. Keeps(c)
    BY ZenonT(60), <1>2 DEF IInv, Shape, Keeps, ROpen, Opened, Goto, Result, Leave, args
  <2> QED
    BY Zenon, <2>2, <2>3
<1>4. /\ ret'[c] = ret[c] /\ name'[c] = name[c] /\ newname'[c] = newname[c]
      /\ opt'[c] = opt[c] /\ answer'[c] = answer[c]
  BY Zenon, <1>2 DEF args
<1>5. CASE pc'[c] = "close"
  <2>1. BaseOf(c)'
    BY Zenon, <1>1, <1>2, <1>4, <1>5 DEF BaseOf, BaseGone, Verdicts, DSteps, RSteps
  <2> QED
    BY ZenonT(60), <1>1, <1>2, <1>3, <1>4, <1>5, <2>1, Leaves DEF disk, Busy, DSteps, RSteps
<1>6. ASSUME NEW f \in At(name[c]), pc'[c] = "r_ex", h'[c] = f
      PROVE  IInv'
  <2>1. f \in Objects /\ where[f] = name[c]
    BY Zenon DEF At
  <2>2. f # Base /\ name[c] \notin Objects
    BY Zenon, <1>1, <2>1 DEF IInv, BaseStays, Top
  <2>3. HandlesOf(c)'
    BY Zenon, <1>1, <1>4, <1>6, <2>1, <2>2 DEF HandlesOf, Busy, DSteps, RSteps
  <2>4. BaseOf(c)'
    BY Zenon, <1>1, <1>2, <1>4, <1>6, <2>2 DEF BaseOf, BaseGone, Verdicts, DSteps, RSteps
  <2> QED
    BY ZenonT(60), <1>1, <1>2, <1>3, <1>4, <1>6, <2>1, <2>2, <2>3, <2>4, Stays DEF disk
<1> QED
  BY ZenonT(60), <1>5, <1>6 DEF IInv, Shape, ROpen, Leave, Goto, Result, Opened

\* RTarget: the file at the new name is opened.
LEMMA RTargetInv ==
  ASSUME IInv, NEW c \in Callers, RTarget(c), UNCHANGED walkVars
  PROVE  IInv'
<1>1. /\ Settles /\ where' \in [Objects -> Places]
      /\ doomed' = doomed /\ pending \subseteq pending' /\ excused \subseteq excused'
  BY ZenonT(60) DEF IInv, Shape, Settles, RTarget, Goto, Result, Leave, StillDisk, NoFault,
     args, disk, holds, walkVars
<1>2. Frame(c)
  BY DEF IInv, Shape, HandlesOf, Frame, Results, At, RTarget, Goto, Result, Leave,
     StillDisk, NoFault, args, disk, holds, walkVars
<1>3. Onward(c)
  BY ZenonT(60) DEF IInv, Shape, HandlesOf, BaseOf, BaseStays, Onward, DSteps, RSteps, At, Busy,
     RTarget, Goto, Result, Leave, StillDisk, NoFault, args, disk, holds, walkVars
<1>4. /\ pending' \subseteq Objects /\ pending' \subseteq pending \cup doomed'
      /\ readonly \ readonly' \subseteq doomed'
  BY Zenon DEF IInv, Shape, HandlesOf, DSteps, RSteps, Busy, RTarget, Goto, Result, Leave,
     StillDisk, NoFault, args, disk, holds, walkVars
<1>5. \A f \in Files : Responsible(c, f) => f \in pending' \cup excused' \/ Responsible(c, f)'
  BY Zenon DEF IInv, Shape, Responsible, RTarget, Goto, Result, Leave, StillDisk, NoFault,
     args, disk, holds, walkVars
<1> QED
  BY ZenonT(60), <1>1, <1>2, <1>3, <1>4, <1>5, Works

\* RInfo: a read-only target, or a directory, is left alone.
LEMMA RInfoInv ==
  ASSUME IInv, NEW c \in Callers, RInfo(c), UNCHANGED walkVars
  PROVE  IInv'
<1>1. /\ Settles /\ where' \in [Objects -> Places]
      /\ doomed' = doomed /\ pending \subseteq pending' /\ excused \subseteq excused'
  BY Zenon DEF IInv, Shape, Settles, RInfo, Goto, Result, Leave, StillDisk, NoFault, args,
     disk, holds, walkVars
<1>2. Frame(c)
  BY ZenonT(60) DEF IInv, Shape, HandlesOf, Frame, Results, At, RInfo, Goto, Result, Leave,
     StillDisk, NoFault, args, disk, holds, walkVars
<1>3. Onward(c)
  <2>1. pc[c] = "r_info" /\ h2'[c] = h2[c] /\ h2[c] \in Objects
    BY Zenon DEF IInv, HandlesOf, RInfo
  <2>2. \/ pc'[c] = "r_aside" /\ h2[c] # Base
        \/ pc'[c] = "close"
    BY ZenonT(60) DEF IInv, Shape, BaseStays, RInfo, Goto, Result, Leave
  <2> QED
    BY ZenonT(60), <2>1, <2>2 DEF Onward, DSteps, RSteps
<1>4. /\ pending' \subseteq Objects /\ pending' \subseteq pending \cup doomed'
      /\ readonly \ readonly' \subseteq doomed'
  BY Zenon DEF IInv, Shape, HandlesOf, DSteps, RSteps, Busy, RInfo, Goto, Result, Leave,
     StillDisk, NoFault, args, disk, holds, walkVars
<1>5. \A f \in Files : Responsible(c, f) => f \in pending' \cup excused' \/ Responsible(c, f)'
  BY ZenonT(60) DEF IInv, Shape, Responsible, RInfo, Goto, Result, Leave, StillDisk, NoFault,
     args, disk, holds, walkVars
<1> QED
  BY Zenon, <1>1, <1>2, <1>3, <1>4, <1>5, Works

\* RMark: the replaced file is marked.
LEMMA RMarkInv ==
  ASSUME IInv, NEW c \in Callers, RMark(c), UNCHANGED walkVars
  PROVE  IInv'
<1>1. /\ Settles /\ where' \in [Objects -> Places]
      /\ doomed' = doomed /\ pending \subseteq pending' /\ excused \subseteq excused'
  BY Zenon DEF IInv, Shape, Settles, RMark, Goto, Result, Leave, StillDisk, NoFault, args,
     disk, holds, walkVars
<1>2. Frame(c)
  BY ZenonT(60) DEF IInv, Shape, HandlesOf, Frame, Results, At, RMark, Goto, Result, Leave,
     StillDisk, NoFault, args, disk, holds, walkVars
<1>3. Onward(c)
  BY ZenonT(60) DEF IInv, Shape, HandlesOf, BaseOf, BaseStays, Onward, DSteps, RSteps, At, Busy,
     RMark, Goto, Result, Leave, StillDisk, NoFault, args, disk, holds, walkVars
<1>4. /\ pending' \subseteq Objects /\ pending' \subseteq pending \cup doomed'
      /\ readonly \ readonly' \subseteq doomed'
  BY ZenonT(60) DEF IInv, Shape, HandlesOf, DSteps, RSteps, Busy, RMark, Goto, Result, Leave,
     StillDisk, NoFault, args, disk, holds, walkVars
<1>5. \A f \in Files : Responsible(c, f) => f \in pending' \cup excused' \/ Responsible(c, f)'
  BY Zenon DEF IInv, Shape, Responsible, RMark, Goto, Result, Leave, StillDisk, NoFault,
     args, disk, holds, walkVars
<1> QED
  BY Zenon, <1>1, <1>2, <1>3, <1>4, <1>5, Works

\* RAside: the replaced file is set aside.
LEMMA RAsideInv ==
  ASSUME IInv, NEW c \in Callers, RAside(c), UNCHANGED walkVars
  PROVE  IInv'
<1>1. /\ pc[c] = "r_aside" /\ h2[c] \in Objects /\ h2[c] # Base /\ opt[c] = "rename"
      /\ pc[c] \in RSteps /\ h2'[c] = h2[c] /\ opt'[c] = opt[c] /\ name[c] \in Names
      /\ \A f \in Files : ~Responsible(c, f)
  BY Zenon DEF IInv, Shape, HandlesOf, BaseOf, Responsible, RSteps, RAside, args
<1>2. UNCHANGED <<disk, readonly, pending, doomed, excused>> /\ pending \subseteq doomed
  BY Zenon DEF IInv, OnlyNamedFilesHarmed, RAside, StillDisk
<1>3. Frame(c)
  BY ZenonT(60) DEF IInv, Shape, Frame, RAside, Goto, Leave, Result, Results, StillDisk, disk, args, walkVars
<1>4. CASE where' = where /\ pc'[c] = "close"
  <2>1. Onward(c)
    BY Zenon, <1>1, <1>4 DEF Onward, DSteps, RSteps
  <2>2. Settles /\ where' \in [Objects -> Places] /\ pending' \subseteq Objects
    BY Zenon, <1>2, <1>4 DEF IInv, Shape, Settles
  <2> QED
    BY Zenon, <1>1, <1>2, <1>3, <2>1, <2>2, Works
<1>5. CASE where' = Moved(h2[c], h2[c]) /\ pc'[c] = "r_retry"
  <2>1. h2[c] \in Files /\ name[c] \notin Objects
    BY Zenon, <1>1, PlacesAssumption DEF Objects
  <2>2. Onward(c)
    BY Zenon, <1>1, <1>5 DEF Onward, DSteps, RSteps
  <2>3. Responsible(c, h2[c])'
    BY Zenon, <1>1, <1>5 DEF Responsible
  <2>4. At(h2[c]) \ {h2[c]} \subseteq doomed' /\ doomed \subseteq doomed' /\ excused \subseteq excused'
    BY Zenon, <1>1, <1>2, OwnName
  <2> QED
    BY ZenonT(60), <1>1, <1>2, <1>3, <1>5, <2>1, <2>2, <2>3, <2>4, WorksMoving
<1> QED
  BY ZenonT(60), <1>4, <1>5 DEF IInv, Shape, RAside, Goto, Leave

\* REx and RPlain: the file takes the new name.
LEMMA RenameInv ==
  ASSUME IInv, NEW c \in Callers, REx(c) \/ RPlain(c), UNCHANGED walkVars
  PROVE  IInv'
<1>1. /\ pc[c] \in {"r_ex", "r_plain"} /\ pc[c] \in RSteps /\ h[c] \in Objects /\ h[c] # Base
      /\ opt[c] = "rename" /\ name[c] \in Names /\ newname[c] \in Names
      /\ \A f \in Files : ~Responsible(c, f)
  BY ZenonT(60) DEF IInv, HandlesOf, BaseOf, Responsible, Busy, RSteps, REx, RPlain
<1>2. UNCHANGED <<disk, readonly, pending>> /\ pending \subseteq doomed
  BY Zenon DEF IInv, OnlyNamedFilesHarmed, REx, RPlain, StillDisk
<1>3. Frame(c) /\ pc'[c] \in {"r_plain", "r_target", "close"}
  BY ZenonT(60) DEF IInv, Shape, Frame, REx, RPlain, Goto, Leave, Result, Results, StillDisk, disk, args,
     walkVars
<1>4. Onward(c)
  BY Zenon, <1>1, <1>3 DEF Onward, DSteps, RSteps
<1>5. CASE UNCHANGED <<where, doomed>> /\ excused \subseteq excused'
  <2>1. Settles /\ where' \in [Objects -> Places] /\ pending' \subseteq Objects
    BY ZenonT(60), <1>2, <1>5 DEF IInv, Shape, Settles
  <2> QED
    BY Zenon, <1>1, <1>2, <1>3, <1>4, <1>5, <2>1, Works
<1>6. CASE Installs(c)
  <2>1. h[c] \in Files /\ newname[c] # h[c] /\ name[c] \notin Objects
    BY Zenon, <1>1, PlacesAssumption DEF Objects
  <2> QED
    BY ZenonT(60), <1>1, <1>2, <1>3, <1>4, <1>6, <2>1, WorksMoving DEF Installs
<1> QED
  BY ZenonT(60), <1>5, <1>6 DEF REx, RPlain

\* RRetry: the file takes the new name, or what had it goes back.
LEMMA RRetryInv ==
  ASSUME IInv, NEW c \in Callers, RRetry(c), UNCHANGED walkVars
  PROVE  IInv'
<1>1. /\ pc[c] = "r_retry" /\ pc[c] \in RSteps /\ h[c] \in Objects /\ h[c] # Base
      /\ opt[c] = "rename" /\ name[c] \in Names /\ newname[c] \in Names
      /\ h2[c] \in Objects /\ h2[c] # Base /\ h2'[c] = h2[c] /\ opt'[c] = opt[c]
  BY Zenon DEF IInv, Shape, HandlesOf, BaseOf, Busy, RSteps, RRetry, args
<1>2. UNCHANGED <<disk, readonly, pending>> /\ pending \subseteq doomed
  BY Zenon DEF IInv, OnlyNamedFilesHarmed, RRetry, StillDisk
<1>3. Frame(c) /\ pc'[c] \in {"r_mark", "back"}
  BY Zenon DEF IInv, Shape, Frame, RRetry, Goto, Result, Results, StillDisk, disk, args, walkVars
<1>4. \A f \in Files : Responsible(c, f) => Responsible(c, f)'
  BY Zenon, <1>1, <1>3 DEF Responsible
<1>5. CASE pc'[c] = "back" /\ UNCHANGED <<where, doomed, excused>>
  <2>1. Onward(c)
    BY Zenon, <1>1, <1>5 DEF Onward, DSteps, RSteps
  <2>2. Settles /\ where' \in [Objects -> Places] /\ pending' \subseteq Objects
    BY ZenonT(60), <1>2, <1>5 DEF IInv, Shape, Settles
  <2> QED
    BY Zenon, <1>2, <1>3, <1>4, <1>5, <2>1, <2>2, Works
<1>6. CASE /\ pc'[c] = "r_mark" /\ where' = Moved(h[c], newname[c])
           /\ doomed' = doomed \cup {h2[c]} \cup (At(newname[c]) \ {h[c]})
           /\ excused' = excused \cup Contested(c, h[c])
  <2>1. Onward(c)
    BY Zenon, <1>1, <1>6 DEF Onward, DSteps, RSteps
  <2>2. h[c] \in Files /\ newname[c] # h[c] /\ name[c] \notin Objects
    BY Zenon, <1>1, PlacesAssumption DEF Objects
  <2> QED
    BY ZenonT(60), <1>1, <1>2, <1>3, <1>4, <1>6, <2>1, <2>2, WorksMoving
<1> QED
  BY ZenonT(60), <1>5, <1>6 DEF IInv, Shape, RRetry, Goto

\* Back: the file set aside returns to its name, if that is free.
LEMMA BackInv ==
  ASSUME IInv, NEW c \in Callers, Back(c), UNCHANGED walkVars
  PROVE  IInv'
<1> DEFINE f == IF opt[c] = "rename" THEN h2[c] ELSE h[c]
           nm == IF opt[c] = "rename" THEN newname[c] ELSE name[c]
<1>1. /\ pc[c] = "back" /\ pc[c] \in Busy /\ pc'[c] = "close" /\ HandlesOf(c) /\ BaseOf(c)
      /\ h[c] \in Objects /\ f \in Objects \cup {NoFile} /\ f # Base /\ nm # Top
      /\ name[c] \in Names \cup Files \cup {Top} /\ newname[c] \in Names \cup {Top}
      /\ opt[c] = "rename" => newname[c] \in Names /\ name[c] \in Names
  <2>1. /\ pc[c] = "back" /\ pc'[c] = "close" /\ HandlesOf(c) /\ BaseOf(c)
        /\ h[c] \in Objects \cup {NoFile} /\ h2[c] \in Objects \cup {NoFile}
        /\ name[c] \in Names \cup Files \cup {Top} /\ newname[c] \in Names \cup {Top}
    BY Zenon DEF IInv, Shape, Back, Goto
  <2>2. pc[c] \in Busy
    BY Zenon, <2>1 DEF Busy
  <2> QED
    BY Zenon, <2>1, <2>2, PlacesAssumption DEF HandlesOf, BaseOf, Top
<1>2. UNCHANGED <<disk, readonly, pending, doomed>> /\ pending \subseteq doomed
  BY Zenon DEF IInv, OnlyNamedFilesHarmed, Back, StillDisk
<1>3. Frame(c)
  BY Zenon DEF IInv, Shape, Frame, Back, Goto, StillDisk, disk, args, walkVars
<1>4. Onward(c)
  BY Zenon, <1>1 DEF Onward, DSteps, RSteps
<1>5. \A g \in Files : Responsible(c, g) => g = f /\ nm # f
  BY Zenon, <1>1, PlacesAssumption DEF Responsible, Objects
<1>6. CASE where' = where /\ excused' = excused \cup {f}
  <2>1. Settles /\ where' \in [Objects -> Places] /\ pending' \subseteq Objects
    BY ZenonT(60), <1>2, <1>6 DEF IInv, Shape, Settles
  <2> QED
    BY ZenonT(60), <1>2, <1>3, <1>4, <1>5, <1>6, <2>1, Works
<1>7. CASE /\ At(nm) \ {f} = {} /\ where' = Moved(f, nm)
           /\ excused' = excused \cup Contested(c, f)
  <2>1. CASE f \in Objects
    <3>1. f \in Files /\ nm \in Names \cup {f}
      BY Zenon, <1>1, <2>1 DEF Objects, HandlesOf
    <3>2. nm = f => where[f] = f \/ f \in pending \cup excused'
      BY ZenonT(60), <1>1, <1>7, <3>1, PlacesAssumption DEF IInv, FoundAside, Objects
    <3> QED
      <4>1. pc'[c] \notin Busy
        BY Zenon, <1>1 DEF Busy, DSteps, RSteps
      <4>2. /\ At(nm) \ {f} \subseteq doomed' /\ doomed \subseteq doomed' /\ excused \subseteq excused'
            /\ UNCHANGED <<readonly, pending>> /\ Contested(c, f) \subseteq excused'
        BY Zenon, <1>2, <1>7
      <4> HIDE DEF f, nm
      <4>3. where' = Moved(f, nm)
        BY Zenon, <1>7
      <4> QED
        BY SMTT(30), <1>3, <1>4, <1>5, <3>1, <3>2, <4>1, <4>2, <4>3, WorksMoving
  <2>2. CASE f \notin Objects
    <3>1. Settles /\ where' \in [Objects -> Places] /\ pending' \subseteq Objects
      BY ZenonT(60), <1>2, <1>7, <2>2 DEF IInv, Shape, Settles, Moved, At
    <3>2. \A g \in Files : ~Responsible(c, g)
      BY Zenon, <1>5, <2>2 DEF Objects
    <3> QED
      BY ZenonT(60), <1>2, <1>3, <1>4, <1>7, <3>1, <3>2, Works
  <2> QED
    BY ZenonT(60), <2>1, <2>2
<1> QED
  BY Zenon, <1>6, <1>7 DEF Back

----------------------------------------------------------------------------
(* The invariant, and what it shows.                                       *)

\* Every step keeps the invariant.
LEMMA NextInv ==
  ASSUME IInv, [Next]_vars
  PROVE  IInv'
<1>1. CASE UNCHANGED vars
  BY ZenonT(60), <1>1, Still DEF IInv, Shape, Settles, vars, atVars, walkVars
<1>2. ASSUME NEW c \in Callers, Walk(c)
      PROVE  IInv'
  BY ZenonT(60), <1>2, VerdictInv, OpenDirInv, ReadInv, NextNameInv, EntryInv, OnBaseInv DEF Walk
<1>3. ASSUME NEW c \in Callers, AtStep(c), UNCHANGED walkVars
      PROVE  IInv'
  BY ZenonT(60), <1>3, DOpenInv, DExInv, DInfoInv, DReopenInv, DClearInv, DAsideInv, DMarkInv, BackInv,
     CloseInv, ROpenInv, RenameInv, RTargetInv, RInfoInv, RAsideInv, RRetryInv, RMarkInv
     DEF AtStep
<1>4. ASSUME NEW c \in Callers, RemoveAllCall(c)
      PROVE  IInv'
  BY Zenon, <1>4, OnBaseInv
<1>5. ASSUME NEW c \in Callers, Deletes(c) \/ Renames(c), UNCHANGED walkVars
      PROVE  IInv'
  BY Zenon, <1>5, BeginInv
<1>6. CASE Others /\ UNCHANGED walkVars
  BY ZenonT(60), <1>6, OtherHoldsInv, OtherMovesInv, CrashInv DEF Others
<1> QED
  BY ZenonT(60), <1>1, <1>2, <1>3, <1>4, <1>5, <1>6 DEF Next, Step

\* The invariant holds throughout.
LEMMA Invariance == Spec => []IInv
<1>1. Init => IInv
  BY Zenon, InitInv
<1>2. IInv /\ [Next]_vars => IInv'
  BY Zenon, NextInv
<1> QED
  BY <1>1, <1>2, PTL DEF Spec

\* No file is lost or harmed by mistake, whatever fails or crashes between two
\* calls of Deleteat, Renameat or RemoveAll, and whoever takes a name meanwhile.
THEOREM NoFileHarmedByMistake == Spec => []OnlyNamedFilesHarmed
<1>1. IInv => OnlyNamedFilesHarmed
  BY Zenon DEF IInv
<1> QED
  BY <1>1, Invariance, PTL

\* A file set aside is marked, is held by a call that marks it or puts it back,
\* or is there after a failure or a crash (setAsideForDelete's callers).
THEOREM NoUnexplainedStray == Spec => []StraysExplained
<1>1. IInv => StraysExplained
  BY Zenon DEF IInv, Accounted, Responsible, StraysExplained, Held
<1> QED
  BY <1>1, Invariance, PTL

\* RemoveAll returns nil only when the directory is deleted, or marked and gone
\* with its last handle, however its listing fails (removeAllFrom).
THEOREM NilIsBelieved == Spec => []NilMeansGone
<1>1. IInv => NilMeansGone
  BY Zenon DEF IInv, BaseOf, BaseGone, NilMeansGone
<1> QED
  BY <1>1, Invariance, PTL

----------------------------------------------------------------------------
(* A deleted file's name is free.                                          *)

\* What a step of the callers in C does to the files of the other calls: they
\* stay, they are off, or they are excused.  It may create others.
Drift(C) ==
  \A f \in Objects :
    \/ where'[f] \in {where[f], f, "away", "gone"}
    \/ f \in excused' \/ where[f] = "unborn"
    \/ f \notin pending /\ \A b \in Callers \ C : f \notin {h[b], h2[b]}

\* The calls of the others are where they were.
KeepsCalls(C) ==
  \A b \in Callers \ C :
    /\ pc'[b] = pc[b] /\ name'[b] = name[b] /\ newname'[b] = newname[b] /\ opt'[b] = opt[b]
    /\ h'[b] = h[b] /\ h2'[b] = h2[b] /\ res'[b] = res[b] /\ haveData'[b] = haveData[b]

\* The facts about another call survive a step that lets its files drift.
LEMMA OtherFrees ==
  ASSUME IInv, FInv, NEW C, KeepsCalls(C), NEW b \in Callers \ C, Drift(C),
         UNCHANGED <<kind, volume>>, excused \subseteq excused', pending \subseteq pending'
  PROVE  FreesOf(b)'
<1> USE PlacesAssumption
<1>1. HandlesOf(b) /\ FreesOf(b) /\ pc'[b] = pc[b] /\ h'[b] = h[b] /\ h2'[b] = h2[b]
  BY Zenon DEF IInv, FInv, KeepsCalls
<1>2. pc[b] \in DSteps \cup RSteps => h[b] \in Objects
  BY Zenon, <1>1 DEF HandlesOf, Busy
<1>3. pc[b] \in {"r_info", "r_aside", "r_retry", "r_mark"} => h2[b] \in Objects
  BY Zenon, <1>1 DEF HandlesOf
<1>4. pc[b] = "r_target" => newname[b] \in Names
  BY Zenon, <1>1 DEF HandlesOf, RSteps
<1>5. \A f \in {h[b], h2[b]} : f \in Objects /\ f \notin excused' /\ where[f] # "unborn" =>
        where'[f] \in {where[f], f, "away", "gone"}
  BY Zenon DEF Drift
<1>6. name[b] # "unborn"
  BY Zenon DEF IInv, Shape, Objects, Top
<1>7. /\ (pc[b] \in DSteps \ {"d_ex"} => volume # "posix")'
      /\ (pc[b] \in DSteps /\ ~haveData[b] => h[b] \in excused)'
      /\ (pc[b] = "back" => res[b] # "nil")'
      /\ (pc[b] \in {"r_info", "r_aside", "r_retry", "r_mark"} => h2[b] # h[b] \/ h[b] \in excused)'
      /\ (pc[b] = "close" /\ opt[b] # "rename" /\ res[b] = "nil" /\ volume # "posix"
            => h[b] \in pending)'
  BY Zenon, <1>1 DEF FreesOf, KeepsCalls
<1>8. /\ (pc[b] \in DSteps /\ h[b] \notin excused => Off(h[b]) \/ where[h[b]] = name[b])'
      /\ (pc[b] = "d_mark" /\ kind[h[b]] = "file" /\ h[b] \notin excused => Off(h[b]))'
  BY ZenonT(60), <1>1, <1>2, <1>5, <1>6 DEF FreesOf, Off, KeepsCalls, DSteps
<1>9. /\ (pc[b] \in {"r_ex", "r_plain"} /\ h[b] \notin excused => where[h[b]] # "unborn")'
       /\ (pc[b] = "r_target" /\ h[b] \notin excused => where[h[b]] \notin {newname[b], "unborn"})'
  <2>1. pc[b] \in {"r_ex", "r_plain", "r_target"} /\ h[b] \notin excused' => where[h[b]] # "unborn"
    BY Zenon, <1>1 DEF FreesOf
  <2>2. pc[b] = "r_target" /\ h[b] \notin excused' => where[h[b]] # newname[b] /\ newname'[b] = newname[b]
    BY Zenon, <1>1 DEF FreesOf, KeepsCalls
  <2>3. pc[b] \in {"r_ex", "r_plain", "r_target"} => h[b] \in Objects
    BY Zenon, <1>2 DEF RSteps
  <2> QED
    BY Zenon, <1>1, <1>4, <1>5, <2>1, <2>2, <2>3
<1>10. (pc[b] \in {"r_retry", "r_mark"} /\ h2[b] \notin excused => Off(h2[b]))'
  BY Zenon, <1>1, <1>3, <1>5 DEF FreesOf, Off
<1> QED
  BY Zenon, <1>7, <1>8, <1>9, <1>10 DEF FreesOf

\* A step of c's call keeps the invariant, if it keeps its own facts and marks
\* only what is off.
LEMMA Frees ==
  ASSUME IInv, FInv, NEW C \in SUBSET Callers, KeepsCalls(C), Drift(C), OneEach',
         haveData' \in [Callers -> BOOLEAN], UNCHANGED <<kind, volume>>,
         excused \subseteq excused', pending \subseteq pending', (\A c \in C : FreesOf(c)'),
         \A f \in pending' \ pending :
           volume # "posix" /\ kind[f] = "file" /\ f \notin excused' => Off(f)'
  PROVE  FInv'
<1>1. \A b \in Callers \ C : FreesOf(b)'
  BY Zenon, OtherFrees
<1>2. MarkedOff'
  <2> SUFFICES ASSUME volume # "posix", NEW f \in pending' \ excused', kind[f] = "file", f \in pending
               PROVE  where'[f] \in {f, "away", "gone"}
    BY Zenon DEF MarkedOff, Off
  <2>1. f \in Objects /\ Off(f)
    BY Zenon DEF IInv, Shape, FInv, MarkedOff
  <2> QED
    BY Zenon, <2>1, PlacesAssumption DEF Off, Drift
<1> QED
  BY Zenon, <1>1, <1>2 DEF FInv

\* Steps that move no file.
LEMMA SettlesDrift ==
  ASSUME Settles, OneEach, NEW C
  PROVE  Drift(C) /\ OneEach'
<1> USE PlacesAssumption
<1>1. Drift(C)
  BY Zenon DEF Settles, Drift
<1>2. OneEach'
  BY Zenon DEF Settles, OneEach
<1> QED
  BY Zenon, <1>1, <1>2

\* Steps that move one, aside or in the sight of nobody else.
LEMMA MovedDrift ==
  ASSUME NEW c, OneEach, NEW f \in Objects, NEW nm, where' = Moved(f, nm),
         nm = f \/ (f \notin pending /\ Contested(c, f) \subseteq excused')
  PROVE  Drift({c}) /\ OneEach'
<1> USE PlacesAssumption
<1>1. \A x \in Objects \ {f} : where'[x] = "gone" \/ (where'[x] = where[x] /\ where[x] # nm)
  BY Zenon DEF Moved
<1>2. where'[f] = nm
  BY Zenon DEF Moved
<1>3. Drift({c})
  BY Zenon, <1>1, <1>2 DEF Drift, Contested
<1>4. OneEach'
  BY Zenon, <1>1, <1>2 DEF OneEach
<1> QED
  BY Zenon, <1>3, <1>4

\* A step of c's call that moves no file and marks none.
LEMMA StillFrees ==
  ASSUME IInv, FInv, NEW c \in Callers, KeepsCalls({c}), Settles, pending' = pending,
         haveData' \in [Callers -> BOOLEAN], UNCHANGED <<kind, volume>>,
         excused \subseteq excused', FreesOf(c)'
  PROVE  FInv'
<1>1. Drift({c}) /\ OneEach'
  BY Zenon, SettlesDrift DEF FInv
<1> QED
  BY Zenon, <1>1, Frees

\* Where the invariant says nothing of a call.
Unbound == {"idle", "w_first", "w_opendir", "w_read", "w_next", "w_child", "w_sub", "w_gone",
            "w_rmdir", "w_last", "d_open", "r_open", "crashed"}

\* Deleteat opens the entry.
LEMMA DOpenFrees ==
  ASSUME IInv, FInv, NEW c \in Callers, DOpen(c)
  PROVE  FInv'
<1>1. KeepsCalls({c}) /\ UNCHANGED <<kind, volume, where, pending, name, newname, opt>>
  BY DEF IInv, Shape, FInv, DOpen, KeepsCalls, Leave, Goto, Result, Opened, args, StillDisk, disk
<1>2. Settles /\ opt[c] # "rename"
  BY Zenon, <1>1 DEF IInv, HandlesOf, DOpen, Settles
<1>3. CASE pc'[c] = "close" /\ res'[c] # "nil" /\ UNCHANGED <<haveData, excused>>
  <2>1. FreesOf(c)'
    BY Zenon, <1>3 DEF FreesOf, DSteps
  <2> QED
    BY ZenonT(60), <1>1, <1>2, <1>3, <2>1, StillFrees DEF FInv
<1>4. ASSUME NEW f \in At(name[c]), Opened(c, f), pc'[c] = "d_ex"
      PROVE  FInv'
  <2>1. h'[c] = f /\ where[f] = name[c]
    BY Zenon, <1>4 DEF IInv, Shape, Opened, At
  <2>2. excused \subseteq excused' /\ (haveData'[c] \/ f \in excused')
        /\ haveData' \in [Callers -> BOOLEAN]
    <3>1. CASE haveData' = [haveData EXCEPT ![c] = TRUE] /\ UNCHANGED excused
      BY Zenon, <3>1 DEF FInv
    <3>2. CASE haveData' = [haveData EXCEPT ![c] = FALSE] /\ excused' = excused \cup {f}
      BY Zenon, <3>2 DEF FInv
    <3> QED
      BY Zenon, <1>4, <3>1, <3>2 DEF Opened
  <2>3. FreesOf(c)'
    BY Zenon, <1>1, <1>4, <2>1, <2>2 DEF FreesOf, DSteps
  <2> QED
    BY ZenonT(60), <1>1, <1>2, <2>2, <2>3, StillFrees
<1> QED
  BY ZenonT(60), <1>3, <1>4 DEF IInv, Shape, DOpen, Leave, Goto, Result

\* FileDispositionInformationEx.
LEMMA DExFrees ==
  ASSUME IInv, FInv, NEW c \in Callers, DEx(c)
  PROVE  FInv'
<1>1. /\ KeepsCalls({c}) /\ UNCHANGED <<kind, volume, where, name, h, haveData, excused>>
      /\ pc[c] = "d_ex" /\ pc'[c] \in {"d_info", "close"} /\ pending \subseteq pending'
      /\ volume # "posix" => pending' = pending
      /\ pc'[c] = "d_info" => volume # "posix"
      /\ pc'[c] = "close" => volume = "posix" \/ res'[c] # "nil"
  BY ZenonT(60) DEF IInv, Shape, FInv, DEx, KeepsCalls, Leave, Goto, Result, args, StillDisk, disk
<1>2. FreesOf(c)'
  BY Zenon, <1>1 DEF FInv, FreesOf, DSteps, Off
<1>3. Drift({c}) /\ OneEach'
  BY Zenon, <1>1, SettlesDrift DEF FInv, Settles
<1> QED
  BY ZenonT(60), <1>1, <1>2, <1>3, Frees DEF FInv

\* The steps between the open and the move aside.
LEMMA DInfoFrees ==
  ASSUME IInv, FInv, NEW c \in Callers, DInfo(c) \/ DReopen(c) \/ DClear(c)
  PROVE  FInv'
<1>1. /\ KeepsCalls({c}) /\ UNCHANGED <<kind, volume, pending, name, opt, h, haveData, excused>>
      /\ pc[c] \in DSteps \ {"d_ex"} /\ pc'[c] \in {"d_reopen", "d_clear", "d_aside", "close"}
      /\ pc'[c] = "close" => res'[c] # "nil"
  BY ZenonT(60) DEF IInv, Shape, FInv, DInfo, DReopen, DClear, KeepsCalls, Leave, Goto, Result, args,
         StillDisk, disk, DSteps
<1>2. Settles
  <2>1. CASE DInfo(c) \/ DReopen(c)
    BY Zenon, <2>1 DEF DInfo, DReopen, Settles
  <2>2. CASE DClear(c)
    BY Zenon, <2>2, SettleSettles DEF DClear, IInv
  <2> QED
    BY Zenon, <2>1, <2>2
<1>3. h[c] \in Objects
  BY ZenonT(60), <1>1 DEF IInv, HandlesOf, Busy
<1>4. FreesOf(c)'
  BY ZenonT(60), <1>1, <1>2, <1>3 DEF FInv, FreesOf, DSteps, Off, Settles
<1> QED
  BY ZenonT(60), <1>1, <1>2, <1>4, StillFrees DEF FInv

\* setAsideForDelete: the file is off now, unless it is excused or marked, and a
\* marked file is off already.
LEMMA DAsideFrees ==
  ASSUME IInv, FInv, NEW c \in Callers, DAside(c)
  PROVE  FInv'
<1>1. /\ KeepsCalls({c}) /\ pc[c] = "d_aside" /\ pc'[c] = "d_mark"
      /\ UNCHANGED <<kind, volume, pending, name, h, h2, haveData>> /\ excused \subseteq excused'
  BY ZenonT(60) DEF IInv, Shape, FInv, DAside, KeepsCalls, Goto, args, StillDisk, disk
<1>2. /\ FreesOf(c) /\ pc[c] \in DSteps /\ h[c] \in Objects
  BY ZenonT(60), <1>1 DEF FInv, IInv, HandlesOf, Busy, DSteps
<1>3. CASE where' = Moved(h[c], h[c])
  <2>1. Drift({c}) /\ OneEach'
    BY Zenon, <1>2, <1>3, MovedDrift DEF FInv
  <2>2. where'[h[c]] = h[c]
    BY Zenon, <1>2, <1>3 DEF Moved
  <2>3. FreesOf(c)'
    BY Zenon, <1>1, <1>2, <2>2 DEF FreesOf, DSteps, Off
  <2> QED
    BY Zenon, <1>1, <2>1, <2>3, Frees DEF FInv
<1>4. CASE /\ where' = where
           /\ ~(haveData[c] /\ kind[h[c]] = "file" /\ CanMove(h[c])) \/ h[c] \in excused'
  <2>1. kind[h[c]] = "file" /\ h[c] \notin excused' => h[c] \in pending \/ where[h[c]] = "gone"
    BY Zenon, <1>1, <1>2, <1>4 DEF CanMove, FreesOf
  <2>2. volume # "posix"
    BY Zenon, <1>1, <1>2 DEF FreesOf
  <2>3. kind[h[c]] = "file" /\ h[c] \notin excused' => Off(h[c])
    BY Zenon, <1>1, <2>1, <2>2 DEF Off, FInv, MarkedOff
  <2>4. FreesOf(c)'
    BY ZenonT(60), <1>1, <1>2, <1>4, <2>3 DEF FreesOf, DSteps, Off
  <2> QED
    BY ZenonT(60), <1>1, <1>4, <2>4, StillFrees DEF FInv, Settles
<1> QED
  BY Zenon, <1>3, <1>4 DEF DAside

\* setFileDispositionByHandle.
LEMMA DMarkFrees ==
  ASSUME IInv, FInv, NEW c \in Callers, DMark(c)
  PROVE  FInv'
<1>1. /\ KeepsCalls({c}) /\ pc[c] = "d_mark" /\ pc'[c] \in {"back", "close"}
      /\ UNCHANGED <<kind, volume, where, haveData, h, excused>>
      /\ pc'[c] = "back" => res'[c] # "nil"
      /\ \/ pending' = pending \cup {h[c]}
         \/ pending' = pending /\ res'[c] # "nil"
  BY ZenonT(60) DEF IInv, Shape, FInv, DMark, KeepsCalls, Leave, Goto, Result, args, StillDisk, disk
<1>2. Off(h[c]) \/ kind[h[c]] # "file" \/ h[c] \in excused
  BY Zenon, <1>1 DEF FInv, FreesOf
<1>3. FreesOf(c)'
  BY Zenon, <1>1 DEF FreesOf, DSteps
<1>4. Drift({c}) /\ OneEach'
  BY Zenon, <1>1, SettlesDrift DEF FInv, Settles
<1>5. \A f \in pending' \ pending : kind[f] = "file" /\ f \notin excused' => Off(f)'
  BY Zenon, <1>1, <1>2 DEF Off
<1> QED
  BY ZenonT(60), <1>1, <1>3, <1>4, <1>5, Frees DEF FInv

\* The file set aside goes back: the call has failed.
LEMMA BackFrees ==
  ASSUME IInv, FInv, NEW c \in Callers, Back(c)
  PROVE  FInv'
<1> DEFINE f == IF opt[c] = "rename" THEN h2[c] ELSE h[c]
           nm == IF opt[c] = "rename" THEN newname[c] ELSE name[c]
<1>1. /\ KeepsCalls({c}) /\ pc[c] = "back" /\ pc'[c] = "close" /\ excused \subseteq excused'
      /\ UNCHANGED <<kind, volume, pending, haveData, res>>
  BY Zenon DEF IInv, Shape, FInv, Back, KeepsCalls, Goto, args, StillDisk, disk
<1>2. FreesOf(c)'
  BY Zenon, <1>1 DEF FInv, FreesOf, DSteps
<1>3. CASE where' = where
  BY Zenon, <1>1, <1>2, <1>3, StillFrees DEF FInv, Settles
<1>4. CASE f \notin pending /\ where' = Moved(f, nm) /\ excused' = excused \cup Contested(c, f)
  <2>1. f \in Objects \cup {NoFile}
    BY Zenon DEF IInv, Shape
  <2>2. CASE f \in Objects
    <3> HIDE DEF f, nm
    <3>1. Drift({c}) /\ OneEach'
      BY ZenonT(60), <1>4, <2>2, MovedDrift DEF FInv
    <3> QED
      BY Zenon, <1>1, <1>2, <3>1, Frees DEF FInv
  <2>3. CASE f \notin Objects
    <3> HIDE DEF f, nm
    <3>1. \A x \in Objects : where'[x] \in {where[x], "gone"}
      BY Zenon, <1>4, <2>3 DEF Moved
    <3>2. Drift({c}) /\ OneEach'
      BY Zenon, <3>1, PlacesAssumption DEF Drift, FInv, OneEach
    <3> QED
      BY Zenon, <1>1, <1>2, <3>2, Frees DEF FInv
  <2> QED
    BY Zenon, <2>2, <2>3
<1> QED
  BY Zenon, <1>3, <1>4 DEF Back, CanMove

\* CloseHandle; the call returns.
LEMMA CloseFrees ==
  ASSUME IInv, FInv, NEW c \in Callers, Close(c)
  PROVE  FInv'
<1>1. /\ KeepsCalls({c}) /\ pc'[c] \in Between /\ UNCHANGED <<kind, volume, pending, excused>>
      /\ haveData' = [haveData EXCEPT ![c] = FALSE]
  BY DEF IInv, Shape, FInv, Close, Forget, KeepsCalls, Goto, Result, args, StillDisk, disk
<1>2. haveData' \in [Callers -> BOOLEAN]
  BY Zenon, <1>1 DEF FInv
<1>3. FreesOf(c)'
  BY Zenon, <1>1 DEF FreesOf, Between, DSteps
<1>4. Settles
  BY Zenon, SettleSettles DEF Close, IInv
<1> QED
  BY ZenonT(60), <1>1, <1>2, <1>3, <1>4, StillFrees

\* Renameat opens its source.
LEMMA ROpenFrees ==
  ASSUME IInv, FInv, NEW c \in Callers, ROpen(c)
  PROVE  FInv'
<1> USE PlacesAssumption
<1>1. KeepsCalls({c}) /\ UNCHANGED <<kind, volume, where, pending, name, newname, opt>>
  BY ZenonT(60) DEF IInv, Shape, FInv, ROpen, KeepsCalls, Leave, Goto, Result, Opened, args, StillDisk, disk
<1>2. Settles /\ opt[c] = "rename" /\ name[c] \in Names
  BY Zenon, <1>1 DEF IInv, HandlesOf, ROpen, Settles
<1>3. CASE pc'[c] = "close" /\ UNCHANGED <<haveData, excused>>
  <2>1. FreesOf(c)'
    BY Zenon, <1>1, <1>2, <1>3 DEF FreesOf, DSteps
  <2> QED
    BY Zenon, <1>1, <1>2, <1>3, <2>1, StillFrees DEF FInv
<1>4. ASSUME NEW f \in At(name[c]), Opened(c, f), pc'[c] = "r_ex"
      PROVE  FInv'
  <2>1. h'[c] = f /\ where[f] # "unborn"
    BY ZenonT(60), <1>2, <1>4 DEF IInv, Shape, Opened, At
  <2>2. excused \subseteq excused' /\ haveData' \in [Callers -> BOOLEAN]
    <3>1. CASE haveData' = [haveData EXCEPT ![c] = TRUE] /\ UNCHANGED excused
      BY Zenon, <3>1 DEF FInv
    <3>2. CASE haveData' = [haveData EXCEPT ![c] = FALSE] /\ excused' = excused \cup {f}
      BY Zenon, <3>2 DEF FInv
    <3> QED
      BY Zenon, <1>4, <3>1, <3>2 DEF Opened
  <2>3. FreesOf(c)'
    BY Zenon, <1>1, <1>4, <2>1 DEF FreesOf, DSteps
  <2> QED
    BY ZenonT(60), <1>1, <1>2, <2>2, <2>3, StillFrees
<1> QED
  BY ZenonT(60), <1>3, <1>4 DEF IInv, Shape, ROpen, Leave, Goto, Result

\* rename() succeeds, or goes on: the target, if there is one, is another file.
LEMMA RenameFrees ==
  ASSUME IInv, FInv, NEW c \in Callers, REx(c) \/ RPlain(c)
  PROVE  FInv'
<1>1. /\ KeepsCalls({c}) /\ pc[c] \in {"r_ex", "r_plain"} /\ excused \subseteq excused'
      /\ UNCHANGED <<kind, volume, pending, haveData, h, newname, opt>>
      /\ pc'[c] \in {"r_plain", "r_target", "close"}
  BY ZenonT(60) DEF IInv, Shape, FInv, REx, RPlain, Installs, KeepsCalls, Leave, Goto, Result, args, StillDisk, disk
<1>2. h[c] \in Objects /\ opt[c] = "rename" /\ newname[c] \in Names /\ FreesOf(c)
  BY Zenon, <1>1 DEF IInv, FInv, HandlesOf, Busy, RSteps
<1>3. CASE Installs(c) /\ CanMove(h[c]) /\ pc'[c] = "close"
  <2>1. Drift({c}) /\ OneEach'
    BY Zenon, <1>2, <1>3, MovedDrift DEF FInv, Installs, CanMove
  <2>2. FreesOf(c)'
    BY ZenonT(60), <1>1, <1>2, <1>3 DEF FreesOf, DSteps
  <2> QED
    BY Zenon, <1>1, <2>1, <2>2, Frees DEF FInv
<1>4. CASE /\ UNCHANGED where
           /\ pc'[c] = "r_target" => h[c] \in excused' \/ h[c] \notin At(newname[c])
  <2>1. pc'[c] = "r_target" => h[c] \in excused' \/ where[h[c]] # newname[c]
    BY Zenon, <1>2, <1>4 DEF At
  <2>2. FreesOf(c)'
    BY ZenonT(60), <1>1, <1>2, <1>4, <2>1 DEF FreesOf, DSteps
  <2> QED
    BY ZenonT(60), <1>1, <1>4, <2>2, StillFrees DEF FInv, Settles
<1> QED
  <2>1. CASE REx(c)
    BY ZenonT(60), <2>1, <1>3, <1>4 DEF REx, Leave, Goto, IInv, Shape
  <2>2. CASE RPlain(c)
    BY ZenonT(60), <2>2, <1>3, <1>4 DEF RPlain, Leave, Goto, IInv, Shape
  <2> QED
    BY Zenon, <2>1, <2>2

\* replaceRenameTarget opens the target, which is not the source.
LEMMA RTargetFrees ==
  ASSUME IInv, FInv, NEW c \in Callers, RTarget(c)
  PROVE  FInv'
<1>1. /\ KeepsCalls({c}) /\ pc[c] = "r_target" /\ pc'[c] \in {"r_info", "close"}
      /\ UNCHANGED <<kind, volume, where, pending, haveData, h, excused, opt>>
      /\ pc'[c] = "r_info" => h2'[c] \in At(newname[c])
  BY ZenonT(60) DEF IInv, Shape, FInv, RTarget, KeepsCalls, Leave, Goto, Result, args, StillDisk, disk
<1>2. opt[c] = "rename" /\ FreesOf(c)
  BY Zenon, <1>1 DEF IInv, FInv, HandlesOf, RSteps
<1>3. FreesOf(c)'
  BY Zenon, <1>1, <1>2 DEF FreesOf, DSteps, At
<1> QED
  BY ZenonT(60), <1>1, <1>3, StillFrees DEF FInv, Settles

\* The target's attributes are looked at.
LEMMA RInfoFrees ==
  ASSUME IInv, FInv, NEW c \in Callers, RInfo(c)
  PROVE  FInv'
<1>1. /\ KeepsCalls({c}) /\ pc[c] = "r_info" /\ pc'[c] \in {"r_aside", "close"}
      /\ UNCHANGED <<kind, volume, where, pending, haveData, h, h2, excused, opt>>
  BY ZenonT(60) DEF IInv, Shape, FInv, RInfo, KeepsCalls, Leave, Goto, Result, args, StillDisk, disk
<1>2. opt[c] = "rename" /\ FreesOf(c)
  BY Zenon, <1>1 DEF IInv, FInv, HandlesOf, RSteps
<1>3. FreesOf(c)'
  BY Zenon, <1>1, <1>2 DEF FreesOf, DSteps
<1> QED
  BY ZenonT(60), <1>1, <1>3, StillFrees DEF FInv, Settles

\* The target is set aside.
LEMMA RAsideFrees ==
  ASSUME IInv, FInv, NEW c \in Callers, RAside(c)
  PROVE  FInv'
<1>1. /\ KeepsCalls({c}) /\ pc[c] = "r_aside" /\ pc'[c] \in {"r_retry", "close"}
      /\ UNCHANGED <<kind, volume, pending, haveData, h, h2, excused, opt>>
  BY ZenonT(60) DEF IInv, Shape, FInv, RAside, KeepsCalls, Leave, Goto, Result, args, StillDisk, disk
<1>2. opt[c] = "rename" /\ h2[c] \in Objects /\ FreesOf(c)
  BY ZenonT(60), <1>1 DEF IInv, FInv, HandlesOf, RSteps
<1>3. CASE where' = Moved(h2[c], h2[c])
  <2>1. Drift({c}) /\ OneEach'
    BY Zenon, <1>2, <1>3, MovedDrift DEF FInv
  <2>2. where'[h2[c]] = h2[c]
    BY Zenon, <1>2, <1>3 DEF Moved
  <2>3. FreesOf(c)'
    BY Zenon, <1>1, <1>2, <2>2 DEF FreesOf, DSteps, Off
  <2> QED
    BY ZenonT(60), <1>1, <2>1, <2>3, Frees DEF FInv
<1>4. CASE where' = where /\ pc'[c] = "close"
  <2>1. FreesOf(c)'
    BY ZenonT(60), <1>1, <1>2, <1>4 DEF FreesOf, DSteps
  <2> QED
    BY ZenonT(60), <1>1, <1>4, <2>1, StillFrees DEF FInv, Settles
<1> QED
  BY ZenonT(60), <1>3, <1>4 DEF RAside, Leave, Goto, IInv, Shape

\* rename() again: the source takes the name, the target stays aside.
LEMMA RRetryFrees ==
  ASSUME IInv, FInv, NEW c \in Callers, RRetry(c)
  PROVE  FInv'
<1>1. /\ KeepsCalls({c}) /\ pc[c] = "r_retry" /\ excused \subseteq excused'
      /\ UNCHANGED <<kind, volume, pending, haveData, h, h2, opt>>
  BY ZenonT(60) DEF IInv, Shape, FInv, RRetry, KeepsCalls, Goto, Result, args, StillDisk, disk
<1>2. h[c] \in Objects /\ h2[c] \in Objects /\ FreesOf(c)
  BY ZenonT(60), <1>1 DEF IInv, FInv, HandlesOf, Busy, RSteps
<1>3. CASE /\ CanMove(h[c]) /\ where' = Moved(h[c], newname[c]) /\ pc'[c] = "r_mark"
           /\ excused' = excused \cup Contested(c, h[c])
  <2>1. Drift({c}) /\ OneEach'
    BY Zenon, <1>2, <1>3, MovedDrift DEF FInv, CanMove
  <2>2. h2[c] # h[c] => where'[h2[c]] \in {where[h2[c]], "gone"}
    BY Zenon, <1>2, <1>3 DEF Moved
  <2>3. FreesOf(c)'
    BY Zenon, <1>1, <1>2, <1>3, <2>2 DEF FreesOf, DSteps, Off
  <2> QED
    BY ZenonT(60), <1>1, <2>1, <2>3, Frees DEF FInv
<1>4. CASE where' = where /\ pc'[c] = "back" /\ res'[c] # "nil"
  <2>1. FreesOf(c)'
    BY Zenon, <1>1, <1>4 DEF FreesOf, DSteps
  <2> QED
    BY ZenonT(60), <1>1, <1>4, <2>1, StillFrees DEF FInv, Settles
<1> QED
  BY ZenonT(60), <1>3, <1>4 DEF RRetry, Goto, Result, IInv, Shape

\* The target, which is off, is marked.
LEMMA RMarkFrees ==
  ASSUME IInv, FInv, NEW c \in Callers, RMark(c)
  PROVE  FInv'
<1>1. /\ KeepsCalls({c}) /\ pc[c] = "r_mark" /\ pc'[c] = "close"
      /\ UNCHANGED <<kind, volume, where, haveData, opt>> /\ excused \subseteq excused'
      /\ pending' \in {pending, pending \cup {h2[c]}}
  BY ZenonT(60) DEF IInv, Shape, FInv, RMark, KeepsCalls, Goto, args, StillDisk, disk
<1>2. opt[c] = "rename" /\ FreesOf(c)
  BY ZenonT(60), <1>1 DEF IInv, FInv, HandlesOf, RSteps
<1>3. FreesOf(c)'
  BY Zenon, <1>1, <1>2 DEF FreesOf, DSteps
<1>4. Drift({c}) /\ OneEach'
  BY Zenon, <1>1, SettlesDrift DEF FInv, Settles
<1>5. \A f \in pending' \ pending : f \notin excused' => Off(f)'
  BY Zenon, <1>1, <1>2 DEF Off, FreesOf
<1> QED
  BY ZenonT(60), <1>1, <1>3, <1>4, <1>5, Frees DEF FInv

\* A call begins, the walk goes from one call to the next, or a caller crashes.
LEMMA BetweenFrees ==
  ASSUME IInv, FInv, NEW c \in Callers, KeepsCalls({c}), Settles, pc'[c] \in Unbound,
         UNCHANGED <<kind, volume, pending, haveData>>, excused \subseteq excused'
  PROVE  FInv'
<1>1. FreesOf(c)'
  BY Zenon DEF FreesOf, Unbound, DSteps
<1> QED
  BY Zenon, <1>1, StillFrees DEF FInv

\* A call begins, or a caller crashes.
LEMMA BeginFrees ==
  ASSUME IInv, FInv, NEW c \in Callers, Deletes(c) \/ Renames(c) \/ RemoveAllCall(c) \/ Crash(c)
  PROVE  FInv'
<1>1. /\ KeepsCalls({c}) /\ pc'[c] \in Unbound /\ excused \subseteq excused'
      /\ UNCHANGED <<kind, volume, pending, haveData>>
  <2> USE DEF IInv, Shape, FInv, KeepsCalls, Goto, args, disk, Unbound
  <2>1. CASE Deletes(c)
    BY ZenonT(60), <2>1 DEF Deletes, CallDelete, Begins
  <2>2. CASE Renames(c)
    BY ZenonT(60), <2>2 DEF Renames, Begins
  <2>3. CASE RemoveAllCall(c)
    BY ZenonT(60), <2>3 DEF RemoveAllCall, CallDelete, Begins
  <2>4. CASE Crash(c)
    BY ZenonT(60), <2>4 DEF Crash
  <2> QED
    BY ZenonT(60), <2>1, <2>2, <2>3, <2>4
<1>2. Settles
  <2>1. CASE Crash(c)
    BY ZenonT(60), <2>1, SettleSettles DEF Crash, IInv
  <2>2. CASE Deletes(c) \/ Renames(c) \/ RemoveAllCall(c)
    BY ZenonT(60), <2>2 DEF Deletes, Renames, RemoveAllCall, Begins, Settles
  <2> QED
    BY Zenon, <2>1, <2>2
<1> QED
  BY ZenonT(60), <1>1, <1>2, BetweenFrees

\* removeAllFrom between its calls of Deleteat.
LEMMA WalkFrees ==
  ASSUME IInv, FInv, NEW c \in Callers, Walk(c)
  PROVE  FInv'
<1> USE DEF IInv, Shape, FInv, KeepsCalls, Returns, CallDelete, Forget, Goto, Result, args, disk,
            Unbound, walkVars
<1>1. CASE First(c) \/ OpenDir(c)
  <2>1. /\ KeepsCalls({c}) /\ pc'[c] \in Unbound /\ excused \subseteq excused'
        /\ UNCHANGED <<kind, volume, pending, haveData>> /\ Settles
    BY ZenonT(60), <1>1 DEF First, OpenDir, Quiet, Settles
  <2> QED
    BY ZenonT(60), <2>1, BetweenFrees
<1>2. CASE Child(c) \/ Sub(c) \/ Gone(c)
  <2>1. UNCHANGED <<kind, volume, where, pending, h, h2, haveData, excused>> /\ res' = res
    BY ZenonT(60), <1>2 DEF Child, Sub, Gone, EntryFails, Quiet
  <2>2. KeepsCalls({c}) /\ pc'[c] \in Unbound
    <3>1. CASE Goto(c, "w_next") /\ UNCHANGED args
      BY ZenonT(60), <2>1, <3>1
    <3>2. CASE Goto(c, "w_sub") /\ UNCHANGED args
      BY ZenonT(60), <2>1, <3>2
    <3>3. CASE CallDelete(c, name[c], "dir", "w_gone")
      BY ZenonT(60), <2>1, <3>3
    <3> QED
      BY ZenonT(60), <1>2, <3>1, <3>2, <3>3 DEF Child, Sub, Gone, EntryFails
  <2> QED
    BY Zenon, <2>1, <2>2, BetweenFrees DEF Settles
<1>3. CASE RmDir(c) \/ Last(c)
  <2>1. /\ KeepsCalls({c}) /\ pc'[c] \in Unbound /\ excused \subseteq excused'
        /\ UNCHANGED <<kind, volume, pending, haveData>> /\ Settles
    BY ZenonT(60), <1>3 DEF RmDir, Last, Quiet, Settles
  <2> QED
    BY Zenon, <2>1, BetweenFrees
<1>4. CASE Read(c)
  <2>1. /\ KeepsCalls({c}) /\ pc'[c] \in Unbound /\ excused \subseteq excused'
        /\ UNCHANGED <<kind, volume, pending, haveData>>
    <3>1. UNCHANGED <<kind, volume, pending, h, h2, haveData, excused>>
      BY Zenon, <1>4 DEF Read, Page, ListingFails, CloseListing, disk
    <3>2. PICK l \in Unbound : pc' = [pc EXCEPT ![c] = l]
      BY Zenon, <1>4 DEF Read, Page, ListingFails, Returns, Goto, Unbound
    <3>3. \A b \in Callers \ {c} : pc'[b] = pc[b]
      BY Zenon, <3>2 DEF IInv, Shape
    <3>4. \A b \in Callers \ {c} : /\ name'[b] = name[b] /\ newname'[b] = newname[b]
                                  /\ opt'[b] = opt[b] /\ res'[b] = res[b]
      <4>1. UNCHANGED <<name, newname, opt, res>> \/ Forget(c)
        BY Zenon, <1>4 DEF Read, Page, ListingFails, Returns, args
      <4> QED
        BY ZenonT(60), <4>1 DEF IInv, Shape, Forget, Result
    <3>5. pc'[c] \in Unbound
      BY Zenon, <3>2 DEF IInv, Shape
    <3> QED
      BY Zenon, <3>1, <3>3, <3>4, <3>5 DEF KeepsCalls
  <2>2. Settles
    <3>1. CASE Page(c)
      BY ZenonT(60), <3>1 DEF Page, Settles
    <3>2. CASE ListingFails(c)
      BY ZenonT(60), <3>2, SettleSettles DEF ListingFails, CloseListing
    <3> QED
      BY ZenonT(60), <1>4, <3>1, <3>2 DEF Read
  <2> QED
    BY Zenon, <2>1, <2>2, BetweenFrees
<1>5. CASE NextName(c)
  <2>1. /\ KeepsCalls({c}) /\ pc'[c] \in Unbound /\ excused \subseteq excused'
        /\ UNCHANGED <<kind, volume, pending, haveData>>
    BY ZenonT(60), <1>5 DEF NextName, PageEnd, CloseListing
  <2>2. Settles
    <3>1. CASE CloseListing(c)
      BY ZenonT(60), <3>1, SettleSettles DEF CloseListing
    <3>2. CASE where' = where
      BY ZenonT(60), <3>2 DEF Settles
    <3> QED
      BY Zenon, <1>5, <3>1, <3>2 DEF NextName, PageEnd
  <2> QED
    BY Zenon, <2>1, <2>2, BetweenFrees
<1> QED
  BY ZenonT(60), <1>1, <1>2, <1>3, <1>4, <1>5 DEF Walk

\* A step of another program keeps the invariant: a file that is created was
\* nobody's, a file that is moved is off.
LEMMA OtherProgramsFrees ==
  ASSUME IInv, FInv, NEW f \in Objects,
         OtherOpens(f) \/ OtherDenies(f) \/ OtherCloses(f) \/ OtherCreates(f) \/ OtherMoves(f)
  PROVE  FInv'
<1> USE PlacesAssumption
<1>1. /\ KeepsCalls({}) /\ UNCHANGED <<kind, volume, pending, haveData, excused>>
  BY Zenon DEF KeepsCalls, OtherOpens, OtherDenies, OtherCloses, OtherCreates, OtherMoves, Meddle,
         args, disk
<1>2. ASSUME Drift({}), OneEach' PROVE FInv'
  BY ZenonT(60), <1>1, <1>2, Frees DEF FInv
<1>3. CASE OtherOpens(f) \/ OtherDenies(f) \/ OtherCloses(f)
  <2>1. Settles
    <3>1. CASE OtherCloses(f)
      BY ZenonT(60), <3>1, SettleSettles DEF OtherCloses, IInv
    <3>2. CASE OtherOpens(f) \/ OtherDenies(f)
      BY Zenon, <3>2 DEF OtherOpens, OtherDenies, Settles
    <3> QED
      BY ZenonT(60), <1>3, <3>1, <3>2
  <2> QED
    BY ZenonT(60), <1>2, <2>1, SettlesDrift DEF FInv
<1>4. CASE OtherMoves(f)
  <2>1. \A x \in Objects : where'[x] \in {where[x], "away"}
    BY ZenonT(60), <1>4 DEF OtherMoves, IInv, Shape
  <2>2. Drift({}) /\ OneEach'
    BY Zenon, <2>1 DEF Drift, OneEach, FInv
  <2> QED
    BY ZenonT(60), <1>2, <2>2
<1>5. CASE OtherCreates(f)
  <2>1. PICK nm \in Names : At(nm) = {} /\ where' = Moved(f, nm)
    BY Zenon, <1>5 DEF OtherCreates
  <2>2. /\ \A x \in Objects \ {f} : where'[x] = where[x] /\ where[x] # nm
        /\ where'[f] = nm /\ where[f] = "unborn"
    BY ZenonT(60), <1>5, <2>1 DEF Moved, At, OtherCreates
  <2>3. Drift({}) /\ OneEach'
    BY Zenon, <2>2 DEF Drift, OneEach, FInv
  <2> QED
    BY Zenon, <1>2, <2>3
<1> QED
  BY ZenonT(60), <1>3, <1>4, <1>5

\* Before the first call.
LEMMA InitFrees == Init => FInv
<1> SUFFICES ASSUME Init PROVE FInv
  BY Zenon
<1> USE PlacesAssumption
<1>1. haveData \in [Callers -> BOOLEAN] /\ MarkedOff
  BY Zenon DEF Init, AtInit, MarkedOff
<1>2. \A c \in Callers : FreesOf(c)
  BY Zenon DEF Init, AtInit, FreesOf, DSteps
<1>3. OneEach
  <2>1. PICK d \in Disks : where = [f \in Objects |-> IF f = Base THEN Top ELSE d.where[f]]
    BY Zenon DEF Init, AtInit
  <2> QED
    BY Zenon, <2>1, DisksAssumption DEF OneEach, Objects
<1> QED
  BY ZenonT(60), <1>1, <1>2, <1>3 DEF FInv

\* Every step keeps a deleted file's name free.
LEMMA NextFrees ==
  ASSUME IInv, FInv, [Next]_vars
  PROVE  FInv'
<1>1. CASE UNCHANGED vars
  BY ZenonT(60), <1>1 DEF FInv, OneEach, MarkedOff, FreesOf, Off, vars, atVars, disk, args, holds
<1>2. ASSUME NEW c \in Callers, AtStep(c)
      PROVE  FInv'
  BY ZenonT(60), <1>2, DOpenFrees, DExFrees, DInfoFrees, DAsideFrees, DMarkFrees, BackFrees, CloseFrees,
     ROpenFrees, RenameFrees, RTargetFrees, RInfoFrees, RAsideFrees, RRetryFrees, RMarkFrees
     DEF AtStep
<1>3. CASE Others
  BY Zenon, <1>3, OtherProgramsFrees, BeginFrees DEF Others, Objects
<1> QED
  BY ZenonT(60), <1>1, <1>2, <1>3, WalkFrees, BeginFrees DEF Next, Step

\* The name of a file Deleteat has deleted is free when it returns.
LEMMA FreesNames == IInv /\ FInv => DeleteFreesName
<1> SUFFICES ASSUME IInv, FInv, NEW c \in Callers, pc[c] = "close", opt[c] # "rename",
                    res[c] = "nil", volume # "posix", kind[h[c]] = "file", h[c] \notin excused
             PROVE  where[h[c]] # name[c] \/ name[c] = h[c]
  BY Zenon DEF DeleteFreesName
<1>1. Off(h[c])
  BY ZenonT(60) DEF FInv, FreesOf, MarkedOff
<1>2. name[c] \notin {"away", "gone"}
  BY ZenonT(60), PlacesAssumption DEF IInv, Shape, Objects, Top
<1> QED
  BY Zenon, <1>1, <1>2 DEF Off

\* The name of a plain file that Deleteat deletes without POSIX semantics is free
\* when it returns, whoever has the file open (deleteatFallback).
THEOREM DeletedNamesFree == Spec => []DeleteFreesName
<1>1. Init => FInv
  BY Zenon, InitFrees
<1>2. IInv /\ FInv /\ [Next]_vars => FInv'
  BY Zenon, NextFrees
<1>3. IInv /\ FInv => DeleteFreesName
  BY Zenon, FreesNames
<1> QED
  BY <1>1, <1>2, <1>3, Invariance, PTL DEF Spec
=============================================================================
