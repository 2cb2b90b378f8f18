--------------------------- MODULE RemoveAllHeld ---------------------------
(***************************************************************************)
(* A RemoveAll fails only for a reason.  The invariant of a call that runs *)
(* alone, with no failing call and no file held in a way that blocks it,   *)
(* accounts for every file of the directory; every step keeps it.          *)
(***************************************************************************)
EXTENDS RemoveAllProofs, FiniteSetTheorems

----------------------------------------------------------------------------
(* A RemoveAll that nothing troubles.                                      *)

InCall == DSteps \cup {"d_open", "close"}
InLoop(c) ==
  \/ pc[c] \in {"w_next", "w_child", "w_sub", "w_gone"}
  \/ pc[c] \in InCall /\ ret[c] \in {"w_child", "w_gone"}

\* The four calls of Deleteat.
ArgsOf(c) ==
  /\ pc[c] \in InCall => ret[c] \in {"w_first", "w_child", "w_gone", "w_last"}
  /\ pc[c] \in {"w_first", "w_child", "w_gone", "w_last"} => ret[c] = pc[c]
  /\ pc[c] = "w_sub" => ret[c] = "w_child"
  /\ ret[c] = "w_first" => opt[c] = "file" /\ name[c] = Top
  /\ ret[c] = "w_child" => opt[c] = "file" /\ name[c] \in Names
  /\ ret[c] = "w_gone" => opt[c] = "dir" /\ name[c] \in Names
  /\ ret[c] = "w_last" => opt[c] = "dir" /\ name[c] = Top

\* Deleteat holds the one file at its name, and may delete it.
DeleteOf(c) ==
  /\ pc[c] \in DSteps =>
       /\ haveData[c] /\ h[c] \notin pending /\ At(name[c]) \subseteq {h[c]}
       /\ opt[c] = "file" <=> kind[h[c]] = "file"
       /\ where[h[c]] = IF pc[c] = "d_mark" /\ kind[h[c]] = "file" THEN h[c] ELSE name[c]
  /\ pc[c] = "d_clear" => h2[c] = h[c]
  /\ pc[c] # "d_clear" => h2[c] = NoFile
  /\ pc[c] \in {"d_aside", "d_mark"} => h[c] \notin readonly
  /\ pc[c] \notin DSteps \cup {"close"} => h[c] = NoFile

\* What Deleteat has done when it returns.
DoneOf(c) ==
  /\ pc[c] = "close" => (h[c] = NoFile <=> res[c] # "nil")
  /\ pc[c] = "close" /\ res[c] = "nil" =>
       /\ At(name[c]) \subseteq {h[c]} /\ h[c] \in pending
       /\ volume = "staged" /\ kind[h[c]] = "file" => where[h[c]] \notin Names
  /\ pc[c] \in {"close", "w_child", "w_gone"} /\ res[c] = "notexist" => At(name[c]) = {}
  /\ pc[c] \in {"w_child", "w_gone"} /\ res[c] = "nil" => At(name[c]) = {}

\* What it answers: it fails only on Base, when asked not to remove a directory,
\* and on an entry that is no file.
VerdictOf(c) ==
  /\ ret[c] = "w_first" /\ pc[c] \in {"close", "w_first"} => res[c] = "isdir"
  /\ ret[c] = "w_first" => pc[c] \notin DSteps
  /\ ret[c] = "w_child" /\ pc[c] \in {"close", "w_child"} => res[c] # "err"
  /\ \/ ret[c] = "w_child" /\ pc[c] \in {"close", "w_child"} /\ res[c] = "isdir"
     \/ pc[c] = "w_sub"
     \/ ret[c] = "w_gone" /\ pc[c] = "d_open"
     => \A f \in At(name[c]) : kind[f] # "file"
  /\ ret[c] = "w_gone" /\ pc[c] \in {"close", "w_gone"} => res[c] \in {"nil", "notexist"}
  /\ ret[c] = "w_last" /\ pc[c] \in {"close", "w_last"} => res[c] = "nil"

\* Base is there until the last call marks it.
KeptOf(c) ==
  \/ pc[c] = "idle" \/ (ret[c] = "w_last" /\ pc[c] \in {"close", "w_last"})
  \/ Base \notin pending /\ where[Base] = Top

\* Entries that are listed are removed, or will be; a short page is the last;
\* nothing is left in Base when it is removed.
PageOf(c) ==
  /\ \A f \in Inside : f \in pending => pc[c] = "close" /\ f = h[c]
  /\ pc[c] = "w_read" => listed[c] = {}
  /\ InLoop(c) =>
       /\ numErr[c] = 0 /\ todo[c] \subseteq Names
       /\ \A f \in Inside : \/ f = h[c] \/ where[f] \notin listed[c] \/ where[f] \in todo[c]
                            \/ pc[c] # "w_next" /\ where[f] = name[c]
       /\ respSize[c] < ReqSize => \A f \in Inside : f = h[c] \/ where[f] \in listed[c]
  /\ pc[c] = "w_rmdir" \/ (ret[c] = "w_last" /\ pc[c] \in DSteps \cup {"d_open"}) => Inside = {}

CalmOf(c) ==
  /\ pc[c] \in InCall \cup Between /\ answer[c] # "err"
  /\ ArgsOf(c) /\ DeleteOf(c) /\ DoneOf(c) /\ VerdictOf(c) /\ KeptOf(c) /\ PageOf(c)

Fresh(c) == pc[c] = "idle" /\ h[c] = NoFile /\ h2[c] = NoFile /\ answer[c] = "none"

\* One call of one caller, and nothing of what trouble records.
Calm ==
  /\ denied = {} /\ excused = {} /\ volume \in {"posix", "staged", "unstaged"}
  /\ \A f \in shared : ~Blocks(f, kind[f], volume)
  /\ \A b, c \in Callers : calls[b] > 0 /\ calls[c] > 0 => b = c
  /\ (\A c \in Callers : calls[c] = 0) => pending = {} /\ where[Base] = Top
  /\ \A c \in Callers : calls[c] = 0 => Fresh(c)
  /\ \A c \in Callers : calls[c] > 0 => CalmOf(c)

Counts ==
  /\ calls \in [Callers -> Nat] /\ listed \in [Callers -> SUBSET (Names \cup Files)]
  /\ respSize \in [Callers -> Nat] /\ numErr \in [Callers -> Nat]

QInv == Counts /\ (~trouble => Calm)

\* The entries can be counted, as they can when they are finitely many.
Listable ==
  \A page \in SUBSET EntryNames :
    Cardinality(page) \in Nat /\ (Cardinality(page) = Cardinality(EntryNames) => page = EntryNames)

----------------------------------------------------------------------------
(* What the steps have in common.                                          *)

\* Closing a handle lets go of marked files only.
LEMMA MarkedGo ==
  ASSUME NEW X, Settle(X), pending' = pending, Shape
  PROVE  Settles
BY Zenon DEF Settle, Settles, Shape

\* The steps of the call under way leave the others, which have not begun.
LEMMA CalmStep ==
  ASSUME Counts, Calm, NEW c \in Callers, calls[c] > 0, calls' = calls,
         UNCHANGED <<kind, volume, shared, denied, excused>>, readonly' \subseteq readonly,
         \A b \in Callers \ {c} :
           pc'[b] = pc[b] /\ h'[b] = h[b] /\ h2'[b] = h2[b] /\ answer'[b] = answer[b],
         CalmOf(c)'
  PROVE  Calm'
<1>1. \A b \in Callers \ {c} : Fresh(b)' /\ calls[b] = 0
  <2>1. \A b \in Callers \ {c} : calls[b] = 0
    BY DEF Calm, Counts
  <2> QED
    BY Zenon, <2>1 DEF Calm, Fresh
<1> QED
  BY <1>1 DEF Calm

\* Only the call under way holds files.
LEMMA Alone ==
  ASSUME Counts, Calm, NEW c \in Callers, pc[c] # "idle"
  PROVE  /\ calls[c] > 0 /\ CalmOf(c)
         /\ \A b \in Callers \ {c} : h[b] = NoFile /\ h2[b] = NoFile
<1>1. calls[c] > 0
  BY DEF Calm, Counts, Fresh
<1>2. \A b \in Callers \ {c} : calls[b] = 0
  BY <1>1 DEF Calm, Counts
<1> QED
  BY Zenon, <1>1, <1>2 DEF Calm, Fresh

\* Files that settle leave their names and Base.
LEMMA SettlesInside ==
  ASSUME IInv, Settles, volume' = volume
  PROVE  /\ \A f \in Inside' : f \in Inside /\ where'[f] = where[f]
         /\ \A nm \in Names \cup {Top} : At(nm)' \subseteq At(nm)
<1> USE PlacesAssumption
<1>1. \A f \in Inside' : f \in Inside /\ where'[f] = where[f]
  BY Zenon DEF Settles, Inside, Objects
<1>2. \A nm \in Names \cup {Top} : At(nm)' \subseteq At(nm)
  BY Zenon DEF Settles, At, Top
<1> QED
  BY Zenon, <1>1, <1>2

\* What is at the name of a call, and what Deleteat may do with it.
LEMMA FoundCalm ==
  ASSUME IInv, FInv, NEW c \in Callers, Calm, CalmOf(c), pc[c] = "d_open",
         NEW f \in At(name[c])
  PROVE  /\ f \notin pending /\ Opens(f) /\ At(name[c]) = {f}
         /\ name[c] = Top => f = Base
<1> USE PlacesAssumption
<1>1. ret[c] \in {"w_first", "w_child", "w_gone", "w_last"} /\ name[c] \in Names \cup {Top}
  BY Zenon DEF CalmOf, ArgsOf, InCall
<1>2. CASE name[c] = Top
  <2>1. At(Top) \subseteq {Base} /\ Base \notin pending
    BY Zenon DEF IInv, BaseStays, At, Objects, CalmOf, KeptOf
  <2> QED
    BY Zenon, <1>2, <2>1 DEF Calm, Opens
<1>3. CASE name[c] \in Names
  <2>1. f \in Inside
    BY Zenon, <1>3 DEF IInv, BaseStays, At, Objects, Inside, Top
  <2>2. f \notin pending
    BY Zenon, <2>1 DEF CalmOf, PageOf
  <2>3. At(name[c]) = {f}
    BY Zenon, <1>3 DEF FInv, OneEach, At
  <2> QED
    BY ZenonT(60), <1>3, <2>2, <2>3 DEF Calm, Opens, Top
<1> QED
  BY Zenon, <1>1, <1>2, <1>3

\* A step of Deleteat on one entry leaves the others listed, or still to be.
LEMMA PageStays ==
  ASSUME NEW c \in Callers, PageOf(c), pc[c] \in InCall \ {"close"}, pc'[c] \in InCall \ {"d_open"},
         ret'[c] = ret[c], name'[c] = name[c],
         UNCHANGED <<listed, todo, respSize, numErr>>,
         \A f \in Inside' \ {h'[c]} : f \in Inside /\ where'[f] = where[f] /\ f # h[c],
         pending' \subseteq pending \cup {h'[c]}, pc'[c] # "close" => pending' = pending,
         pc'[c] # "close" => h'[c] \notin pending,
         ret[c] = "w_last" => h'[c] \notin Files
  PROVE  PageOf(c)'
<1>1. \A f \in Inside' : f \in pending' => pc'[c] = "close" /\ f = h'[c]
  BY Zenon DEF PageOf
<1>2. ret[c] = "w_last" /\ pc'[c] # "close" => Inside' = {}
  BY ZenonT(60) DEF PageOf, InCall, Inside
<1>3. pc'[c] \notin {"w_next", "w_read", "w_rmdir", "w_child", "w_sub", "w_gone"} /\ pc[c] # "w_next"
  BY Zenon DEF InCall, DSteps
<1>4. InLoop(c)' => InLoop(c)
  BY Zenon, <1>3 DEF InLoop
<1>5. InLoop(c)' => \A f \in Inside' : f = h'[c] \/ where'[f] \notin listed'[c]
                                       \/ where'[f] \in todo'[c] \/ where'[f] = name'[c]
  BY Zenon, <1>4 DEF PageOf
<1>6. InLoop(c)' /\ respSize'[c] < ReqSize => \A f \in Inside' : f = h'[c] \/ where'[f] \in listed'[c]
  BY Zenon, <1>4 DEF PageOf
<1> QED
  BY Zenon, <1>1, <1>2, <1>3, <1>4, <1>5, <1>6 DEF PageOf, DSteps

\* The open finds the entry, or that the name is free or a directory's.
LEMMA DOpenCalm ==
  ASSUME IInv, FInv, Counts, Calm, NEW c \in Callers, DOpen(c), UNCHANGED walkVars, ~trouble'
  PROVE  Calm'
<1>1. pc[c] = "d_open" /\ calls[c] > 0 /\ CalmOf(c)
  BY Zenon, Alone DEF DOpen
<1>2. /\ UNCHANGED <<kind, volume, shared, denied, calls, where, pending, readonly, ret, name, opt,
                     h2, answer, listed, todo, respSize, numErr>>
      /\ Inside' = Inside /\ \A nm : At(nm)' = At(nm)
  BY ZenonT(60) DEF DOpen, StillDisk, args, disk, holds, walkVars, Inside, At
<1>3. \A b \in Callers \ {c} : pc'[b] = pc[b] /\ h'[b] = h[b]
  BY Zenon DEF IInv, Shape, DOpen, Leave, Goto, Opened
<1>4. PICK r : r = ret[c] /\ r \in {"w_first", "w_child", "w_gone", "w_last"}
  BY Zenon, <1>1 DEF CalmOf, ArgsOf, InCall
<1>5. h[c] = NoFile /\ h2[c] = NoFile /\ h[c] \notin Inside
  BY Zenon, <1>1, PlacesAssumption DEF CalmOf, DeleteOf, DSteps, Inside, Objects
<1>6. CASE /\ pc'[c] = "close" /\ h' = h /\ excused' = excused
           /\ \/ res'[c] = "notexist" /\ r \in {"w_child", "w_gone"} /\ At(name[c]) = {}
              \/ /\ res'[c] = "isdir" /\ r \in {"w_first", "w_child"}
                 /\ \A f \in At(name[c]) : kind[f] # "file"
  <2>1. ArgsOf(c)' /\ DeleteOf(c)' /\ DoneOf(c)'
    BY Zenon, <1>1, <1>2, <1>4, <1>5, <1>6 DEF CalmOf, ArgsOf, DeleteOf, DoneOf, DSteps, InCall
  <2>2. VerdictOf(c)' /\ KeptOf(c)'
    BY Zenon, <1>1, <1>2, <1>4, <1>6 DEF CalmOf, VerdictOf, KeptOf, DSteps
  <2>3. PageOf(c)'
    BY Zenon, <1>1, <1>2, <1>4, <1>5, <1>6, PlacesAssumption, PageStays DEF CalmOf, InCall, Objects
  <2>4. CalmOf(c)'
    BY Zenon, <1>1, <1>2, <1>6, <2>1, <2>2, <2>3 DEF CalmOf, InCall
  <2> QED
    BY Zenon, <1>1, <1>2, <1>3, <1>6, <2>4, CalmStep
<1>7. ASSUME NEW f \in At(name[c]), opt[c] = "file" => kind[f] = "file",
             opt[c] = "dir" => kind[f] # "file",
             pc'[c] = "d_ex", h' = [h EXCEPT ![c] = f], haveData'[c], excused' = excused
      PROVE  Calm'
  <2>1. /\ f \notin pending /\ At(name[c]) = {f} /\ where[f] = name[c] /\ f \in Objects
        /\ name[c] = Top => f = Base
    BY Zenon, <1>1, FoundCalm DEF At
  <2>2. h'[c] = f /\ r # "w_first"
    BY Zenon, <1>1, <1>4, <1>7, <2>1 DEF IInv, Shape, BaseStays, CalmOf, ArgsOf
  <2>3. ArgsOf(c)' /\ DeleteOf(c)' /\ DoneOf(c)'
    <3>1. ArgsOf(c)'
      BY ZenonT(60), <1>1, <1>2, <1>4, <1>7 DEF CalmOf, ArgsOf, DSteps, InCall
    <3>2. DeleteOf(c)'
      <4>1. (opt[c] = "file" /\ kind[f] = "file") \/ (opt[c] = "dir" /\ kind[f] # "file")
        BY Zenon, <1>1, <1>4, <1>7 DEF CalmOf, ArgsOf
      <4>2. opt[c] = "file" <=> kind[f] = "file"
        BY Zenon, <4>1
      <4>3. /\ pc'[c] = "d_ex" /\ h'[c] = f /\ h2'[c] = NoFile /\ haveData'[c] /\ f \notin pending'
            /\ where'[f] = name'[c] /\ At(name[c])' = {f} /\ name'[c] = name[c]
            /\ opt'[c] = "file" <=> kind'[f] = "file"
        BY Zenon, <1>2, <1>5, <1>7, <2>1, <2>2, <4>2
      <4>4. At(name[c])' \subseteq {h'[c]}
        BY Zenon, <4>3
      <4> QED
        BY Zenon, <4>3, <4>4 DEF DeleteOf, DSteps
    <3>3. DoneOf(c)'
      BY ZenonT(60), <1>2, <1>7 DEF DoneOf
    <3> QED
      BY Zenon, <3>1, <3>2, <3>3
  <2>4. VerdictOf(c)' /\ KeptOf(c)'
    BY ZenonT(60), <1>1, <1>2, <1>4, <1>7, <2>2 DEF CalmOf, VerdictOf, KeptOf, DSteps
  <2>7. r = "w_last" => f \notin Files
    BY Zenon, <1>1, <1>4, <2>1, PlacesAssumption DEF CalmOf, ArgsOf
  <2>5. PageOf(c)'
    BY ZenonT(60), <1>1, <1>2, <1>4, <1>5, <1>7, <2>1, <2>2, <2>7, PageStays DEF CalmOf, InCall, DSteps
  <2>6. CalmOf(c)'
    BY Zenon, <1>1, <1>2, <1>7, <2>3, <2>4, <2>5 DEF CalmOf, InCall, DSteps
  <2> QED
    BY Zenon, <1>1, <1>2, <1>3, <1>7, <2>6, CalmStep
<1> QED
  <2>1. CASE At(name[c]) = {} /\ Leave(c, "notexist") /\ UNCHANGED <<h, excused>>
    <3>1. name[c] # Top
      BY ZenonT(60), <1>1, <2>1 DEF CalmOf, KeptOf, At, Objects
    <3> QED
      BY ZenonT(60), <1>1, <1>4, <1>6, <2>1, <3>1 DEF IInv, Shape, Leave, Goto, Result, CalmOf, ArgsOf
  <2>2. ASSUME NEW f \in At(name[c]), opt[c] = "file", kind[f] # "file", Leave(c, "isdir"),
               UNCHANGED <<h, excused>>
        PROVE  Calm'
    <3>1. At(name[c]) = {f}
      BY Zenon, <1>1, FoundCalm
    <3> QED
      BY ZenonT(60), <1>1, <1>4, <1>6, <2>2, <3>1 DEF IInv, Shape, Leave, Goto, Result, CalmOf, ArgsOf
  <2>3. ASSUME NEW f \in At(name[c])
        PROVE  Opens(f) /\ ~(opt[c] = "dir" /\ kind[f] = "file")
    BY Zenon, <1>1, <1>4, FoundCalm DEF CalmOf, ArgsOf, VerdictOf, IInv, BaseStays
  <2>4. ~Fault
    BY Zenon DEF Fault
  <2>5. ASSUME NEW f \in At(name[c]), Opened(c, f)
        PROVE  h' = [h EXCEPT ![c] = f] /\ haveData'[c] /\ excused' = excused
    <3>1. haveData' = [haveData EXCEPT ![c] = TRUE] /\ excused' = excused
      BY Zenon, <2>4, <2>5 DEF Opened
    <3>2. haveData'[c] = TRUE
      BY Zenon, <3>1 DEF FInv
    <3> QED
      BY Zenon, <2>5, <3>1, <3>2 DEF Opened
  <2> QED
    BY ZenonT(60), <1>7, <2>1, <2>2, <2>3, <2>4, <2>5 DEF DOpen, Goto, IInv, Shape

\* Deleteat goes on with the file it has.
LEMMA GoesCalm ==
  ASSUME IInv, Counts, Calm, NEW c \in Callers, pc[c] \in DSteps, pc'[c] \in DSteps,
         UNCHANGED <<kind, volume, shared, denied, excused, pending, calls, ret, name, opt, h, answer,
                     listed, todo, respSize, numErr>>,
         \A b \in Callers \ {c} : pc'[b] = pc[b] /\ h2'[b] = h2[b],
         readonly' \subseteq readonly, DeleteOf(c)', where'[Base] = where[Base],
         \A f \in Inside' \ {h[c]} : f \in Inside /\ where'[f] = where[f]
  PROVE  Calm'
<1>1. calls[c] > 0 /\ CalmOf(c)
  BY Zenon, Alone DEF DSteps
<1>2. pc[c] \in InCall \ {"d_open", "close"} /\ pc'[c] \in InCall \ {"d_open", "close"}
  BY Zenon DEF InCall, DSteps
<1>3. ArgsOf(c)' /\ DoneOf(c)'
  BY Zenon, <1>1, <1>2 DEF CalmOf, ArgsOf, DoneOf, DSteps
<1>4. VerdictOf(c)' /\ KeptOf(c)'
  BY Zenon, <1>1, <1>2 DEF CalmOf, VerdictOf, KeptOf, DSteps
<1>5. h[c] \notin pending
  BY Zenon, <1>1 DEF CalmOf, DeleteOf
<1>6. ret[c] = "w_last" => h[c] \notin Files
  BY Zenon, <1>1, <1>2 DEF CalmOf, ArgsOf, DeleteOf, IInv, BaseStays, DSteps
<1>7. PageOf(c)'
  BY ZenonT(60), <1>1, <1>2, <1>5, <1>6, PageStays DEF CalmOf
<1>8. CalmOf(c)'
  BY Zenon, <1>1, <1>2, <1>3, <1>4, <1>7 DEF CalmOf
<1> QED
  BY Zenon, <1>1, <1>8, CalmStep

\* The file can be marked: if it is Base, nothing is in it any more.
LEMMA EmptyCalm ==
  ASSUME IInv, NEW c \in Callers, CalmOf(c), pc[c] \in DSteps
  PROVE  /\ Empty(h[c])
         /\ h[c] = Base => ret[c] = "w_last"
         /\ ret[c] = "w_last" => h[c] \notin Files
<1> USE PlacesAssumption
<1>1. pc[c] \in InCall /\ ret[c] # "w_first"
  BY Zenon DEF CalmOf, VerdictOf, InCall
<1>2. h[c] = Base => where[h[c]] = name[c] /\ name[c] = Top
  BY Zenon, <1>1 DEF CalmOf, ArgsOf, DeleteOf, IInv, BaseStays, Objects, Top
<1>3. h[c] = Base => ret[c] = "w_last"
  BY Zenon, <1>1, <1>2 DEF CalmOf, ArgsOf, Top
<1>4. ret[c] = "w_last" => h[c] \notin Files
  BY Zenon, <1>1 DEF CalmOf, ArgsOf, DeleteOf, IInv, BaseStays
<1> QED
  BY Zenon, <1>3, <1>4 DEF Empty, CalmOf, PageOf

\* It is marked, and Deleteat returns nil.
LEMMA MarksCalm ==
  ASSUME IInv, Counts, Calm, NEW c \in Callers, pc[c] \in DSteps,
         pending' = pending \cup {h[c]}, Leave(c, "nil"), h2[c] = NoFile,
         UNCHANGED <<kind, volume, shared, denied, excused, calls, ret, name, opt, h, h2, answer,
                     where, readonly, listed, todo, respSize, numErr>>,
         volume = "staged" /\ kind[h[c]] = "file" => where[h[c]] \notin Names
  PROVE  Calm'
<1>1. calls[c] > 0 /\ CalmOf(c)
  BY Zenon, Alone DEF DSteps
<1>2. /\ pc[c] \in InCall \ {"d_open", "close"} /\ pc'[c] = "close" /\ res'[c] = "nil"
      /\ \A b \in Callers \ {c} : pc'[b] = pc[b]
  BY Zenon DEF InCall, DSteps, Leave, Goto, Result, IInv, Shape
<1>3. /\ h[c] = Base => ret[c] = "w_last"
      /\ ret[c] = "w_last" => h[c] \notin Files
  BY ZenonT(60), <1>1, EmptyCalm
<1>4. h[c] # NoFile /\ Inside' = Inside
  BY ZenonT(60), PlacesAssumption DEF IInv, HandlesOf, Busy, Inside
<1>5. ArgsOf(c)' /\ DeleteOf(c)'
  BY Zenon, <1>1, <1>2 DEF CalmOf, ArgsOf, DeleteOf, DSteps
<1>6. DoneOf(c)'
  BY Zenon, <1>1, <1>2, <1>4 DEF CalmOf, DeleteOf, DoneOf, At
<1>7. VerdictOf(c)' /\ KeptOf(c)'
  BY Zenon, <1>1, <1>2, <1>3 DEF CalmOf, VerdictOf, KeptOf, DSteps
<1>8. PageOf(c)'
  BY Zenon, <1>1, <1>2, <1>3, <1>4, PageStays DEF CalmOf, InCall
<1>9. CalmOf(c)'
  BY Zenon, <1>1, <1>2, <1>5, <1>6, <1>7, <1>8 DEF CalmOf, InCall
<1> QED
  BY Zenon, <1>1, <1>2, <1>9, CalmStep

\* FileDispositionInformationEx.
LEMMA DExCalm ==
  ASSUME IInv, Counts, Calm, NEW c \in Callers, DEx(c), UNCHANGED walkVars, ~trouble'
  PROVE  Calm'
<1>1. pc[c] = "d_ex" /\ CalmOf(c) /\ pc[c] \in DSteps
  BY Zenon, Alone DEF DEx, DSteps
<1>2. UNCHANGED <<kind, volume, shared, denied, excused, calls, ret, name, opt, h, h2, haveData,
                  answer, where, readonly, listed, todo, respSize, numErr>>
  BY Zenon DEF DEx, StillDisk, args, disk, holds, walkVars
<1>3. h2[c] = NoFile
  BY Zenon, <1>1 DEF CalmOf, DeleteOf
<1>4. CASE Goto(c, "d_info") /\ pending' = pending
  <2>1. pc'[c] = "d_info" /\ \A b \in Callers \ {c} : pc'[b] = pc[b]
    BY Zenon, <1>4 DEF Goto, IInv, Shape
  <2>2. DeleteOf(c)' /\ Inside' = Inside
    BY Zenon, <1>1, <1>2, <1>4, <2>1 DEF CalmOf, DeleteOf, DSteps, At, Inside
  <2> QED
    BY Zenon, <1>1, <1>2, <1>4, <2>1, <2>2, GoesCalm DEF DSteps
<1>5. CASE volume = "posix" /\ pending' = pending \cup {h[c]} /\ Leave(c, "nil")
  BY Zenon, <1>1, <1>2, <1>3, <1>5, MarksCalm
<1> QED
  BY Zenon, <1>1, <1>4, <1>5, EmptyCalm DEF DEx, Fault

\* The attribute is looked at, and the entry opened again: it is the same one.
LEMMA DInfoCalm ==
  ASSUME IInv, Counts, Calm, NEW c \in Callers, DInfo(c) \/ DReopen(c), UNCHANGED walkVars, ~trouble'
  PROVE  Calm'
<1>1. pc[c] \in {"d_info", "d_reopen"} /\ CalmOf(c) /\ pc[c] \in DSteps
  BY Zenon, Alone DEF DInfo, DReopen, DSteps
<1>2. /\ UNCHANGED <<kind, volume, shared, denied, excused, pending, calls, ret, name, opt, h, haveData,
                     answer, where, readonly, listed, todo, respSize, numErr>>
      /\ Inside' = Inside
  BY ZenonT(60) DEF DInfo, DReopen, StillDisk, args, disk, holds, walkVars, Inside
<1>3. h[c] \in At(name[c]) /\ At(name[c]) = {h[c]} /\ h[c] \notin pending /\ haveData[c] /\ h2[c] = NoFile
  BY ZenonT(60), <1>1 DEF CalmOf, DeleteOf, At, IInv, HandlesOf, Busy
<1>4. /\ \A b \in Callers \ {c} : pc'[b] = pc[b] /\ h2'[b] = h2[b]
      /\ \/ pc'[c] = "d_reopen" /\ h2'[c] = NoFile
         \/ pc'[c] = "d_clear" /\ h2'[c] = h[c]
         \/ pc'[c] = "d_aside" /\ h2'[c] = NoFile /\ h[c] \notin readonly
  <2>1. CASE DInfo(c)
    BY ZenonT(60), <1>3, <2>1 DEF DInfo, Goto, IInv, Shape
  <2>2. CASE DReopen(c)
    BY ZenonT(60), <1>3, <2>2 DEF DReopen, Goto, Fault, IInv, Shape
  <2> QED
    BY Zenon, <2>1, <2>2
<1>5. DeleteOf(c)'
  BY Zenon, <1>1, <1>2, <1>4 DEF CalmOf, DeleteOf, DSteps, At
<1> QED
  BY Zenon, <1>1, <1>2, <1>4, <1>5, GoesCalm DEF DSteps

\* The attribute is cleared.
LEMMA DClearCalm ==
  ASSUME IInv, Counts, Calm, NEW c \in Callers, DClear(c), UNCHANGED walkVars, ~trouble'
  PROVE  Calm'
<1>1. pc[c] = "d_clear" /\ CalmOf(c) /\ pc[c] \in DSteps
  BY Zenon, Alone DEF DClear, DSteps
<1>2. UNCHANGED <<kind, volume, shared, denied, excused, pending, calls, ret, name, opt, h, haveData,
                  answer, listed, todo, respSize, numErr>>
  BY Zenon DEF DClear, StillDisk, args, disk, holds, walkVars
<1>3. /\ h2' = [h2 EXCEPT ![c] = NoFile] /\ Goto(c, "d_aside") /\ Settles
      /\ readonly' = IF h2[c] = h[c] THEN readonly \ {h[c]} ELSE readonly
  BY Zenon, MarkedGo DEF IInv, DClear, Fault
<1>4. h2[c] = h[c] /\ h[c] \notin pending /\ h[c] \in Objects /\ Base \notin pending
      /\ name[c] \in Names \cup {Top} /\ pc[c] \in InCall
  BY ZenonT(60), <1>1 DEF CalmOf, ArgsOf, DeleteOf, KeptOf, InCall, IInv, HandlesOf, Busy
<1>5. /\ \A b \in Callers \ {c} : pc'[b] = pc[b] /\ h2'[b] = h2[b]
      /\ pc'[c] = "d_aside" /\ h2'[c] = NoFile /\ h[c] \notin readonly'
  BY ZenonT(60), <1>3, <1>4 DEF Goto, IInv, Shape
<1>6. /\ \A f \in Inside' : f \in Inside /\ where'[f] = where[f]
      /\ At(name[c])' \subseteq At(name[c])
  BY Zenon, <1>2, <1>3, <1>4, SettlesInside
<1>7. where'[h[c]] = where[h[c]] /\ where'[Base] = where[Base]
  BY ZenonT(60), <1>3, <1>4 DEF Settles, Objects
<1>8. DeleteOf(c)'
  BY Zenon, <1>1, <1>2, <1>5, <1>6, <1>7 DEF CalmOf, DeleteOf, DSteps
<1>9. readonly' \subseteq readonly
  BY Zenon, <1>3
<1> QED
  BY Zenon, <1>1, <1>2, <1>5, <1>6, <1>7, <1>8, <1>9, GoesCalm DEF DSteps

\* A plain file is moved aside; it can be, since only this call has it.
LEMMA DAsideCalm ==
  ASSUME IInv, Counts, Calm, NEW c \in Callers, DAside(c), UNCHANGED walkVars, ~trouble'
  PROVE  Calm'
<1> USE PlacesAssumption
<1>1. pc[c] = "d_aside" /\ CalmOf(c) /\ pc[c] \in DSteps
  BY ZenonT(60), Alone DEF DAside, DSteps
<1>2. /\ UNCHANGED <<kind, volume, shared, denied, pending, calls, ret, name, opt, h, h2, haveData,
                     answer, readonly, listed, todo, respSize, numErr>>
      /\ pc'[c] = "d_mark" /\ \A b \in Callers \ {c} : pc'[b] = pc[b]
  BY Zenon DEF DAside, StillDisk, args, disk, holds, walkVars, Goto, IInv, Shape
<1>3. /\ haveData[c] /\ h[c] \notin pending /\ h[c] \in Objects /\ where[h[c]] = name[c]
      /\ name[c] \in Names \cup {Top} /\ where[Base] = Top /\ kind[Base] = "dir"
  BY Zenon, <1>1 DEF CalmOf, ArgsOf, DeleteOf, KeptOf, InCall, IInv, HandlesOf, Busy, BaseStays
<1>4. CanMove(h[c])
  BY Zenon, <1>3 DEF CanMove, Top
<1>5. CASE kind[h[c]] = "file" /\ where' = Moved(h[c], h[c]) /\ excused' = excused
  <2>1. /\ where'[h[c]] = h[c]
        /\ \A x \in Objects \ {h[c]} : where'[x] = where[x] \/ where'[x] = "gone"
    BY Zenon, <1>3, <1>5 DEF Moved
  <2>2. where'[Base] = where[Base]
    BY Zenon, <1>3, <1>5 DEF Moved, Objects
  <2>3. \A f \in Inside' \ {h[c]} : f \in Inside /\ where'[f] = where[f]
    BY Zenon, <1>2, <2>1 DEF Inside, Objects
  <2>4. At(name[c])' \subseteq At(name[c]) \cup {h[c]}
    BY ZenonT(60), <1>2, <1>3, <2>1 DEF At, Top
  <2>5. DeleteOf(c)'
    BY ZenonT(60), <1>1, <1>2, <1>5, <2>1, <2>4 DEF CalmOf, DeleteOf, DSteps
  <2> QED
    BY Zenon, <1>1, <1>2, <1>5, <2>2, <2>3, <2>5, GoesCalm DEF DSteps
<1>6. CASE kind[h[c]] # "file" /\ where' = where /\ excused' = excused
  <2>1. DeleteOf(c)' /\ Inside' = Inside
    BY Zenon, <1>1, <1>2, <1>6 DEF CalmOf, DeleteOf, DSteps, At, Inside
  <2> QED
    BY Zenon, <1>1, <1>2, <1>6, <2>1, GoesCalm DEF DSteps
<1> QED
  BY Zenon, <1>3, <1>4, <1>5, <1>6 DEF DAside, Fault

\* setFileDispositionByHandle.
LEMMA DMarkCalm ==
  ASSUME IInv, Counts, Calm, NEW c \in Callers, DMark(c), UNCHANGED walkVars, ~trouble'
  PROVE  Calm'
<1>1. pc[c] = "d_mark" /\ CalmOf(c) /\ pc[c] \in DSteps
  BY Zenon, Alone DEF DMark, DSteps
<1>2. UNCHANGED <<kind, volume, shared, denied, excused, calls, ret, name, opt, h, h2,
                  answer, where, readonly, listed, todo, respSize, numErr>>
  BY ZenonT(60) DEF DMark, StillDisk, args, disk, holds, walkVars
<1>3. h2[c] = NoFile /\ h[c] \notin readonly /\ (kind[h[c]] = "file" => where[h[c]] \notin Names)
  BY ZenonT(60), <1>1, PlacesAssumption DEF CalmOf, DeleteOf, IInv, HandlesOf, Busy
<1>4. Empty(h[c])
  BY Zenon, <1>1, EmptyCalm
<1>5. pending' = pending \cup {h[c]} /\ Leave(c, "nil")
  BY Zenon, <1>3, <1>4 DEF DMark, Fault
<1> QED
  BY ZenonT(60), <1>1, <1>2, <1>3, <1>5, MarksCalm

\* The handle is closed: what was marked has left Base, and its name is free.
LEMMA CloseFreesCalm ==
  ASSUME IInv, Counts, Calm, NEW c \in Callers, Close(c)
  PROVE  /\ \A f \in Inside' : f \notin pending
         /\ res[c] = "nil" /\ name[c] \in Names => At(name[c])' = {}
<1> USE PlacesAssumption
<1>1. pc[c] = "close" /\ CalmOf(c) /\ \A b \in Callers \ {c} : h[b] = NoFile /\ h2[b] = NoFile
  BY ZenonT(60), Alone DEF Close
<1>2. /\ UNCHANGED <<kind, volume, shared, denied, pending>>
      /\ h'[c] = NoFile /\ h2'[c] = NoFile
      /\ \A b \in Callers \ {c} : h'[b] = h[b] /\ h2'[b] = h2[b]
  BY Zenon DEF Close, StillDisk, disk, holds, IInv, Shape
<1>3. name' = name
  BY Zenon, <1>1 DEF CalmOf, ArgsOf, InCall, Close, args
<1>4. Settles /\ Settle(IF volume = "posix" /\ res[c] = "nil" THEN {h[c]} ELSE {})
  BY ZenonT(60), MarkedGo DEF IInv, Close
<1>5. /\ \A f \in Inside' : f \in Inside /\ where'[f] = where[f]
      /\ \A nm \in Names \cup {Top} : At(nm)' \subseteq At(nm)
  BY Zenon, <1>2, <1>4, SettlesInside
<1>6. ASSUME res[c] = "nil", h[c] \in Files
      PROVE  h[c] \notin Inside' /\ where'[h[c]] \notin Names
  <2>1. h[c] \in pending /\ h[c] \in Objects /\ h[c] # Base
        /\ (volume = "staged" /\ kind[h[c]] = "file" => where[h[c]] \notin Names)
    BY Zenon, <1>1, <1>6 DEF CalmOf, DoneOf, Objects
  <2>2. CASE volume = "staged" /\ kind[h[c]] = "file"
    BY Zenon, <1>2, <1>4, <2>1, <2>2 DEF Settles, Inside
  <2>3. CASE volume = "posix"
    <3>1. where'[h[c]] = "gone"
      BY Zenon, <1>2, <1>4, <1>6, <2>1, <2>3 DEF Settle
    <3> QED
      BY Zenon, <3>1 DEF Inside, Objects
  <2>4. CASE volume = "unstaged" \/ (volume = "staged" /\ kind[h[c]] # "file")
    <3>1. h[c] \notin shared' \cup denied'
      BY Zenon, <1>2, <2>1, <2>4 DEF Calm, Blocks
    <3>2. ~(\E b \in Callers : h[c] \in {h'[b], h2'[b]})
      BY Zenon, <1>1, <1>2, <2>1
    <3>3. \A f \in Objects : f = h[c] => ~Open(f)'
      BY Zenon, <2>1, <3>1, <3>2 DEF Open, Held
    <3>4. where'[h[c]] = "gone"
      BY Zenon, <1>2, <1>4, <2>1, <3>3 DEF Settle
    <3> QED
      BY Zenon, <3>4 DEF Inside, Objects
  <2> QED
    BY Zenon, <2>2, <2>3, <2>4 DEF Calm
<1>7. \A f \in Inside' : f \notin pending
  <2> SUFFICES ASSUME NEW f \in Inside', f \in pending PROVE FALSE
    BY Zenon
  <2>1. f \in Inside /\ f = h[c] /\ f \in Files
    BY Zenon, <1>1, <1>5 DEF CalmOf, PageOf, Inside
  <2>2. res[c] = "nil"
    BY ZenonT(60), <1>1, <2>1 DEF CalmOf, DoneOf, Objects
  <2> QED
    BY Zenon, <1>6, <2>1, <2>2
<1>8. ASSUME res[c] = "nil", name[c] \in Names PROVE At(name[c])' = {}
  <2>1. At(name[c])' \subseteq {h[c]}
    BY ZenonT(60), <1>1, <1>5, <1>8, <1>3 DEF CalmOf, DoneOf
  <2>2. h[c] \in Objects \cup {NoFile}
    BY Zenon DEF IInv, Shape
  <2>3. h[c] = Base => where'[h[c]] \notin Names
    BY Zenon, <1>4 DEF IInv, BaseStays, Settles, Objects, Top
  <2> QED
    BY Zenon, <1>6, <1>8, <1>3, <2>1, <2>2, <2>3 DEF At, Objects
<1> QED
  BY Zenon, <1>7, <1>8

\* Deleteat returns to the walk.
LEMMA CloseCalm ==
  ASSUME IInv, Counts, Calm, NEW c \in Callers, Close(c), UNCHANGED walkVars
  PROVE  Calm'
<1> USE PlacesAssumption
<1>1. pc[c] = "close" /\ calls[c] > 0 /\ CalmOf(c) /\ pc[c] \in InCall
  BY Zenon, Alone DEF Close, InCall
<1>2. ret[c] \in {"w_first", "w_child", "w_gone", "w_last"} /\ name[c] \in Names \cup {Top}
  BY ZenonT(60), <1>1 DEF CalmOf, ArgsOf
<1>3. /\ UNCHANGED <<kind, volume, shared, denied, excused, pending, calls, ret, name, opt, res,
                     answer, readonly, listed, todo, respSize, numErr>>
      /\ h'[c] = NoFile /\ h2'[c] = NoFile /\ pc'[c] = ret[c]
      /\ \A b \in Callers \ {c} : h'[b] = h[b] /\ h2'[b] = h2[b] /\ pc'[b] = pc[b]
  BY ZenonT(60), <1>2 DEF Close, StillDisk, disk, args, holds, walkVars, Goto, IInv, Shape
<1>4. Settles
  BY Zenon, MarkedGo DEF IInv, Close
<1>5. /\ \A f \in Inside' : f \in Inside /\ where'[f] = where[f]
      /\ At(name[c])' \subseteq At(name[c])
  BY Zenon, <1>2, <1>3, <1>4, SettlesInside
<1>6. /\ \A f \in Inside' : f \notin pending
      /\ res[c] = "nil" /\ name[c] \in Names => At(name[c])' = {}
  BY Zenon, CloseFreesCalm
<1>7. ArgsOf(c)' /\ DeleteOf(c)'
  BY Zenon, <1>1, <1>2, <1>3 DEF CalmOf, ArgsOf, DeleteOf, DSteps, InCall
<1>8. DoneOf(c)'
  <2>1. ret[c] \in {"w_child", "w_gone"} => name[c] \in Names
    BY Zenon, <1>1 DEF CalmOf, ArgsOf
  <2>2. res[c] = "notexist" => At(name[c])' = {}
    BY Zenon, <1>1, <1>5 DEF CalmOf, DoneOf
  <2> QED
    BY ZenonT(60), <1>2, <1>3, <1>6, <2>1, <2>2 DEF DoneOf
<1>9. VerdictOf(c)'
  BY Zenon, <1>1, <1>2, <1>3, <1>5 DEF CalmOf, VerdictOf, DSteps
<1>10. KeptOf(c)'
  BY Zenon, <1>1, <1>2, <1>3, <1>4 DEF CalmOf, KeptOf, Settles, Objects
<1>11. PageOf(c)'
  <2>1. InLoop(c)' => InLoop(c)
    BY Zenon, <1>1, <1>2, <1>3 DEF InLoop, InCall, DSteps
  <2>2. \A f \in Inside' : f # h[c]
    BY Zenon, <1>1, <1>6 DEF CalmOf, DoneOf, Inside, Objects
  <2>3. InLoop(c)' => \A f \in Inside' : where'[f] \notin listed'[c] \/ where'[f] \in todo'[c]
                                         \/ where'[f] = name'[c]
    BY Zenon, <1>1, <1>3, <1>5, <2>1, <2>2 DEF CalmOf, PageOf
  <2>4. InLoop(c)' /\ respSize'[c] < ReqSize => \A f \in Inside' : where'[f] \in listed'[c]
    BY Zenon, <1>1, <1>3, <1>5, <2>1, <2>2 DEF CalmOf, PageOf
  <2> QED
    BY Zenon, <1>1, <1>2, <1>3, <1>6, <2>1, <2>3, <2>4 DEF CalmOf, PageOf, DSteps
<1>12. CalmOf(c)'
  BY Zenon, <1>1, <1>2, <1>3, <1>7, <1>8, <1>9, <1>10, <1>11 DEF CalmOf, Between
<1> QED
  BY Zenon, <1>1, <1>3, <1>12, CalmStep

\* A call of RemoveAll begins; it is the first of all calls.
LEMMA BeginCalm ==
  ASSUME IInv, Counts, Calm, NEW c \in Callers, RemoveAllCall(c), ~trouble'
  PROVE  Calm'
<1>1. (\A b \in Callers : calls[b] = 0) /\ calls' = [calls EXCEPT ![c] = @ + 1]
  <2>1. ~(\E b \in Callers : calls[b] > 0)
    BY Zenon DEF RemoveAllCall
  <2> QED
    <3>1. \A n \in Nat : ~(n > 0) => n = 0
      OBVIOUS
    <3> QED
      BY Zenon, <2>1, <3>1 DEF RemoveAllCall, Counts
<1>2. /\ UNCHANGED <<kind, volume, shared, denied, excused, pending, where, h, h2, todo, listed,
                     readonly>>
      /\ pc'[c] = "d_open" /\ name'[c] = Top /\ opt'[c] = "file" /\ ret'[c] = "w_first"
      /\ answer'[c] = "none"
      /\ \A b \in Callers \ {c} : pc'[b] = pc[b] /\ answer'[b] = answer[b]
  BY ZenonT(60) DEF RemoveAllCall, CallDelete, Goto, disk, holds, IInv, Shape
<1>3. calls'[c] = 1 /\ \A b \in Callers \ {c} : calls'[b] = 0
  BY <1>1 DEF Counts
<1>4. /\ pending = {} /\ where[Base] = Top /\ h[c] = NoFile /\ h2[c] = NoFile
      /\ \A b \in Callers \ {c} : Fresh(b)'
  BY Zenon, <1>1, <1>2 DEF Calm, Fresh
<1>5. ArgsOf(c)' /\ DeleteOf(c)' /\ DoneOf(c)'
  BY Zenon, <1>2, <1>4 DEF ArgsOf, DeleteOf, DoneOf, DSteps
<1>6. VerdictOf(c)' /\ KeptOf(c)' /\ PageOf(c)'
  BY Zenon, <1>2, <1>4 DEF VerdictOf, KeptOf, PageOf, InLoop, DSteps
<1>7. CalmOf(c)'
  BY Zenon, <1>2, <1>5, <1>6 DEF CalmOf, InCall
<1> QED
  BY SMTT(30), <1>2, <1>3, <1>4, <1>7 DEF Calm

\* A step of the walk that leaves the volume alone.
LEMMA WalksCalm ==
  ASSUME IInv, Counts, Calm, NEW c \in Callers, pc[c] \in Between \ {"idle"},
         Quiet, \A b \in Callers \ {c} : pc'[b] = pc[b] /\ answer'[b] = answer[b],
         pc'[c] \in {"idle", "w_opendir", "w_read", "w_next", "w_sub", "w_rmdir", "d_open"},
         pc[c] = "w_last" => pc'[c] = "idle", answer'[c] # "err",
         ArgsOf(c)', VerdictOf(c)', PageOf(c)'
  PROVE  Calm'
<1>1. calls[c] > 0 /\ CalmOf(c)
  BY Zenon, Alone
<1>2. UNCHANGED <<kind, volume, shared, denied, excused, pending, calls, where, h, h2, readonly>>
  BY Zenon DEF Quiet, disk
<1>3. DeleteOf(c)' /\ DoneOf(c)'
  BY Zenon, <1>1, <1>2 DEF CalmOf, DeleteOf, DoneOf, DSteps, Between
<1>4. KeptOf(c)'
  BY Zenon, <1>1, <1>2 DEF CalmOf, KeptOf, Between
<1>5. CalmOf(c)'
  BY Zenon, <1>3, <1>4 DEF CalmOf, InCall, Between
<1> QED
  BY Zenon, <1>1, <1>2, <1>5, CalmStep

\* The first call of Deleteat has found a directory, which is opened.
LEMMA FirstCalm ==
  ASSUME IInv, Counts, Calm, NEW c \in Callers, First(c) \/ OpenDir(c), ~trouble'
  PROVE  Calm'
<1>1. pc[c] \in {"w_first", "w_opendir"} /\ CalmOf(c)
  BY Zenon, Alone DEF First, OpenDir
<1>2. where[Base] = Top /\ Base \notin pending /\ At(Top) # {}
  BY Zenon, <1>1 DEF CalmOf, KeptOf, At, Objects
<1>3. pc[c] = "w_first" => res[c] = "isdir"
  BY Zenon, <1>1 DEF CalmOf, ArgsOf, VerdictOf
<1>4. /\ Quiet /\ UNCHANGED <<args, res, answer, todo, respSize, numErr>>
      /\ Goto(c, "w_opendir") \/ (Goto(c, "w_read") /\ listed' = [listed EXCEPT ![c] = {}])
  <2>1. CASE First(c)
    BY Zenon, <1>3, <2>1 DEF First, Succeeded, walkVars
  <2>2. CASE OpenDir(c)
    BY Zenon, <1>2, <2>2 DEF OpenDir, Fault
  <2> QED
    BY Zenon, <2>1, <2>2
<1>5. /\ pc'[c] \in {"w_opendir", "w_read"} /\ \A b \in Callers \ {c} : pc'[b] = pc[b]
      /\ pc'[c] = "w_read" => listed'[c] = {}
  BY ZenonT(60), <1>4 DEF Goto, IInv, Shape, Counts
<1>6. ArgsOf(c)' /\ VerdictOf(c)'
  BY Zenon, <1>1, <1>4, <1>5 DEF CalmOf, ArgsOf, VerdictOf, InCall, DSteps, args
<1>7. PageOf(c)'
  BY Zenon, <1>1, <1>4, <1>5 DEF CalmOf, PageOf, InLoop, InCall, Inside, DSteps, Quiet, disk
<1>8. answer'[c] # "err"
  BY Zenon, <1>1, <1>4 DEF CalmOf
<1> QED
  BY Zenon, <1>1, <1>4, <1>5, <1>6, <1>7, <1>8, WalksCalm DEF Between

\* Base holds only entries with names: what was moved aside has gone.
LEMMA NamedCalm ==
  ASSUME IInv, Counts, Calm, NEW c \in Callers, pc[c] = "w_read"
  PROVE  EntryNames \subseteq Names
<1> USE PlacesAssumption
<1>1. CalmOf(c) /\ calls[c] > 0
  BY Zenon, Alone
<1>2. ASSUME NEW f \in Inside PROVE where[f] \in Names
  <2>1. f \in Files /\ f \notin pending \cup excused
    BY Zenon, <1>1 DEF CalmOf, PageOf, Calm, Inside
  <2>2. \A b \in Callers : b = c \/ pc[b] = "idle"
    BY <1>1 DEF Calm, Counts, Fresh
  <2>3. \A b \in Callers : ~Responsible(b, f)
    BY Zenon, <2>2 DEF Responsible
  <2>4. where[f] # f
    BY Zenon, <2>1, <2>3 DEF IInv, Accounted
  <2> QED
    BY Zenon, <2>4 DEF Inside
<1> QED
  BY Zenon, <1>2 DEF EntryNames

\* A page is read: a short one is all there is.
LEMMA ReadCalm ==
  ASSUME IInv, Counts, Calm, Listable, NEW c \in Callers, Read(c), ~trouble'
  PROVE  Calm'
<1>1. pc[c] = "w_read" /\ CalmOf(c) /\ calls[c] > 0
  BY Zenon, Alone DEF Read
<1>2. /\ Page(c) /\ UNCHANGED <<readonly, excused, calls>>
  BY Zenon DEF Read, ListingFails, Fault
<1>3. EntryNames \subseteq Names /\ listed[c] = {} /\ h[c] = NoFile
  BY Zenon, <1>1, NamedCalm DEF CalmOf, PageOf, DeleteOf, DSteps
<1>4. PICK page \in SUBSET EntryNames :
        /\ Cardinality(page) = IF Cardinality(EntryNames) < ReqSize THEN Cardinality(EntryNames)
                               ELSE ReqSize
        /\ todo' = [todo EXCEPT ![c] = page]
        /\ listed' = [listed EXCEPT ![c] = @ \cup page]
        /\ respSize' = [respSize EXCEPT ![c] = Cardinality(page)]
  <2>1. EntryNames \ listed[c] = EntryNames
    BY Zenon, <1>3
  <2> QED
    BY Zenon, <1>2, <2>1 DEF Page
<1>5. /\ UNCHANGED <<kind, volume, shared, denied, excused, pending, calls, ret, name, opt, res,
                     answer, readonly, where, h, h2>>
      /\ pc'[c] = "w_next" /\ numErr'[c] = 0 /\ Inside' = Inside
      /\ \A b \in Callers \ {c} : pc'[b] = pc[b]
  BY ZenonT(60), <1>2 DEF Page, Goto, disk, holds, args, IInv, Shape, Counts, Inside
<1>6. todo'[c] = page /\ listed'[c] = page /\ respSize'[c] = Cardinality(page)
  BY ZenonT(60), <1>3, <1>4 DEF IInv, Shape, Counts
<1>7. respSize'[c] < ReqSize => page = EntryNames
  <2>1. respSize'[c] < ReqSize => Cardinality(page) = Cardinality(EntryNames)
    BY SMTT(30), <1>4, <1>6, ReqAssumption DEF Listable
  <2> QED
    BY ZenonT(60), <2>1 DEF Listable
<1>8. ArgsOf(c)' /\ DeleteOf(c)' /\ DoneOf(c)'
  BY Zenon, <1>1, <1>5 DEF CalmOf, ArgsOf, DeleteOf, DoneOf, InCall, DSteps
<1>9. VerdictOf(c)' /\ KeptOf(c)'
  BY Zenon, <1>1, <1>5 DEF CalmOf, VerdictOf, KeptOf, DSteps
<1>10. PageOf(c)'
  <2>1. \A f \in Inside : f \notin pending
    BY Zenon, <1>1 DEF CalmOf, PageOf
  <2>2. respSize'[c] < ReqSize => \A f \in Inside : where[f] \in page
    BY Zenon, <1>7 DEF EntryNames
  <2> QED
    BY Zenon, <1>3, <1>5, <1>6, <2>1, <2>2 DEF PageOf, DSteps
<1>11. CalmOf(c)'
  BY Zenon, <1>1, <1>5, <1>8, <1>9, <1>10 DEF CalmOf, Between
<1> QED
  BY Zenon, <1>1, <1>5, <1>11, CalmStep

\* The next entry is deleted; after the last one the directory is opened again,
\* or nothing is left in it.
LEMMA NextNameCalm ==
  ASSUME IInv, Counts, Calm, NEW c \in Callers, NextName(c)
  PROVE  Calm'
<1>1. pc[c] = "w_next" /\ CalmOf(c) /\ calls[c] > 0
  BY Zenon, Alone DEF NextName
<1>2. InLoop(c) /\ h[c] = NoFile /\ h[c] \notin Inside
  BY Zenon, <1>1, PlacesAssumption DEF InLoop, CalmOf, DeleteOf, DSteps, Inside, Objects
<1>3. /\ numErr[c] = 0 /\ todo[c] \subseteq Names /\ numErr[c] # ReqSize
      /\ \A f \in Inside : where[f] \notin listed[c] \/ where[f] \in todo[c]
      /\ respSize[c] < ReqSize => \A f \in Inside : where[f] \in listed[c]
      /\ \A f \in Inside : f \notin pending
  BY Zenon, <1>1, <1>2, ReqAssumption DEF CalmOf, PageOf
<1>4. ASSUME NEW nm \in todo[c], CallDelete(c, nm, "file", "w_child"),
             todo' = [todo EXCEPT ![c] = @ \ {nm}],
             UNCHANGED <<disk, where, pending, holds, h, h2, listed, respSize, numErr,
                         recurseErr, answer>>
      PROVE  Calm'
  <2>1. /\ pc'[c] = "d_open" /\ name'[c] = nm /\ opt'[c] = "file" /\ ret'[c] = "w_child"
        /\ todo'[c] = todo[c] \ {nm} /\ \A b \in Callers \ {c} : pc'[b] = pc[b]
    BY ZenonT(60), <1>4 DEF CallDelete, Goto, IInv, Shape
  <2>2. Quiet /\ Inside' = Inside
    BY Zenon, <1>4 DEF NextName, Quiet, holds, disk, Inside
  <2>3. ArgsOf(c)' /\ VerdictOf(c)'
    BY Zenon, <1>3, <2>1 DEF ArgsOf, VerdictOf, DSteps
  <2>4. PageOf(c)'
    BY Zenon, <1>3, <1>4, <2>1, <2>2 DEF PageOf, DSteps, Quiet
  <2> QED
    BY ZenonT(60), <1>1, <1>4, <2>1, <2>2, <2>3, <2>4, WalksCalm DEF CalmOf, Between
<1>5. CASE /\ todo[c] = {} /\ CloseListing(c) /\ UNCHANGED <<args, walkVars>>
           /\ Goto(c, IF respSize[c] < ReqSize THEN "w_rmdir" ELSE "w_opendir")
  <2>1. /\ UNCHANGED <<kind, volume, shared, denied, excused, pending, calls, ret, name, opt, res,
                       answer, readonly, h, h2>>
        /\ \A b \in Callers \ {c} : pc'[b] = pc[b]
        /\ pc'[c] \in {"w_rmdir", "w_opendir"} /\ (pc'[c] = "w_rmdir" => respSize[c] < ReqSize)
    BY Zenon, <1>5 DEF NextName, CloseListing, Goto, disk, args, walkVars, IInv, Shape
  <2>2. Settles
    BY ZenonT(60), <1>5, MarkedGo DEF IInv, CloseListing
  <2>3. \A f \in Inside' : f \in Inside /\ where'[f] = where[f]
    BY ZenonT(60), <2>1, <2>2, SettlesInside
  <2>4. respSize[c] < ReqSize => Inside' = {}
    BY Zenon, <1>3, <1>5, <2>3
  <2>5. ArgsOf(c)' /\ DeleteOf(c)' /\ DoneOf(c)'
    BY Zenon, <1>1, <2>1 DEF CalmOf, ArgsOf, DeleteOf, DoneOf, InCall, DSteps
  <2>6. VerdictOf(c)' /\ KeptOf(c)'
    BY Zenon, <1>1, <2>1, <2>2 DEF CalmOf, VerdictOf, KeptOf, DSteps, Settles, Objects
  <2>7. PageOf(c)'
    BY Zenon, <1>3, <2>1, <2>3, <2>4 DEF PageOf, InLoop, InCall, DSteps
  <2>8. CalmOf(c)'
    BY Zenon, <1>1, <2>1, <2>5, <2>6, <2>7 DEF CalmOf, Between
  <2> QED
    BY ZenonT(60), <1>1, <2>1, <2>8, CalmStep
<1> QED
  BY Zenon, <1>3, <1>4, <1>5 DEF NextName, PageEnd

\* An entry is gone: the walk goes to the next one.
LEMMA EntryGoneCalm ==
  ASSUME IInv, Counts, Calm, NEW c \in Callers, pc[c] \in {"w_child", "w_sub", "w_gone"},
         At(name[c]) = {}, Quiet, Goto(c, "w_next"), UNCHANGED <<args, res, walkVars>>
  PROVE  Calm'
<1>1. CalmOf(c) /\ InLoop(c)
  BY Zenon, Alone DEF InLoop
<1>2. pc'[c] = "w_next" /\ \A b \in Callers \ {c} : pc'[b] = pc[b]
  BY Zenon DEF Goto, IInv, Shape
<1>3. ArgsOf(c)' /\ VerdictOf(c)'
  BY Zenon, <1>1, <1>2 DEF CalmOf, ArgsOf, VerdictOf, InCall, DSteps, args
<1>4. Inside' = Inside /\ \A f \in Inside : where[f] # name[c]
  BY Zenon DEF Quiet, disk, Inside, At, Objects
<1>5. UNCHANGED <<pending, where, listed, todo, respSize, numErr, h>>
  BY Zenon DEF Quiet, walkVars
<1>6. PageOf(c)'
  BY Zenon, <1>1, <1>2, <1>4, <1>5 DEF CalmOf, PageOf, DSteps
<1> QED
  BY ZenonT(60), <1>1, <1>2, <1>3, <1>6, WalksCalm DEF CalmOf, Between, walkVars

\* Deleteat has removed an entry, or found a directory or a link.
LEMMA ChildCalm ==
  ASSUME IInv, Counts, Calm, NEW c \in Callers, Child(c) \/ Gone(c)
  PROVE  Calm'
<1>1. CalmOf(c) /\ pc[c] \in {"w_child", "w_gone"} /\ ret[c] = pc[c]
  BY Zenon, Alone DEF Child, Gone, CalmOf, ArgsOf
<1>2. /\ res[c] # "err" /\ (pc[c] = "w_gone" => Succeeded(c))
      /\ Succeeded(c) => At(name[c]) = {}
  BY Zenon, <1>1 DEF CalmOf, VerdictOf, DoneOf, Succeeded
<1>3. CASE Succeeded(c) /\ Goto(c, "w_next") /\ Quiet /\ UNCHANGED <<args, res, walkVars>>
  BY Zenon, <1>1, <1>2, <1>3, EntryGoneCalm
<1>4. CASE /\ res[c] = "isdir" /\ pc[c] = "w_child" /\ Goto(c, "w_sub") /\ Quiet
           /\ UNCHANGED <<args, res, walkVars>>
  <2>1. pc'[c] = "w_sub" /\ \A b \in Callers \ {c} : pc'[b] = pc[b]
    BY Zenon, <1>4 DEF Goto, IInv, Shape
  <2>2. /\ UNCHANGED <<kind, pending, where, name, opt, ret, listed, todo, respSize, numErr, h, answer>>
        /\ Inside' = Inside
    BY Zenon, <1>4 DEF Quiet, walkVars, args, disk, Inside
  <2>3. ArgsOf(c)' /\ VerdictOf(c)'
    BY Zenon, <1>1, <1>4, <2>1, <2>2 DEF CalmOf, ArgsOf, VerdictOf, InCall, DSteps, At
  <2>4. PageOf(c)'
    BY Zenon, <1>1, <1>4, <2>1, <2>2 DEF CalmOf, PageOf, InLoop, DSteps
  <2> QED
    BY Zenon, <1>1, <1>4, <2>1, <2>2, <2>3, <2>4, WalksCalm DEF CalmOf, Between
<1> QED
  BY Zenon, <1>1, <1>2, <1>3, <1>4 DEF Child, Gone, Succeeded

\* The directory or link is removed, with removedirat.
LEMMA SubCalm ==
  ASSUME IInv, Counts, Calm, NEW c \in Callers, Sub(c)
  PROVE  Calm'
<1>1. CalmOf(c) /\ pc[c] = "w_sub" /\ ret[c] = "w_child" /\ name[c] \in Names /\ InLoop(c)
  BY Zenon, Alone DEF Sub, CalmOf, ArgsOf, InLoop
<1>2. \A f \in At(name[c]) : kind[f] # "file"
  BY Zenon, <1>1 DEF CalmOf, VerdictOf
<1>3. CASE At(name[c]) = {} /\ Goto(c, "w_next") /\ Quiet /\ UNCHANGED <<args, res, walkVars>>
  BY Zenon, <1>1, <1>3, EntryGoneCalm
<1>4. CASE CallDelete(c, name[c], "dir", "w_gone") /\ Quiet /\ UNCHANGED <<res, walkVars>>
  <2>1. /\ pc'[c] = "d_open" /\ name'[c] = name[c] /\ opt'[c] = "dir" /\ ret'[c] = "w_gone"
        /\ \A b \in Callers \ {c} : pc'[b] = pc[b]
    BY Zenon, <1>4 DEF CallDelete, Goto, IInv, Shape
  <2>2. /\ UNCHANGED <<kind, pending, where, listed, todo, respSize, numErr, h, answer>>
        /\ Inside' = Inside
    BY Zenon, <1>4 DEF Quiet, walkVars, disk, Inside
  <2>3. ArgsOf(c)' /\ VerdictOf(c)'
    BY Zenon, <1>1, <1>2, <2>1, <2>2 DEF ArgsOf, VerdictOf, DSteps, At
  <2>4. PageOf(c)'
    BY Zenon, <1>1, <2>1, <2>2 DEF CalmOf, PageOf, DSteps
  <2> QED
    BY Zenon, <1>1, <1>4, <2>1, <2>2, <2>3, <2>4, WalksCalm DEF CalmOf, Between
<1> QED
  BY Zenon, <1>2, <1>3, <1>4 DEF Sub

\* Base is removed, and RemoveAll returns nil.
LEMMA LastCalm ==
  ASSUME IInv, Counts, Calm, NEW c \in Callers, RmDir(c) \/ Last(c)
  PROVE  Calm'
<1>1. CalmOf(c) /\ pc[c] \in {"w_rmdir", "w_last"} /\ (pc[c] = "w_last" => ret[c] = "w_last")
  BY Zenon, Alone DEF RmDir, Last, CalmOf, ArgsOf
<1>2. CASE RmDir(c)
  <2>1. /\ pc'[c] = "d_open" /\ name'[c] = Top /\ opt'[c] = "dir" /\ ret'[c] = "w_last"
        /\ \A b \in Callers \ {c} : pc'[b] = pc[b]
    BY Zenon, <1>2 DEF RmDir, CallDelete, Goto, IInv, Shape
  <2>2. pc[c] = "w_rmdir" /\ Quiet /\ answer' = answer /\ Inside' = {} /\ Inside = {}
    BY Zenon, <1>1, <1>2 DEF RmDir, Quiet, walkVars, disk, Inside, CalmOf, PageOf
  <2>3. ArgsOf(c)' /\ VerdictOf(c)' /\ PageOf(c)'
    BY Zenon, <2>1, <2>2 DEF ArgsOf, VerdictOf, PageOf, InLoop, DSteps
  <2> QED
    BY ZenonT(60), <1>1, <2>1, <2>2, <2>3, WalksCalm DEF CalmOf, Between
<1>3. CASE Last(c)
  <2>1. res[c] = "nil" /\ pc[c] = "w_last"
    BY Zenon, <1>1, <1>3 DEF Last, CalmOf, VerdictOf
  <2>2. /\ pc'[c] = "idle" /\ answer'[c] = "nil" /\ ret'[c] = "idle"
        /\ \A b \in Callers \ {c} : pc'[b] = pc[b] /\ answer'[b] = answer[b]
    BY ZenonT(60), <1>3, <2>1 DEF Last, Returns, Forget, Succeeded, Goto, IInv, Shape
  <2>3. Quiet /\ Inside' = Inside /\ pending' = pending
    BY Zenon, <1>3 DEF Last, Quiet, disk, Inside
  <2>4. ArgsOf(c)' /\ VerdictOf(c)' /\ PageOf(c)'
    BY Zenon, <1>1, <2>1, <2>2, <2>3 DEF CalmOf, ArgsOf, VerdictOf, PageOf, InLoop, InCall, DSteps
  <2> QED
    BY Zenon, <1>1, <2>1, <2>2, <2>3, <2>4, WalksCalm DEF Between
<1> QED
  BY Zenon, <1>2, <1>3

\* A file another program closes may go; nothing else changes.
LEMMA SettlesCalm ==
  ASSUME IInv, NEW c \in Callers, CalmOf(c), Settles,
         UNCHANGED <<kind, volume, pending, readonly, pc, ret, name, opt, h, h2, haveData, res,
                     answer, listed, todo, respSize, numErr>>
  PROVE  CalmOf(c)'
<1> USE PlacesAssumption
<1>1. /\ \A f \in Inside' : f \in Inside /\ where'[f] = where[f]
      /\ \A nm \in Names \cup {Top} : At(nm)' \subseteq At(nm)
  BY Zenon, SettlesInside
<1>2. pc[c] \in InCall \cup {"w_child", "w_gone", "w_sub"} => At(name[c])' \subseteq At(name[c])
  BY Zenon, <1>1 DEF CalmOf, ArgsOf
<1>3. ArgsOf(c)'
  BY Zenon DEF CalmOf, ArgsOf
<1>4. DeleteOf(c)'
  <2>1. pc[c] \in DSteps => where'[h[c]] = where[h[c]] /\ pc[c] \in InCall
    BY Zenon DEF CalmOf, DeleteOf, InCall, Settles, IInv, HandlesOf, Busy
  <2> QED
    BY ZenonT(60), <1>2, <2>1 DEF CalmOf, DeleteOf
<1>5. DoneOf(c)'
  <2>1. h[c] \in pending /\ where[h[c]] \notin Names => where'[h[c]] \notin Names
    BY Zenon DEF Settles, IInv, Shape
  <2> QED
    BY ZenonT(60), <1>2, <2>1 DEF CalmOf, DoneOf, InCall
<1>6. VerdictOf(c)'
  BY Zenon, <1>2 DEF CalmOf, VerdictOf, InCall
<1>7. KeptOf(c)'
  BY Zenon DEF CalmOf, KeptOf, Settles, Objects
<1>8. PageOf(c)'
  <2>1. InLoop(c)' <=> InLoop(c)
    BY Zenon DEF InLoop
  <2> QED
    BY Zenon, <1>1, <2>1 DEF CalmOf, PageOf
<1> QED
  BY Zenon, <1>3, <1>4, <1>5, <1>6, <1>7, <1>8 DEF CalmOf

\* Another program opens a file that blocks nothing, or closes one.
LEMMA OthersCalm ==
  ASSUME IInv, Calm, NEW f \in Objects, OtherOpens(f) \/ OtherCloses(f), UNCHANGED walkVars, ~trouble'
  PROVE  Calm'
<1>1. UNCHANGED <<kind, volume, pending, readonly, pc, ret, name, opt, h, h2, haveData, res, excused,
                  calls, answer, listed, todo, respSize, numErr>>
  BY Zenon DEF OtherOpens, OtherCloses, Meddle, disk, args, walkVars
<1>2. Settles
  <2>1. CASE OtherOpens(f)
    BY Zenon, <2>1 DEF OtherOpens, Settles
  <2>2. CASE OtherCloses(f)
    BY Zenon, <2>2, MarkedGo DEF OtherCloses, IInv
  <2> QED
    BY Zenon, <2>1, <2>2
<1>3. denied' = {} /\ \A g \in shared' : ~Blocks(g, kind[g], volume)
  <2>1. CASE OtherOpens(f)
    <3>1. ~Blocks(f, kind[f], volume)
      BY Zenon, <2>1, Zenon DEF OtherOpens
    <3> QED
      BY Zenon, <2>1, <3>1 DEF OtherOpens, Calm
  <2>2. CASE OtherCloses(f)
    BY Zenon, <2>2 DEF OtherCloses, Calm
  <2> QED
    BY Zenon, <2>1, <2>2
<1>4. \A c \in Callers : CalmOf(c) => CalmOf(c)'
  BY Zenon, <1>1, <1>2, SettlesCalm
<1>5. pending = {} => where'[Base] = where[Base]
  BY Zenon, <1>2 DEF Settles, Objects
<1> QED
  BY Zenon, <1>1, <1>3, <1>4, <1>5 DEF Calm, Fresh

\* The counters stay numbers.
LEMMA CountsKept ==
  ASSUME IInv, Counts, Listable, [Next]_vars
  PROVE  Counts'
<1>1. CASE UNCHANGED <<calls, walkVars>>
  BY Zenon, <1>1 DEF Counts, walkVars
<1>2. ASSUME NEW c \in Callers, calls' = [calls EXCEPT ![c] = @ + 1],
             UNCHANGED <<listed, respSize, numErr>>
      PROVE  Counts'
  BY <1>2 DEF Counts
<1>3. ASSUME NEW c \in Callers, Page(c), calls' = calls PROVE Counts'
  <2>1. EntryNames \subseteq Names \cup Files
    BY Zenon DEF EntryNames, Inside
  <2>2. PICK page \in SUBSET (EntryNames \ listed[c]) :
          /\ listed' = [listed EXCEPT ![c] = @ \cup page]
          /\ respSize' = [respSize EXCEPT ![c] = Cardinality(page)]
    BY Zenon, <1>3 DEF Page
  <2>3. page \subseteq EntryNames /\ page \subseteq Names \cup Files
    BY Zenon, <2>1, <2>2
  <2>4. Cardinality(page) \in Nat
    BY Zenon, <2>3 DEF Listable
  <2>5. numErr' = [numErr EXCEPT ![c] = 0]
    BY Zenon, <1>3 DEF Page
  <2> QED
    BY Zenon, <1>3, <2>2, <2>3, <2>4, <2>5 DEF Counts
<1>4. ASSUME NEW c \in Callers, Walk(c) PROVE Counts'
  <2>1. calls' = calls
    BY Zenon, <1>4 DEF Walk, First, OpenDir, Read, NextName, Child, Sub, Gone, RmDir, Last, Quiet
  <2>2. CASE Returns(c, "nil") \/ Returns(c, "err")
    BY SMTT(30), <2>1, <2>2 DEF Returns, Counts
  <2>3. CASE EntryFails(c)
    BY <2>1, <2>3 DEF EntryFails, Counts
  <2>4. CASE UNCHANGED <<respSize, numErr>> /\ listed' \in {listed, [listed EXCEPT ![c] = {}]}
    BY Zenon, <2>1, <2>4 DEF Counts
  <2>5. CASE Read(c)
    BY Zenon, <1>1, <1>3, <2>1, <2>2, <2>5 DEF Read, ListingFails
  <2>6. CASE First(c) \/ OpenDir(c) \/ RmDir(c) \/ Last(c)
    BY ZenonT(60), <2>2, <2>4, <2>6 DEF First, OpenDir, RmDir, Last, walkVars
  <2>7. CASE NextName(c) \/ Child(c) \/ Sub(c) \/ Gone(c)
    BY Zenon, <2>3, <2>4, <2>7 DEF NextName, PageEnd, Child, Sub, Gone, walkVars
  <2> QED
    BY ZenonT(60), <1>4, <2>5, <2>6, <2>7 DEF Walk
<1>5. ASSUME NEW c \in Callers, AtStep(c), UNCHANGED walkVars PROVE Counts'
  <2>1. calls' = calls
    BY Zenon, <1>5 DEF AtStep, DOpen, DEx, DInfo, DReopen, DClear, DAside, DMark, Back, Close, ROpen, REx,
                RPlain, RTarget, RInfo, RAside, RRetry, RMark, StillDisk
  <2> QED
    BY Zenon, <1>1, <1>5, <2>1
<1>6. CASE Others /\ UNCHANGED walkVars
  BY Zenon, <1>1, <1>6 DEF Others, OtherOpens, OtherDenies, OtherCloses, OtherCreates, OtherMoves, Crash, Meddle
<1>7. ASSUME NEW c \in Callers, Deletes(c) \/ Renames(c), UNCHANGED walkVars PROVE Counts'
  BY Zenon, <1>2, <1>7 DEF Deletes, Renames, Begins, walkVars
<1>8. ASSUME NEW c \in Callers, RemoveAllCall(c) PROVE Counts'
  BY Zenon, <1>2, <1>8 DEF RemoveAllCall
<1>9. CASE UNCHANGED vars
  BY Zenon, <1>1, <1>9 DEF vars, atVars
<1> QED
  BY Zenon, <1>4, <1>5, <1>6, <1>7, <1>8, <1>9 DEF Next, Step

\* Trouble is not forgotten.
LEMMA TroubleStays ==
  ASSUME [Next]_vars, trouble
  PROVE  trouble'
<1>1. ASSUME NEW c \in Callers, AtStep(c) PROVE trouble'
  BY ZenonT(60), <1>1 DEF AtStep, DOpen, DEx, DInfo, DReopen, DClear, DAside, DMark, Back, Close, ROpen, REx,
              RPlain, RTarget, RInfo, RAside, RRetry, RMark, Opened, Fault, NoFault
<1>2. ASSUME NEW c \in Callers, Walk(c) PROVE trouble'
  BY Zenon, <1>2 DEF Walk, First, OpenDir, Read, Page, ListingFails, NextName, Child, Sub, Gone, RmDir, Last,
              Fault, NoFault
<1>3. ASSUME NEW c \in Callers, RemoveAllCall(c) \/ Deletes(c) \/ Renames(c) PROVE trouble'
  BY Zenon, <1>3 DEF RemoveAllCall, Deletes, Renames, Begins
<1>4. CASE Others
  BY Zenon, <1>4 DEF Others, OtherOpens, OtherDenies, OtherCloses, OtherCreates, OtherMoves, Crash
<1>5. CASE UNCHANGED vars
  BY Zenon, <1>5 DEF vars, atVars
<1> QED
  BY Zenon, <1>1, <1>2, <1>3, <1>4, <1>5 DEF Next, Step

\* Before the first call.
LEMMA InitCalm == Init => QInv
<1> SUFFICES ASSUME Init PROVE QInv
  BY Zenon
<1>1. Counts
  BY Zenon DEF Init, AtInit, Counts
<1>2. PICK d \in Disks :
        /\ kind = [f \in Objects |-> IF f = Base THEN "dir" ELSE d.kind[f]]
        /\ where = [f \in Objects |-> IF f = Base THEN Top ELSE d.where[f]]
        /\ volume = d.volume /\ shared = d.held
        /\ trouble = \E f \in d.held : Blocks(f, d.kind[f], d.volume)
  BY Zenon DEF Init, AtInit
<1>3. d.held \subseteq Files /\ volume \in {"posix", "staged", "unstaged"}
  BY Zenon, <1>2, AtAssumption DEF DiskType
<1>4. ~trouble => \A f \in shared : ~Blocks(f, kind[f], volume)
  <2>1. ~trouble => \A f \in d.held : ~Blocks(f, d.kind[f], d.volume)
    BY Zenon, <1>2, Zenon
  <2>2. \A f \in d.held : kind[f] = d.kind[f]
    BY ZenonT(60), <1>2, <1>3, PlacesAssumption DEF Objects
  <2> QED
    BY Zenon, <1>2, <2>1, <2>2
<1>5. /\ denied = {} /\ excused = {} /\ pending = {} /\ where[Base] = Top
      /\ \A c \in Callers : calls[c] = 0 /\ Fresh(c)
  BY Zenon, <1>2 DEF Init, AtInit, Fresh, Objects
<1> QED
  BY SMTT(30), <1>1, <1>3, <1>4, <1>5 DEF QInv, Calm

\* A call without trouble goes as it should.
LEMMA NextCalm ==
  ASSUME IInv, FInv, QInv, Listable, [Next]_vars
  PROVE  QInv'
<1> SUFFICES ASSUME ~trouble' PROVE Calm'
  BY Zenon, CountsKept DEF QInv
<1>1. Counts /\ Calm
  BY Zenon, TroubleStays DEF QInv
<1>2. ASSUME NEW c \in Callers, AtStep(c), UNCHANGED walkVars PROVE Calm'
  <2>1. pc[c] # "idle" => pc[c] \notin RSteps \cup {"r_open", "back"}
    BY Zenon, <1>1, Alone DEF CalmOf, InCall, Between, DSteps, RSteps
  <2>2. DOpen(c) \/ DEx(c) \/ DInfo(c) \/ DReopen(c) \/ DClear(c) \/ DAside(c) \/ DMark(c) \/ Close(c)
    BY Zenon, <1>2, <2>1 DEF AtStep, Back, ROpen, REx, RPlain, RTarget, RInfo, RAside, RRetry, RMark, RSteps
  <2> QED
    BY Zenon, <1>1, <1>2, <2>2, DOpenCalm, DExCalm, DInfoCalm, DClearCalm, DAsideCalm, DMarkCalm, CloseCalm
<1>3. ASSUME NEW c \in Callers, Walk(c) PROVE Calm'
  BY Zenon, <1>1, <1>3, FirstCalm, ReadCalm, NextNameCalm, ChildCalm, SubCalm, LastCalm DEF Walk
<1>4. ASSUME NEW c \in Callers, RemoveAllCall(c) PROVE Calm'
  BY Zenon, <1>1, <1>4, BeginCalm
<1>5. ASSUME NEW c \in Callers, Deletes(c) \/ Renames(c) PROVE FALSE
  BY Zenon, <1>5 DEF Deletes, Renames, Begins
<1>6. CASE Others /\ UNCHANGED walkVars
  <2>1. \E f \in Objects : OtherOpens(f) \/ OtherCloses(f)
    BY Zenon, <1>6 DEF Others, OtherDenies, OtherCreates, OtherMoves, Crash
  <2> QED
    BY Zenon, <1>1, <1>6, <2>1, OthersCalm
<1>7. CASE UNCHANGED vars
  <2>1. \A c \in Callers : CalmOf(c) => CalmOf(c)'
    BY Zenon, <1>7, SettlesCalm DEF vars, atVars, disk, args, walkVars, Settles
  <2> QED
    BY Zenon, <1>1, <1>7, <2>1 DEF Calm, Fresh, vars, atVars, disk, holds, walkVars
<1> QED
  BY Zenon, <1>2, <1>3, <1>4, <1>5, <1>6, <1>7 DEF Next, Step

\* Without trouble no call fails.
LEMMA CalmSucceeds == QInv => HeldFilesDoNotBlock
<1> SUFFICES ASSUME QInv, ~trouble, NEW c \in Callers
             PROVE  answer[c] # "err"
  BY Zenon DEF HeldFilesDoNotBlock
<1>1. calls[c] = 0 => Fresh(c)
  BY Zenon DEF QInv, Calm
<1>2. calls[c] > 0 => CalmOf(c)
  BY Zenon DEF QInv, Calm
<1>3. calls[c] = 0 \/ calls[c] > 0
  BY DEF QInv, Counts
<1> QED
  BY Zenon, <1>1, <1>2, <1>3 DEF Fresh, CalmOf

----------------------------------------------------------------------------
(* RemoveAll fails for a reason.                                           *)

\* A page of the directory's entries can be counted, and one with as many as
\* there are is all of them.
LEMMA EntriesCounted == Listable
<1>1. IsFiniteSet(Inside)
  BY Zenon, FilesAssumption, FS_Subset DEF Inside
<1>2. IsFiniteSet(EntryNames)
  <2> DEFINE at == [f \in Inside |-> where[f]]
  <2>1. at \in Surjection(Inside, EntryNames)
    BY Zenon DEF Surjection, EntryNames
  <2> QED
    BY ZenonT(60), <1>1, <2>1, FS_Surjection
<1>3. ASSUME NEW page \in SUBSET EntryNames
      PROVE  /\ Cardinality(page) \in Nat
             /\ Cardinality(page) = Cardinality(EntryNames) => page = EntryNames
  <2>1. IsFiniteSet(page)
    BY Zenon, <1>2, FS_Subset
  <2> QED
    BY ZenonT(60), <1>2, <2>1, FS_Subset, FS_CardinalityType
<1> QED
  BY Zenon, <1>3 DEF Listable

\* A RemoveAll that fails had a reason, and a plain file that some program merely
\* has open is none where the staging directory is on the volume
\* (deleteatFallback, removeAllFrom).
THEOREM HeldFilesHarmless == Spec => []HeldFilesDoNotBlock
<1>1. Init => FInv /\ QInv
  BY Zenon, InitFrees, InitCalm
<1>2. IInv /\ FInv /\ QInv /\ [Next]_vars => FInv' /\ QInv'
  BY Zenon, NextFrees, NextCalm, EntriesCounted
<1>3. QInv => HeldFilesDoNotBlock
  BY Zenon, CalmSucceeds
<1> QED
  BY <1>1, <1>2, <1>3, Invariance, PTL DEF Spec

=============================================================================
