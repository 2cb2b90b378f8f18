--------------------------- MODULE FDMutexProofs ----------------------------
(***************************************************************************)
(* The inductive invariant of FDMutex, what a step of one goroutine leaves *)
(* alone, that every step preserves the invariant, and the safety theorems *)
(* of FDMutex that follow from it; FDMutex implements FDLifetime, and no   *)
(* wakeup of rwunlock is lost.                                             *)
(***************************************************************************)
EXTENDS FDMutex, FiniteSetTheorems, TLAPS

\* Where a goroutine is in its method determines what it has to give back.
ControlAt(g) ==
  /\ pc[g] \in Returned \cup {"chk", "destroy", "destroyErr"} => hold[g] = {}
  /\ pc[g] \in {"lock", "sleep", "overflow"} =>
       hold[g] = {} \/ (hold[g] = {"r"} /\ op[g] \in {"rw", "tryrw"})
  /\ pc[g] \in {"lock", "sleep", "semr", "semw"} => op[g] \in LockOps
  /\ pc[g] = "held" =>
       \/ op[g] \in {"ref", "close"} /\ hold[g] = {op[g]}
       \/ op[g] = "read" /\ hold[g] = {"r"}
       \/ op[g] = "write" /\ hold[g] = {"w"}
       \/ op[g] \in {"rw", "tryrw"} /\ hold[g] \in {{"w"}, Dir}
  /\ pc[g] = "backout" => op[g] \in {"rw", "tryrw"} /\ hold[g] = {"r"}
  /\ pc[g] = "wake" => op[g] = "close" /\ hold[g] = {"close"}
  /\ pc[g] \in {"semr", "semw"} =>
       \/ post[g] \in Returned \cup {"chk"} /\ hold[g] = {}
       \/ post[g] = "held" /\ op[g] \in {"rw", "tryrw"} /\ hold[g] = {"w"}

Control == \A g \in Goroutines : ControlAt(g)

\* Once closed there are no waiters, and before it nothing to wake.
CloseControl ==
  \A d \in Dir : IF closed THEN wait[d] = 0 ELSE closeRel[d] = 0

\* The inductive invariant.
IInv ==
  /\ TypeOK /\ Control /\ CloseControl
  /\ RefsCountHolders /\ LocksExclusive /\ DestroyedUnused
  /\ NeverInconsistent /\ SleepersCounted

----------------------------------------------------------------------------
(* A step of a goroutine g leaves the others where they are. *)

OthersStay(g) ==
  \A h \in Goroutines \ {g} :
    pc'[h] = pc[h] /\ op'[h] = op[h] /\ hold'[h] = hold[h] /\ post'[h] = post[h]

\* The sets of sleeping, unlocking and destroying goroutines change by at
\* most the goroutine that moves (rwlock, rwunlock, destroy).
LEMMA Movers ==
  ASSUME NEW g \in Goroutines, OthersStay(g)
  PROVE  /\ \A d \in Dir :
              Sleeping(d)' = IF pc'[g] = "sleep" /\ Wanted(g)' = d
                             THEN Sleeping(d) \cup {g} ELSE Sleeping(d) \ {g}
         /\ \A d \in Dir :
              Unlocking(d)' = IF pc'[g] = SemPc[d]
                              THEN Unlocking(d) \cup {g} ELSE Unlocking(d) \ {g}
         /\ Destroying' = IF pc'[g] \in {"destroy", "destroyErr"}
                          THEN Destroying \cup {g} ELSE Destroying \ {g}
<1>1. \A h \in Goroutines \ {g} : Wanted(h)' = Wanted(h) /\ pc'[h] = pc[h]
  BY Zenon DEF OthersStay, Wanted
<1>2. ASSUME NEW d \in Dir
      PROVE  Sleeping(d)' = IF pc'[g] = "sleep" /\ Wanted(g)' = d
                            THEN Sleeping(d) \cup {g} ELSE Sleeping(d) \ {g}
  <2>1. \A h \in Goroutines \ {g} : h \in Sleeping(d)' <=> h \in Sleeping(d)
    BY Zenon, <1>1 DEF Sleeping
  <2>2. g \in Sleeping(d)' <=> pc'[g] = "sleep" /\ Wanted(g)' = d
    BY Zenon DEF Sleeping
  <2>3. Sleeping(d) \subseteq Goroutines /\ Sleeping(d)' \subseteq Goroutines
    BY Zenon DEF Sleeping
  <2> QED  BY Zenon, <2>1, <2>2, <2>3
<1>3. ASSUME NEW d \in Dir
      PROVE  Unlocking(d)' = IF pc'[g] = SemPc[d]
                             THEN Unlocking(d) \cup {g} ELSE Unlocking(d) \ {g}
  BY Zenon, <1>1 DEF Unlocking
<1>4. Destroying' = IF pc'[g] \in {"destroy", "destroyErr"}
                    THEN Destroying \cup {g} ELSE Destroying \ {g}
  BY Zenon, <1>1 DEF Destroying
<1> QED  BY Zenon, <1>2, <1>3, <1>4

\* The places where a goroutine is counted by SleepersCounted or DestroyedUnused.
Counted == {"sleep", "semr", "semw", "destroy", "destroyErr"}

\* A goroutine that moves between other places changes none of them.
LEMMA Uncounted ==
  ASSUME NEW g \in Goroutines, OthersStay(g), pc[g] \notin Counted, pc'[g] \notin Counted
  PROVE  /\ Destroying' = Destroying
         /\ \A d \in Dir : Sleeping(d)' = Sleeping(d) /\ Unlocking(d)' = Unlocking(d)
<1>1. g \notin Destroying /\ \A d \in Dir : g \notin Sleeping(d) /\ g \notin Unlocking(d)
  BY DEF Destroying, Sleeping, Unlocking, Counted, SemPc, Dir
<1>2. \A d \in Dir : pc'[g] # SemPc[d]
  BY DEF Counted, SemPc, Dir
<1>3. Destroying' = Destroying
  BY <1>1, Movers DEF Counted
<1>4. ASSUME NEW d \in Dir
      PROVE  Sleeping(d)' = Sleeping(d) /\ Unlocking(d)' = Unlocking(d)
  <2>1. Sleeping(d)' = Sleeping(d) \ {g} /\ Unlocking(d)' = Unlocking(d) \ {g}
    BY Zenon, <1>2, Movers DEF Counted
  <2> QED  BY Zenon, <1>1, <2>1
<1> QED  BY Zenon, <1>3, <1>4

\* The sets that are counted are finite.
LEMMA Finite ==
  /\ \A d \in Dir : /\ IsFiniteSet(Sleeping(d)) /\ Cardinality(Sleeping(d)) \in Nat
                     /\ IsFiniteSet(Unlocking(d)) /\ Cardinality(Unlocking(d)) \in Nat
  /\ IsFiniteSet(Held) /\ Cardinality(Held) \in Nat
<1>1. \A S \in SUBSET Goroutines : IsFiniteSet(S) /\ Cardinality(S) \in Nat
  BY Zenon, GoroutinesAssumption, FS_Subset, FS_CardinalityType
<1>2. \A d \in Dir : Sleeping(d) \subseteq Goroutines /\ Unlocking(d) \subseteq Goroutines
  BY Zenon DEF Sleeping, Unlocking
<1>3. IsFiniteSet(Kind)
  <2>1. IsFiniteSet({}) /\ Kind = ((({} \cup {"r"}) \cup {"w"}) \cup {"ref"}) \cup {"close"}
    BY Zenon, FS_EmptySet DEF Kind, Dir
  <2> QED  BY Zenon, <2>1, FS_AddElement
<1>4. IsFiniteSet(Goroutines \X Kind)
  BY Zenon, <1>3, GoroutinesAssumption, FS_Product
<1>5. IsFiniteSet(Held)
  <2>1. Held \subseteq Goroutines \X Kind  BY Zenon DEF Held
  <2> QED  BY Zenon, <2>1, <1>4, FS_Subset
<1> QED  BY Zenon, <1>1, <1>2, <1>5, FS_CardinalityType

\* What SleepersCounted says of the readers or of the writers, in numbers.
LEMMA SleepersAt ==
  ASSUME IInv, NEW d \in Dir
  PROVE  /\ Cardinality(Sleeping(d)) = wait[d] + sema[d] + closeRel[d] + Cardinality(Unlocking(d))
         /\ wait[d] \in Nat /\ sema[d] \in Nat /\ closeRel[d] \in Nat
         /\ Cardinality(Sleeping(d)) \in Nat /\ Cardinality(Unlocking(d)) \in Nat
<1>1. Cardinality(Sleeping(d)) = wait[d] + sema[d] + closeRel[d] + Cardinality(Unlocking(d))
  BY Zenon DEF IInv, SleepersCounted
<1>2. wait[d] \in Nat /\ sema[d] \in Nat /\ closeRel[d] \in Nat
  BY MaxRefAssumption DEF IInv, TypeOK
<1> QED  BY Zenon, <1>1, <1>2, Finite

\* The two places where rwunlock owes a release.
LEMMA SemPcs ==
  /\ \A d \in Dir : SemPc[d] \in {"semr", "semw"}
  /\ \A d, e \in Dir : SemPc[d] = SemPc[e] => d = e
BY DEF SemPc, Dir

\* Taking a reference adds one to the references goroutines hold.
LEMMA TakeHeld ==
  ASSUME TypeOK, RefsCountHolders, NEW g \in Goroutines, NEW k \in Kind,
         k \notin hold[g], Take(g, k)
  PROVE  RefsCountHolders'
<1>1. Held' = Held \cup {<<g, k>>}
  BY DEF Take, Held, TypeOK
<1>2. <<g, k>> \notin Held
  BY Zenon DEF Held
<1>3. Cardinality(Held') = Cardinality(Held) + 1
  BY Zenon, <1>1, <1>2, Finite, FS_AddElement
<1> QED  BY Zenon, <1>3 DEF Take, RefsCountHolders

\* Giving a reference back takes one away.
LEMMA DropHeld ==
  ASSUME TypeOK, RefsCountHolders, NEW g \in Goroutines, NEW k \in Kind,
         k \in hold[g], Drop(g, k)
  PROVE  RefsCountHolders'
<1>1. Held' = Held \ {<<g, k>>}
  BY DEF Drop, Held, TypeOK
<1>2. <<g, k>> \in Held
  BY Zenon DEF Held
<1>3. Cardinality(Held') = Cardinality(Held) - 1
  BY Zenon, <1>1, <1>2, Finite, FS_RemoveElement
<1> QED  BY Zenon, <1>3 DEF Drop, RefsCountHolders

\* A goroutine that holds something is counted.
LEMMA HolderCounted ==
  ASSUME TypeOK, RefsCountHolders, NEW g \in Goroutines, NEW k \in Kind, k \in hold[g]
  PROVE  /\ refs > 0
         /\ refs = 1 => \A h \in Goroutines : hold[h] = IF h = g THEN {k} ELSE {}
<1>1. <<g, k>> \in Held
  BY Zenon DEF Held
<1>2. refs # 0
  BY Zenon, <1>1, Finite, FS_EmptySet DEF RefsCountHolders
<1>3. ASSUME refs = 1
      PROVE  \A h \in Goroutines : hold[h] = IF h = g THEN {k} ELSE {}
  <2>1. PICK x : Held = {x}
    BY Zenon, <1>3, Finite, FS_Singleton DEF RefsCountHolders
  <2>2. \A h \in Goroutines, j \in Kind : j \in hold[h] => h = g /\ j = k
    <3> SUFFICES ASSUME NEW h \in Goroutines, NEW j \in Kind, j \in hold[h]
                 PROVE  h = g /\ j = k
      BY Zenon
    <3>1. <<h, j>> \in Held  BY Zenon DEF Held
    <3>2. <<h, j>> = <<g, k>>  BY Zenon, <3>1, <2>1, <1>1
    <3> QED  BY Zenon, <3>2
  <2> QED  BY Zenon, <2>2 DEF TypeOK
<1> QED  BY <1>2, <1>3 DEF TypeOK

----------------------------------------------------------------------------
(* The inductive invariant is kept by every action. *)

\* Moves that change only g's own place keep the invariant: failed calls,
\* overflow panics, the start of a call, the recheck of tryReadWriteLock.
LEMMA LocalMove ==
  ASSUME IInv, NEW g \in Goroutines, NEW l \in PCs \ (Counted \cup {"inconsistent"}),
         NEW o \in LockOps \cup {"none", "ref", "close"},
         pc[g] \notin Counted,
         pc' = [pc EXCEPT ![g] = l],
         op' = [op EXCEPT ![g] = o],
         UNCHANGED <<closed, locked, refs, wait, sema, hold, post, closeRel, destroyed>>,
         ControlAt(g)'
  PROVE  IInv'
<1>1. TypeOK'
  BY Zenon DEF IInv, TypeOK
<1>2. OthersStay(g)
  BY Zenon DEF OthersStay, IInv, TypeOK
<1>3. Control'
  <2> SUFFICES ASSUME NEW h \in Goroutines \ {g} PROVE ControlAt(h)'
    BY Zenon DEF Control
  <2> QED  BY ZenonT(60), <1>2 DEF IInv, Control, ControlAt, OthersStay
<1>4. pc'[g] = l /\ pc'[g] \notin Counted /\ l # "inconsistent"
  BY Zenon DEF IInv, TypeOK
<1>6. Destroying' = Destroying /\ \A d \in Dir : Sleeping(d)' = Sleeping(d) /\ Unlocking(d)' = Unlocking(d)
  BY Zenon, <1>2, <1>4, Uncounted
<1>7. NeverInconsistent'
  BY Zenon, <1>2, <1>4 DEF IInv, NeverInconsistent, OthersStay
<1>8. RefsCountHolders' /\ LocksExclusive' /\ CloseControl'
  BY Zenon DEF IInv, RefsCountHolders, Held, LocksExclusive, CloseControl
<1>9. DestroyedUnused' /\ SleepersCounted'
  BY Zenon, <1>6 DEF IInv, DestroyedUnused, SleepersCounted
<1> QED  BY Zenon, <1>1, <1>3, <1>7, <1>8, <1>9 DEF IInv

\* The same for a move by Goto.
LEMMA LocalGoto ==
  ASSUME IInv, NEW g \in Goroutines, NEW l \in PCs \ (Counted \cup {"inconsistent"}),
         pc[g] \notin Counted, Goto(g, l),
         UNCHANGED <<state, sema, hold, post, closeRel, destroyed>>,
         ControlAt(g)'
  PROVE  IInv'
<1> DEFINE o == IF l \in Returned THEN "none" ELSE op[g]
<1>1. o \in LockOps \cup {"none", "ref", "close"} /\ op' = [op EXCEPT ![g] = o]
  BY Zenon DEF IInv, TypeOK, Goto
<1> QED  BY Zenon, <1>1, LocalMove DEF Goto, state

\* The moves of the failing paths of incref, increfAndClose and rwlock.
LEMMA LocalActions ==
  ASSUME IInv, NEW g \in Goroutines,
         \/ IncrefFail(g) \/ IncrefOverflow(g) \/ CheckClosing(g) \/ CloseWoken(g)
         \/ LockClosed(g) \/ LockBusy(g) \/ LockOverflow(g)
         \/ \E o \in LockOps : Begin(g, o)
  PROVE  IInv'
<1> USE DEF state
<1>1. CASE IncrefFail(g) \/ IncrefOverflow(g) \/ CheckClosing(g)
  <2>1. PICK l \in {"errClosing", "overflow", "busy"} : Goto(g, l)
    BY Zenon, <1>1 DEF IncrefFail, IncrefOverflow, CheckClosing
  <2>2. /\ UNCHANGED <<state, sema, hold, post, closeRel, destroyed>>
        /\ pc[g] \in Returned \cup {"chk"}
    BY Zenon, <1>1 DEF IncrefFail, IncrefOverflow, CheckClosing
  <2>3. ControlAt(g)'
    BY Zenon, <2>1, <2>2 DEF Goto, IInv, TypeOK, Control, ControlAt, Returned
  <2> QED  BY Zenon, <2>1, <2>2, <2>3, LocalGoto DEF Counted, PCs, Returned
<1>2. CASE CloseWoken(g)
  <2>1. ControlAt(g)'
    BY Zenon, <1>2 DEF CloseWoken, Goto, IInv, TypeOK, Control, ControlAt, Returned
  <2> QED  BY Zenon, <1>2, <2>1, LocalGoto DEF CloseWoken, Counted, PCs
<1>3. CASE LockClosed(g) \/ LockBusy(g)
  <2>1. PICK l \in {"backout", "chk", "errClosing"} :
           Goto(g, l) /\ (l = "backout" <=> hold[g] # {})
    BY Zenon, <1>3 DEF LockClosed, LockBusy, LockFails, FailReturn
  <2>2. pc[g] = "lock" /\ UNCHANGED <<state, sema, hold, post, closeRel, destroyed>>
    BY Zenon, <1>3 DEF LockClosed, LockBusy
  <2>3. ControlAt(g)'
    BY Zenon, <2>1, <2>2 DEF Goto, IInv, TypeOK, Control, ControlAt, Returned
  <2> QED  BY Zenon, <2>1, <2>2, <2>3, LocalGoto DEF Counted, PCs, Returned
<1>4. CASE LockOverflow(g)
  <2>1. ControlAt(g)'
    BY Zenon, <1>4 DEF LockOverflow, Goto, IInv, TypeOK, Control, ControlAt, Returned
  <2> QED  BY Zenon, <1>4, <2>1, LocalGoto DEF LockOverflow, Counted, PCs
<1>5. CASE \E o \in LockOps : Begin(g, o)
  <2>1. PICK o \in LockOps : Begin(g, o)
    BY Zenon, <1>5
  <2>2. ControlAt(g)'
    BY Zenon, <2>1 DEF Begin, IInv, TypeOK, Control, ControlAt, Returned
  <2> QED  BY Zenon, <2>1, <2>2, LocalMove DEF Begin, Counted, PCs, Returned
<1> QED  BY Zenon, <1>1, <1>2, <1>3, <1>4, <1>5

\* incref: one more holder.
LEMMA IncrefInv ==
  ASSUME IInv, NEW g \in Goroutines, Incref(g)
  PROVE  IInv'
<1>1. TypeOK'
  BY MaxRefAssumption DEF IInv, TypeOK, Incref, Take, Kind, PCs
<1>2. OthersStay(g) /\ pc'[g] = "held" /\ hold[g] = {}
  BY Zenon DEF OthersStay, IInv, TypeOK, Incref, Take, Control, ControlAt
<1>3. Control'
  <2>1. ControlAt(g)'
    BY Zenon DEF Incref, Take, IInv, TypeOK, Control, ControlAt, Returned
  <2>2. \A h \in Goroutines \ {g} : ControlAt(h)'
    BY <1>2 DEF IInv, Control, ControlAt, OthersStay
  <2> QED  BY Zenon, <2>1, <2>2 DEF Control
<1>5. Destroying' = Destroying /\ \A d \in Dir : Sleeping(d)' = Sleeping(d) /\ Unlocking(d)' = Unlocking(d)
  BY Zenon, <1>2, Uncounted DEF Incref, Returned, Counted
<1>6. NeverInconsistent' /\ CloseControl' /\ SleepersCounted'
  BY Zenon, <1>2, <1>5 DEF IInv, NeverInconsistent, OthersStay, CloseControl, SleepersCounted, Incref
<1>7. RefsCountHolders'
  BY Zenon, <1>2, TakeHeld DEF IInv, Incref, Kind
<1>8. LocksExclusive'
  <2>1. \A d \in Dir, h \in Goroutines : d \in hold'[h] <=> d \in hold[h]
    BY Zenon, <1>2 DEF IInv, TypeOK, Incref, Take, Dir
  <2> QED  BY Zenon, <2>1 DEF IInv, LocksExclusive, Incref
<1>9. DestroyedUnused'
  BY Zenon, <1>5 DEF IInv, DestroyedUnused, Incref
<1> QED  BY Zenon, <1>1, <1>3, <1>6, <1>7, <1>8, <1>9 DEF IInv

\* increfAndClose: the waiters become pending releases, all at once.
LEMMA IncrefAndCloseInv ==
  ASSUME IInv, NEW g \in Goroutines, IncrefAndClose(g)
  PROVE  IInv'
<1>1. TypeOK'
  BY MaxRefAssumption DEF IInv, TypeOK, IncrefAndClose, Take, Kind, PCs
<1>2. OthersStay(g) /\ pc'[g] = "wake" /\ hold[g] = {}
  BY Zenon DEF OthersStay, IInv, TypeOK, IncrefAndClose, Take, Control, ControlAt
<1>3. Control'
  <2>1. ControlAt(g)'
    BY Zenon DEF IncrefAndClose, Take, IInv, TypeOK, Control, ControlAt, Returned
  <2>2. \A h \in Goroutines \ {g} : ControlAt(h)'
    BY <1>2 DEF IInv, Control, ControlAt, OthersStay
  <2> QED  BY Zenon, <2>1, <2>2 DEF Control
<1>5. Destroying' = Destroying /\ \A d \in Dir : Sleeping(d)' = Sleeping(d) /\ Unlocking(d)' = Unlocking(d)
  BY Zenon, <1>2, Uncounted DEF IncrefAndClose, Returned, Counted
<1>6. NeverInconsistent' /\ CloseControl'
  BY Zenon, <1>2 DEF IInv, NeverInconsistent, OthersStay, CloseControl, IncrefAndClose
<1>7. SleepersCounted'
  <2> SUFFICES ASSUME NEW d \in Dir
               PROVE  Cardinality(Sleeping(d)') = wait'[d] + sema'[d] + closeRel'[d] + Cardinality(Unlocking(d)')
    BY Zenon DEF SleepersCounted
  <2>1. closeRel[d] = 0 /\ wait'[d] = 0 /\ closeRel'[d] = wait[d] /\ sema'[d] = sema[d]
    BY Zenon DEF IncrefAndClose, IInv, CloseControl
  <2> QED  BY <1>5, <2>1, SleepersAt
<1>8. RefsCountHolders'
  BY Zenon, <1>2, TakeHeld DEF IInv, IncrefAndClose, Kind
<1>9. LocksExclusive'
  <2>1. \A d \in Dir, h \in Goroutines : d \in hold'[h] <=> d \in hold[h]
    BY Zenon, <1>2 DEF IInv, TypeOK, IncrefAndClose, Take, Dir
  <2> QED  BY Zenon, <2>1 DEF IInv, LocksExclusive, IncrefAndClose
<1>10. DestroyedUnused'
  BY Zenon, <1>5 DEF IInv, DestroyedUnused, IncrefAndClose
<1> QED  BY Zenon, <1>1, <1>3, <1>6, <1>7, <1>8, <1>9, <1>10 DEF IInv

\* A pending release of increfAndClose is done.
LEMMA CloseWakeInv ==
  ASSUME IInv, NEW g \in Goroutines, CloseWake(g)
  PROVE  IInv'
<1>1. PICK e \in Dir :
         /\ closeRel[e] > 0
         /\ closeRel' = [closeRel EXCEPT ![e] = @ - 1]
         /\ sema' = [sema EXCEPT ![e] = @ + 1]
  BY Zenon DEF CloseWake
<1>2. TypeOK'
  BY <1>1 DEF IInv, TypeOK, CloseWake, state
<1>3. Control' /\ RefsCountHolders' /\ LocksExclusive' /\ DestroyedUnused' /\ NeverInconsistent'
  BY DEF IInv, Control, ControlAt, RefsCountHolders, Held, LocksExclusive, DestroyedUnused,
         Destroying, NeverInconsistent, CloseWake, state
<1>4. CloseControl'
  BY <1>1 DEF IInv, CloseControl, CloseWake, state, TypeOK
<1>5. SleepersCounted'
  <2> SUFFICES ASSUME NEW d \in Dir
               PROVE  Cardinality(Sleeping(d)') = wait'[d] + sema'[d] + closeRel'[d] + Cardinality(Unlocking(d)')
    BY Zenon DEF SleepersCounted
  <2>1. Sleeping(d)' = Sleeping(d) /\ Unlocking(d)' = Unlocking(d)
    BY Zenon DEF Sleeping, Unlocking, Wanted, CloseWake, state
  <2>2. sema'[d] + closeRel'[d] = sema[d] + closeRel[d] /\ wait'[d] = wait[d]
    BY <1>1 DEF IInv, TypeOK, CloseWake, state
  <2>3. wait[d] \in Nat /\ sema[d] \in Nat /\ closeRel[d] \in Nat /\ sema'[d] \in Nat /\ closeRel'[d] \in Nat
    BY <1>2 DEF IInv, TypeOK
  <2> QED  BY <2>1, <2>2, <2>3, Finite DEF IInv, SleepersCounted
<1> QED  BY Zenon, <1>2, <1>3, <1>4, <1>5 DEF IInv

----------------------------------------------------------------------------
(* rwlock.                                                                 *)

\* rwlock takes a free lock: one more holder, and its only one.
LEMMA LockFreeInv ==
  ASSUME IInv, NEW g \in Goroutines, LockFree(g)
  PROVE  IInv'
<1> DEFINE e == Wanted(g)
<1>1. e \in Dir /\ e \notin hold[g] /\ e \in Kind
  BY Zenon DEF Wanted, Dir, Kind, LockFree, IInv, Control, ControlAt
<1>2. PICK l \in {"lock", "held"} : Goto(g, l) /\ (l = "lock" <=> op[g] \in {"rw", "tryrw"} /\ e = "r")
  BY Zenon DEF LockFree
<1>3. pc' = [pc EXCEPT ![g] = l] /\ op' = op /\ hold' = [hold EXCEPT ![g] = @ \cup {e}] /\ post' = post
  BY Zenon, <1>2 DEF LockFree, Goto, Take, Returned
<1>4. TypeOK'
  BY <1>1, <1>3, MaxRefAssumption DEF IInv, TypeOK, LockFree, Take, PCs
<1>5. OthersStay(g) /\ pc'[g] = l /\ hold'[g] = hold[g] \cup {e} /\ op'[g] = op[g]
  BY Zenon, <1>3 DEF OthersStay, IInv, TypeOK
<1>6. Control'
  <2>1. ControlAt(g)'
    BY Zenon, <1>1, <1>2, <1>5 DEF LockFree, IInv, Control, ControlAt, Returned, Wanted, Dir, LockOps
  <2>2. \A h \in Goroutines \ {g} : ControlAt(h)'
    BY <1>5 DEF IInv, Control, ControlAt, OthersStay
  <2> QED  BY Zenon, <2>1, <2>2 DEF Control
<1>8. Destroying' = Destroying /\ \A d \in Dir : Sleeping(d)' = Sleeping(d) /\ Unlocking(d)' = Unlocking(d)
  <2>1. pc[g] \notin Counted /\ pc'[g] \notin Counted
    BY Zenon, <1>5 DEF LockFree, Counted
  <2> QED  BY Zenon, <1>5, <2>1, Uncounted
<1>9. NeverInconsistent' /\ CloseControl' /\ SleepersCounted'
  BY Zenon, <1>5, <1>8 DEF IInv, NeverInconsistent, OthersStay, CloseControl, SleepersCounted, LockFree
<1>10. RefsCountHolders'
  BY Zenon, <1>1, TakeHeld DEF IInv, LockFree
<1>11. LocksExclusive'
  <2>1. \A h \in Goroutines, d \in Dir : d \in hold'[h] <=> d \in hold[h] \/ (h = g /\ d = e)
    BY Zenon, <1>3 DEF IInv, TypeOK
  <2>2. locked' = locked \cup {e} /\ e \notin locked
    BY Zenon DEF LockFree
  <2> QED  BY <1>1, <2>1, <2>2 DEF IInv, LocksExclusive
<1>12. DestroyedUnused'
  BY Zenon, <1>8 DEF IInv, DestroyedUnused, LockFree
<1> QED  BY Zenon, <1>4, <1>6, <1>9, <1>10, <1>11, <1>12 DEF IInv

\* Wanted is a direction, and op, hold determine it.
LEMMA WantedDir == ASSUME NEW g \in Goroutines PROVE Wanted(g) \in Dir
BY Zenon DEF Wanted, Dir

\* rwlock queues: one more waiter, one more sleeper.
LEMMA LockWaitInv ==
  ASSUME IInv, NEW g \in Goroutines, LockWait(g)
  PROVE  IInv'
<1>1. /\ pc' = [pc EXCEPT ![g] = "sleep"]
      /\ UNCHANGED <<op, closed, locked, refs, sema, hold, post, closeRel, destroyed>>
  BY Zenon DEF LockWait, Goto, Returned
<1>2. TypeOK'
  BY <1>1, WantedDir, MaxRefAssumption DEF IInv, TypeOK, LockWait, PCs
<1>3. OthersStay(g) /\ pc'[g] = "sleep" /\ pc[g] = "lock" /\ Wanted(g)' = Wanted(g)
  BY Zenon, <1>1 DEF OthersStay, IInv, TypeOK, LockWait, Wanted
<1>4. Control'
  <2>1. ControlAt(g)'
    BY Zenon, <1>1, <1>3 DEF IInv, Control, ControlAt, Returned
  <2>2. \A h \in Goroutines \ {g} : ControlAt(h)'
    BY <1>3 DEF IInv, Control, ControlAt, OthersStay
  <2> QED  BY Zenon, <2>1, <2>2 DEF Control
<1>5. Destroying' = Destroying /\ \A d \in Dir : Unlocking(d)' = Unlocking(d)
  BY <1>1, <1>3 DEF Destroying, Unlocking, OthersStay, SemPc, Dir
<1>6. \A d \in Dir : Sleeping(d)' = IF Wanted(g) = d THEN Sleeping(d) \cup {g} ELSE Sleeping(d)
  <2>1. \A d \in Dir : g \notin Sleeping(d)
    BY Zenon, <1>3 DEF Sleeping
  <2> QED  BY <1>3, <2>1, Movers
<1>7. SleepersCounted'
  <2> SUFFICES ASSUME NEW d \in Dir
               PROVE  Cardinality(Sleeping(d)') = wait'[d] + sema'[d] + closeRel'[d] + Cardinality(Unlocking(d)')
    BY Zenon DEF SleepersCounted
  <2>1. Cardinality(Sleeping(d)') = IF Wanted(g) = d THEN Cardinality(Sleeping(d)) + 1 ELSE Cardinality(Sleeping(d))
    <3>1. g \notin Sleeping(d)  BY Zenon, <1>3 DEF Sleeping
    <3> QED  BY SMTT(30), <1>6, <3>1, Finite, FS_AddElement
  <2>2. wait'[d] = IF Wanted(g) = d THEN wait[d] + 1 ELSE wait[d]
    BY Zenon, WantedDir DEF LockWait, IInv, TypeOK
  <2>3. sema'[d] = sema[d] /\ closeRel'[d] = closeRel[d] /\ Unlocking(d)' = Unlocking(d)
    BY Zenon, <1>1, <1>5
  <2> QED  BY <2>1, <2>2, <2>3, SleepersAt
<1>8. RefsCountHolders' /\ LocksExclusive' /\ DestroyedUnused'
  BY Zenon, <1>1, <1>5 DEF IInv, RefsCountHolders, Held, LocksExclusive, DestroyedUnused
<1>9. CloseControl' /\ NeverInconsistent'
  BY <1>1, <1>3 DEF IInv, CloseControl, NeverInconsistent, OthersStay, LockWait
<1> QED  BY Zenon, <1>2, <1>4, <1>7, <1>8, <1>9 DEF IInv

\* A semaphore release wakes one sleeper.
LEMMA SemacquireInv ==
  ASSUME IInv, NEW g \in Goroutines, Semacquire(g)
  PROVE  IInv'
<1>1. /\ pc' = [pc EXCEPT ![g] = "lock"]
      /\ UNCHANGED <<op, closed, locked, refs, wait, hold, post, closeRel, destroyed>>
  BY Zenon DEF Semacquire, Goto, Returned, state
<1>2. TypeOK'
  BY <1>1, WantedDir DEF IInv, TypeOK, Semacquire, PCs
<1>3. OthersStay(g) /\ pc'[g] = "lock" /\ pc[g] = "sleep"
  BY Zenon, <1>1 DEF OthersStay, IInv, TypeOK, Semacquire
<1>4. Control'
  <2>1. ControlAt(g)'
    BY Zenon, <1>1, <1>3 DEF IInv, Control, ControlAt, Returned
  <2>2. \A h \in Goroutines \ {g} : ControlAt(h)'
    BY <1>3 DEF IInv, Control, ControlAt, OthersStay
  <2> QED  BY Zenon, <2>1, <2>2 DEF Control
<1>5. Destroying' = Destroying /\ \A d \in Dir : Unlocking(d)' = Unlocking(d)
  BY <1>1, <1>3 DEF Destroying, Unlocking, OthersStay, SemPc, Dir
<1>6. SleepersCounted'
  <2> SUFFICES ASSUME NEW d \in Dir
               PROVE  Cardinality(Sleeping(d)') = wait'[d] + sema'[d] + closeRel'[d] + Cardinality(Unlocking(d)')
    BY Zenon DEF SleepersCounted
  <2>1. Cardinality(Sleeping(d)') = IF Wanted(g) = d THEN Cardinality(Sleeping(d)) - 1 ELSE Cardinality(Sleeping(d))
    <3>1. g \in Sleeping(d) <=> Wanted(g) = d
      BY Zenon, <1>3 DEF Sleeping
    <3>2. Sleeping(d)' = Sleeping(d) \ {g}
      BY Zenon, <1>3, Movers
    <3> QED  BY Zenon, <3>1, <3>2, Finite, FS_RemoveElement
  <2>2. sema'[d] = IF Wanted(g) = d THEN sema[d] - 1 ELSE sema[d]
    BY Zenon, WantedDir DEF Semacquire, IInv, TypeOK
  <2>3. wait'[d] = wait[d] /\ closeRel'[d] = closeRel[d] /\ Unlocking(d)' = Unlocking(d)
    BY Zenon, <1>1, <1>5
  <2> QED  BY <2>1, <2>2, <2>3, SleepersAt
<1>7. RefsCountHolders' /\ LocksExclusive' /\ DestroyedUnused'
  BY Zenon, <1>1, <1>5 DEF IInv, RefsCountHolders, Held, LocksExclusive, DestroyedUnused
<1>8. CloseControl' /\ NeverInconsistent'
  BY Zenon, <1>1, <1>3 DEF IInv, CloseControl, NeverInconsistent, OthersStay
<1> QED  BY Zenon, <1>2, <1>4, <1>6, <1>7, <1>8 DEF IInv

----------------------------------------------------------------------------
\* decref: a holder leaves, and is the one to destroy if it was the last.
LEMMA DecrefInv ==
  ASSUME IInv, NEW g \in Goroutines, Decref(g)
  PROVE  IInv'
<1> DEFINE k == op[g]
<1>1. k \in {"ref", "close"} /\ k \in Kind /\ hold[g] = {k} /\ pc[g] = "held"
  BY Zenon DEF Decref, IInv, Control, ControlAt, Kind
<1>2. refs > 0 /\ (refs = 1 => \A h \in Goroutines : hold[h] = IF h = g THEN {k} ELSE {})
  BY Zenon, <1>1, HolderCounted DEF IInv
<1>3. Drop(g, k) /\ refs' = refs - 1 /\ hold' = [hold EXCEPT ![g] = @ \ {k}]
  BY <1>2 DEF Decref, Drop
<1>4. PICK l \in {"nil", "destroy"} : Goto(g, l) /\ (l = "destroy" <=> closed /\ refs' = 0)
  BY <1>2 DEF Decref, Last
<1>5. TypeOK'
  <2>1. UNCHANGED <<closed, locked, wait, sema, post, closeRel, destroyed>>
    BY Zenon DEF Decref
  <2>2. refs' \in 0..MaxRef
    BY <1>2, <1>3, MaxRefAssumption DEF IInv, TypeOK
  <2>3. hold' \in [Goroutines -> SUBSET Kind]
    BY Zenon, <1>3 DEF IInv, TypeOK
  <2>4. pc' \in [Goroutines -> PCs] /\ op' \in [Goroutines -> LockOps \cup {"none", "ref", "close"}]
    BY Zenon, <1>4 DEF Goto, IInv, TypeOK, PCs, Returned
  <2> QED  BY Zenon, <2>1, <2>2, <2>3, <2>4 DEF IInv, TypeOK
<1>6. OthersStay(g) /\ pc'[g] = l /\ hold'[g] = {}
  BY Zenon, <1>1, <1>3, <1>4 DEF OthersStay, IInv, TypeOK, Decref, Goto
<1>7. Control'
  <2>1. ControlAt(g)'
    BY Zenon, <1>6 DEF ControlAt
  <2>2. \A h \in Goroutines \ {g} : ControlAt(h)'
    BY <1>6 DEF IInv, Control, ControlAt, OthersStay
  <2> QED  BY Zenon, <2>1, <2>2 DEF Control
<1>8. /\ \A d \in Dir : Sleeping(d)' = Sleeping(d) /\ Unlocking(d)' = Unlocking(d)
      /\ Destroying' = IF l = "destroy" THEN Destroying \cup {g} ELSE Destroying
  <2>1. g \notin Destroying /\ \A d \in Dir : g \notin Sleeping(d) /\ g \notin Unlocking(d) /\ l # SemPc[d]
    BY <1>1 DEF Destroying, Sleeping, Unlocking, SemPc, Dir
  <2>2. Destroying' = IF l = "destroy" THEN Destroying \cup {g} ELSE Destroying
    BY <1>6, <2>1, Movers
  <2>3. ASSUME NEW d \in Dir PROVE Sleeping(d)' = Sleeping(d) /\ Unlocking(d)' = Unlocking(d)
    <3>1. Sleeping(d)' = Sleeping(d) \ {g} /\ Unlocking(d)' = Unlocking(d) \ {g}
      BY Zenon, <1>6, <2>1, Movers
    <3> QED  BY Zenon, <2>1, <3>1
  <2> QED  BY Zenon, <2>2, <2>3
<1>9. NeverInconsistent' /\ CloseControl' /\ SleepersCounted'
  BY Zenon, <1>6, <1>8 DEF IInv, NeverInconsistent, OthersStay, CloseControl, SleepersCounted, Decref
<1>10. RefsCountHolders'
  BY Zenon, <1>1, <1>3, DropHeld DEF IInv
<1>11. LocksExclusive'
  <2>1. \A d \in Dir, h \in Goroutines : d \in hold'[h] <=> d \in hold[h]
    BY Zenon, <1>1, <1>3 DEF IInv, TypeOK, Dir
  <2> QED  BY Zenon, <2>1 DEF IInv, LocksExclusive, Decref
<1>12. DestroyedUnused'
  <2>1. Destroying = {} /\ ~(destroyed > 0)
    BY Zenon, <1>1 DEF IInv, DestroyedUnused
  <2>2. l = "destroy" => closed' /\ \A h \in Goroutines : hold'[h] = {}
    BY <1>2, <1>3, <1>4 DEF IInv, TypeOK, Decref
  <2> QED  BY Zenon, <2>1, <2>2, <1>8 DEF DestroyedUnused, Decref
<1> QED  BY Zenon, <1>5, <1>7, <1>9, <1>10, <1>11, <1>12 DEF IInv

\* Where rwunlock leads: on to the second lock, to destroy if this was the last
\* reference of a closed FD, or back to the caller.
LEMMA AfterUnlockCases ==
  ASSUME IInv, NEW g \in Goroutines, pc[g] \in {"held", "backout"}, op[g] \in LockOps
  PROVE  /\ Dropped(g) \in hold[g] /\ Dropped(g) \in Dir
         /\ \/ /\ AfterUnlock(g) = "held" /\ op[g] \in {"rw", "tryrw"}
               /\ hold[g] \ {Dropped(g)} = {"w"}
            \/ /\ AfterUnlock(g) \in {"destroy", "destroyErr"} /\ Last
               /\ hold[g] \ {Dropped(g)} = {}
            \/ /\ AfterUnlock(g) \in {"nil", "chk", "errClosing"} /\ ~Last
               /\ hold[g] \ {Dropped(g)} = {}
<1>1. \/ pc[g] = "backout" /\ hold[g] = {"r"} /\ op[g] \in {"rw", "tryrw"}
      \/ pc[g] = "held" /\ hold[g] = Dir /\ op[g] \in {"rw", "tryrw"}
      \/ pc[g] = "held" /\ hold[g] = {"r"}
      \/ pc[g] = "held" /\ hold[g] = {"w"}
  BY Zenon DEF IInv, Control, ControlAt, LockOps
<1>2. Dropped(g) \in hold[g] /\ Dropped(g) \in Dir
  BY Zenon, <1>1 DEF Dropped, Dir
<1>3. CASE pc[g] = "backout"
  <2>1. AfterUnlock(g) = IF Last THEN "destroyErr" ELSE FailReturn(g)
    BY Zenon, <1>3 DEF AfterUnlock
  <2>2. hold[g] \ {Dropped(g)} = {}
    BY Zenon, <1>1, <1>3 DEF Dropped
  <2> QED  BY Zenon, <1>2, <2>1, <2>2 DEF FailReturn
<1>4. CASE pc[g] = "held" /\ hold[g] = Dir
  <2>1. AfterUnlock(g) = "held"
    BY Zenon, <1>4 DEF AfterUnlock
  <2>2. hold[g] \ {Dropped(g)} = {"w"} /\ op[g] \in {"rw", "tryrw"}
    BY <1>1, <1>4 DEF Dropped, Dir
  <2> QED  BY Zenon, <1>2, <2>1, <2>2
<1>5. CASE pc[g] = "held" /\ hold[g] # Dir
  <2>1. AfterUnlock(g) = IF Last THEN "destroy" ELSE "nil"
    BY Zenon, <1>5 DEF AfterUnlock
  <2>2. hold[g] \ {Dropped(g)} = {}
    BY Zenon, <1>1, <1>5 DEF Dropped, Dir
  <2> QED  BY Zenon, <1>2, <2>1, <2>2
<1> QED  BY Zenon, <1>3, <1>4, <1>5

\* rwunlock: a holder leaves, and a waiter becomes a pending release.
LEMMA RwunlockInv ==
  ASSUME IInv, NEW g \in Goroutines, Rwunlock(g)
  PROVE  IInv'
<1> DEFINE e == Dropped(g)
           l == IF wait[e] > 0 THEN SemPc[e] ELSE AfterUnlock(g)
<1>1. pc[g] \in {"held", "backout"} /\ op[g] \in LockOps
  BY Zenon DEF Rwunlock
<1>2. e \in hold[g] /\ e \in Dir /\ e \in Kind
  BY Zenon, <1>1, AfterUnlockCases DEF Kind
<1>3. e \in locked /\ refs > 0 /\ (refs = 1 => \A h \in Goroutines : hold[h] = IF h = g THEN {e} ELSE {})
  BY Zenon, <1>2, HolderCounted DEF IInv, LocksExclusive
<1>4. /\ locked' = locked \ {e} /\ Drop(g, e) /\ Goto(g, l)
      /\ wait' = IF wait[e] > 0 THEN [wait EXCEPT ![e] = @ - 1] ELSE wait
      /\ post' = IF wait[e] > 0 THEN [post EXCEPT ![g] = AfterUnlock(g)] ELSE post
      /\ UNCHANGED <<closed, sema, closeRel, destroyed>>
  BY <1>2, <1>3 DEF Rwunlock
<1>5. /\ AfterUnlock(g) \in PCs \ {"inconsistent", "sleep", "semr", "semw"}
      /\ SemPc[e] \in {"semr", "semw"} /\ l \in PCs \ {"inconsistent", "sleep"}
  BY <1>1, <1>2, AfterUnlockCases DEF PCs, Returned, SemPc, Dir
<1>6. TypeOK'
  <2>1. refs' \in 0..MaxRef /\ hold' \in [Goroutines -> SUBSET Kind]
    BY <1>3, <1>4, MaxRefAssumption DEF Drop, IInv, TypeOK
  <2>2. wait' \in [Dir -> 0..MaxRef]
    BY <1>2, <1>4, MaxRefAssumption DEF IInv, TypeOK
  <2>3. post' \in [Goroutines -> PCs]
    BY Zenon, <1>4, <1>5 DEF IInv, TypeOK
  <2>4. pc' \in [Goroutines -> PCs] /\ op' \in [Goroutines -> LockOps \cup {"none", "ref", "close"}]
    BY Zenon, <1>4, <1>5 DEF Goto, IInv, TypeOK
  <2>5. locked' \subseteq Dir
    BY Zenon, <1>4 DEF IInv, TypeOK
  <2> QED  BY Zenon, <1>4, <2>1, <2>2, <2>3, <2>4, <2>5 DEF IInv, TypeOK
<1>7. /\ OthersStay(g) /\ pc'[g] = l /\ hold'[g] = hold[g] \ {e}
      /\ post'[g] = IF wait[e] > 0 THEN AfterUnlock(g) ELSE post[g]
      /\ op'[g] = IF l \in Returned THEN "none" ELSE op[g]
  BY Zenon, <1>4 DEF OthersStay, IInv, TypeOK, Goto, Drop
<1>8. wait[e] > 0 => ~Last
  BY <1>2 DEF IInv, CloseControl, Last
<1>9. Control'
  <2>1. ControlAt(g)'
    <3>1. CASE wait[e] > 0
      <4>1. pc'[g] \in {"semr", "semw"} /\ op'[g] = op[g] /\ post'[g] = AfterUnlock(g)
        BY Zenon, <3>1, <1>5, <1>7 DEF Returned
      <4>2. \/ post'[g] \in {"nil", "chk", "errClosing"} /\ hold'[g] = {}
            \/ post'[g] = "held" /\ op[g] \in {"rw", "tryrw"} /\ hold'[g] = {"w"}
        BY Zenon, <3>1, <4>1, <1>1, <1>7, <1>8, AfterUnlockCases
      <4> QED  BY Zenon, <4>1, <4>2, <1>1 DEF ControlAt, Returned
    <3>2. CASE ~(wait[e] > 0)
      <4>1. pc'[g] = AfterUnlock(g)
        BY Zenon, <3>2, <1>7
      <4>2. \/ pc'[g] = "held" /\ op[g] \in {"rw", "tryrw"} /\ hold'[g] = {"w"}
            \/ pc'[g] \in {"destroy", "destroyErr", "nil", "chk", "errClosing"} /\ hold'[g] = {}
        BY Zenon, <4>1, <1>1, <1>7, AfterUnlockCases
      <4>3. pc'[g] = "held" => op'[g] = op[g]
        BY Zenon, <1>7 DEF Returned
      <4> QED  BY Zenon, <4>2, <4>3 DEF ControlAt, Returned
    <3> QED  BY Zenon, <3>1, <3>2
  <2>2. \A h \in Goroutines \ {g} : ControlAt(h)'
    BY <1>7 DEF IInv, Control, ControlAt, OthersStay
  <2> QED  BY Zenon, <2>1, <2>2 DEF Control
<1>10. g \notin Destroying /\ \A d \in Dir : g \notin Sleeping(d) /\ g \notin Unlocking(d)
  BY <1>1 DEF Destroying, Sleeping, Unlocking, SemPc, Dir
<1>11. SleepersCounted'
  <2> SUFFICES ASSUME NEW d \in Dir
               PROVE  Cardinality(Sleeping(d)') = wait'[d] + sema'[d] + closeRel'[d] + Cardinality(Unlocking(d)')
    BY Zenon DEF SleepersCounted
  <2>1. Sleeping(d)' = Sleeping(d)
    <3>1. pc'[g] # "sleep"  BY Zenon, <1>5, <1>7
    <3>2. Sleeping(d)' = Sleeping(d) \ {g}  BY Zenon, <3>1, <1>7, Movers
    <3> QED  BY Zenon, <3>2, <1>10
  <2>2. SemPc[d] = SemPc[e] <=> d = e
    BY <1>2 DEF SemPc, Dir
  <2>3. AfterUnlock(g) # SemPc[d]
    BY <1>5 DEF SemPc, Dir
  <2>4. Cardinality(Unlocking(d)') = IF wait[e] > 0 /\ d = e THEN Cardinality(Unlocking(d)) + 1 ELSE Cardinality(Unlocking(d))
    <3>1. Unlocking(d)' = IF wait[e] > 0 /\ d = e THEN Unlocking(d) \cup {g} ELSE Unlocking(d) \ {g}
      BY <1>7, <2>2, <2>3, Movers
    <3>2. Unlocking(d) \ {g} = Unlocking(d)
      BY Zenon, <1>10
    <3> QED  BY Zenon, <3>1, <3>2, <1>10, Finite, FS_AddElement
  <2>5. wait'[d] = IF wait[e] > 0 /\ d = e THEN wait[d] - 1 ELSE wait[d]
    BY Zenon, <1>2, <1>4 DEF IInv, TypeOK
  <2>6. sema'[d] = sema[d] /\ closeRel'[d] = closeRel[d]
    BY Zenon, <1>4
  <2> QED  BY <2>1, <2>4, <2>5, <2>6, SleepersAt
<1>12. RefsCountHolders'
  BY Zenon, <1>2, <1>4, DropHeld DEF IInv
<1>13. LocksExclusive'
  <2>1. \A h \in Goroutines, d \in Dir : d \in hold'[h] <=> d \in hold[h] /\ ~(h = g /\ d = e)
    BY Zenon, <1>4 DEF Drop, IInv, TypeOK
  <2> QED  BY <1>2, <1>4, <2>1 DEF IInv, LocksExclusive
<1>14. DestroyedUnused'
  <2>1. Destroying = {} /\ ~(destroyed > 0)
    BY Zenon, <1>2 DEF IInv, DestroyedUnused
  <2>2. l \in {"destroy", "destroyErr"} => closed' /\ \A h \in Goroutines : hold'[h] = {}
    <3> SUFFICES ASSUME l \in {"destroy", "destroyErr"} PROVE closed' /\ \A h \in Goroutines : hold'[h] = {}
      BY Zenon
    <3>1. Last
      BY Zenon, <1>1, <1>5, AfterUnlockCases
    <3>2. refs = 1 /\ closed
      BY <3>1, <1>4 DEF Last, Drop, IInv, TypeOK
    <3> QED  BY Zenon, <3>2, <1>3, <1>4 DEF Drop, IInv, TypeOK
  <2>3. Destroying' = IF l \in {"destroy", "destroyErr"} THEN {g} ELSE {}
    BY Zenon, <1>7, <2>1, Movers
  <2> QED  BY Zenon, <1>4, <2>1, <2>2, <2>3 DEF DestroyedUnused
<1>15. NeverInconsistent'
  BY Zenon, <1>5, <1>7 DEF IInv, NeverInconsistent, OthersStay
<1>16. CloseControl'
  BY <1>2, <1>4 DEF IInv, CloseControl, TypeOK
<1> QED  BY Zenon, <1>6, <1>9, <1>11, <1>12, <1>13, <1>14, <1>15, <1>16 DEF IInv

\* The release rwunlock owed is done.
LEMMA SemreleaseInv ==
  ASSUME IInv, NEW g \in Goroutines, Semrelease(g)
  PROVE  IInv'
<1>1. PICK e \in Dir : /\ pc[g] = SemPc[e] /\ Goto(g, post[g])
                       /\ sema' = [sema EXCEPT ![e] = @ + 1]
                       /\ post' = [post EXCEPT ![g] = "nil"]
                       /\ UNCHANGED <<closed, locked, refs, wait, hold, closeRel, destroyed>>
  BY Zenon DEF Semrelease, state
<1>2. pc[g] \in {"semr", "semw"}
  <2>1. pc[g] = SemPc[e]  BY Zenon, <1>1
  <2> QED  BY Zenon, <2>1, SemPcs
<1>3. /\ op[g] \in LockOps
      /\ \/ post[g] \in Returned \cup {"chk"} /\ hold[g] = {}
         \/ post[g] = "held" /\ op[g] \in {"rw", "tryrw"} /\ hold[g] = {"w"}
  BY Zenon, <1>2 DEF IInv, Control, ControlAt
<1>4. TypeOK'
  <2>1. sema' \in [Dir -> Nat]
    BY <1>1 DEF IInv, TypeOK
  <2>2. pc' \in [Goroutines -> PCs] /\ post' \in [Goroutines -> PCs]
    BY Zenon, <1>1 DEF IInv, TypeOK, Goto, PCs, Returned
  <2>3. op' \in [Goroutines -> LockOps \cup {"none", "ref", "close"}]
    BY Zenon, <1>1 DEF IInv, TypeOK, Goto
  <2> QED  BY Zenon, <1>1, <2>1, <2>2, <2>3 DEF IInv, TypeOK
<1>5. /\ OthersStay(g) /\ pc'[g] = post[g] /\ hold'[g] = hold[g]
      /\ op'[g] = IF post[g] \in Returned THEN "none" ELSE op[g]
  BY Zenon, <1>1 DEF OthersStay, IInv, TypeOK, Goto
<1>6. pc'[g] \notin {"sleep", "semr", "semw", "destroy", "destroyErr", "inconsistent"}
  BY Zenon, <1>3, <1>5 DEF Returned
<1>7. Control'
  <2>1. ControlAt(g)'
    BY Zenon, <1>3, <1>5 DEF ControlAt, Returned
  <2>2. \A h \in Goroutines \ {g} : ControlAt(h)'
    BY <1>5 DEF IInv, Control, ControlAt, OthersStay
  <2> QED  BY Zenon, <2>1, <2>2 DEF Control
<1>8. SleepersCounted'
  <2> SUFFICES ASSUME NEW d \in Dir
               PROVE  Cardinality(Sleeping(d)') = wait'[d] + sema'[d] + closeRel'[d] + Cardinality(Unlocking(d)')
    BY Zenon DEF SleepersCounted
  <2>1. Sleeping(d)' = Sleeping(d)
    <3>1. g \notin Sleeping(d)  BY Zenon, <1>2 DEF Sleeping
    <3>2. Sleeping(d)' = Sleeping(d) \ {g}  BY Zenon, <1>5, <1>6, Movers
    <3> QED  BY Zenon, <3>1, <3>2
  <2>2. Cardinality(Unlocking(d)') = IF d = e THEN Cardinality(Unlocking(d)) - 1 ELSE Cardinality(Unlocking(d))
    <3>1. SemPc[d] \in {"semr", "semw"} /\ (g \in Unlocking(d) <=> d = e)
      BY <1>1 DEF Unlocking, SemPc, Dir
    <3>2. Unlocking(d)' = Unlocking(d) \ {g}
      BY Zenon, <1>5, <1>6, <3>1, Movers
    <3> QED  BY ZenonT(60), <3>1, <3>2, Finite, FS_RemoveElement
  <2>3. sema'[d] = IF d = e THEN sema[d] + 1 ELSE sema[d]
    BY Zenon, <1>1 DEF IInv, TypeOK
  <2>4. wait'[d] = wait[d] /\ closeRel'[d] = closeRel[d]
    BY Zenon, <1>1
  <2> QED  BY <2>1, <2>2, <2>3, <2>4, SleepersAt
<1>9. DestroyedUnused'
  <2>1. g \notin Destroying  BY Zenon, <1>2 DEF Destroying
  <2>2. Destroying' = Destroying \ {g}  BY Zenon, <1>5, <1>6, Movers
  <2>3. Destroying' = Destroying  BY Zenon, <2>1, <2>2
  <2> QED  BY Zenon, <1>1, <2>3 DEF IInv, DestroyedUnused
<1>10. RefsCountHolders' /\ LocksExclusive' /\ CloseControl'
  BY Zenon, <1>1 DEF IInv, RefsCountHolders, Held, LocksExclusive, CloseControl
<1>11. NeverInconsistent'
  BY Zenon, <1>5, <1>6 DEF IInv, NeverInconsistent, OthersStay
<1> QED  BY Zenon, <1>4, <1>7, <1>8, <1>9, <1>10, <1>11 DEF IInv

\* destroy: the one goroutine that is to call it does.
LEMMA DestroyInv ==
  ASSUME IInv, NEW g \in Goroutines, Destroy(g)
  PROVE  /\ IInv'
         /\ destroyed = 0 /\ destroyed' = 1 /\ closed /\ \A h \in Goroutines : hold[h] = {}
<1>1. PICK l \in {"nil", "chk", "errClosing"} : Goto(g, l)
  BY Zenon DEF Destroy, FailReturn
<1>2. /\ g \in Destroying /\ pc[g] \in {"destroy", "destroyErr"}
      /\ destroyed' = destroyed + 1
      /\ UNCHANGED <<closed, locked, refs, wait, sema, hold, post, closeRel>>
  BY Zenon DEF Destroy, Destroying, state
<1>3. /\ destroyed = 0 /\ destroyed' = 1 /\ Destroying = {g}
      /\ closed /\ \A h \in Goroutines : hold[h] = {}
  <2>1. ~(destroyed > 0) /\ Destroying = {g} /\ closed /\ \A h \in Goroutines : hold[h] = {}
    BY Zenon, <1>2 DEF IInv, DestroyedUnused
  <2> QED  BY <1>2, <2>1 DEF IInv, TypeOK
<1>4. TypeOK'
  <2>1. pc' \in [Goroutines -> PCs] /\ op' \in [Goroutines -> LockOps \cup {"none", "ref", "close"}]
    BY Zenon, <1>1 DEF IInv, TypeOK, Goto, PCs, Returned
  <2> QED  BY <1>2, <1>3, <2>1 DEF IInv, TypeOK
<1>5. OthersStay(g) /\ pc'[g] = l /\ hold'[g] = {}
  BY Zenon, <1>1, <1>2, <1>3 DEF OthersStay, IInv, TypeOK, Goto
<1>6. Control'
  <2>1. ControlAt(g)'
    BY Zenon, <1>5 DEF ControlAt
  <2>2. \A h \in Goroutines \ {g} : ControlAt(h)'
    BY <1>5 DEF IInv, Control, ControlAt, OthersStay
  <2> QED  BY Zenon, <2>1, <2>2 DEF Control
<1>7. SleepersCounted'
  <2>1. \A d \in Dir : Sleeping(d)' = Sleeping(d) /\ Unlocking(d)' = Unlocking(d)
    <3> SUFFICES ASSUME NEW d \in Dir PROVE Sleeping(d)' = Sleeping(d) /\ Unlocking(d)' = Unlocking(d)
      BY Zenon
    <3>1. g \notin Sleeping(d) /\ g \notin Unlocking(d) /\ SemPc[d] \in {"semr", "semw"}
      BY <1>2 DEF Sleeping, Unlocking, SemPc, Dir
    <3>2. Sleeping(d)' = Sleeping(d) \ {g} /\ Unlocking(d)' = Unlocking(d) \ {g}
      BY Zenon, <1>5, <3>1, Movers
    <3> QED  BY Zenon, <3>1, <3>2
  <2> QED  BY Zenon, <1>2, <2>1 DEF IInv, SleepersCounted
<1>8. DestroyedUnused'
  <2>1. Destroying' = {}  BY Zenon, <1>3, <1>5, Movers
  <2> QED  BY Zenon, <1>2, <1>3, <2>1 DEF DestroyedUnused
<1>9. RefsCountHolders' /\ LocksExclusive' /\ CloseControl'
  BY Zenon, <1>2 DEF IInv, RefsCountHolders, Held, LocksExclusive, CloseControl
<1>10. NeverInconsistent'
  BY Zenon, <1>5 DEF IInv, NeverInconsistent, OthersStay
<1> QED  BY Zenon, <1>3, <1>4, <1>6, <1>7, <1>8, <1>9, <1>10 DEF IInv

----------------------------------------------------------------------------
(* The theorems *)

\* A new fdMutex, open and unused, satisfies the inductive invariant.
LEMMA InitInv == Init => IInv
<1> SUFFICES ASSUME Init PROVE IInv
  BY Zenon
<1>1. TypeOK
  <2>1. refs \in 0..MaxRef /\ wait \in [Dir -> 0..MaxRef] /\ sema \in [Dir -> Nat] /\ closeRel \in [Dir -> Nat]
    BY MaxRefAssumption DEF Init
  <2>2. /\ pc \in [Goroutines -> PCs] /\ post \in [Goroutines -> PCs]
        /\ op \in [Goroutines -> LockOps \cup {"none", "ref", "close"}]
    BY Zenon DEF Init, PCs, Returned
  <2>3. closed \in BOOLEAN /\ locked \subseteq Dir /\ hold \in [Goroutines -> SUBSET Kind] /\ destroyed \in Nat
    BY Zenon DEF Init
  <2> QED  BY Zenon, <2>1, <2>2, <2>3 DEF TypeOK
<1>2. Held = {} /\ Destroying = {} /\ \A d \in Dir : Sleeping(d) = {} /\ Unlocking(d) = {}
  BY DEF Init, Held, Destroying, Sleeping, Unlocking, SemPc, Dir
<1>3. RefsCountHolders /\ SleepersCounted
  BY <1>2, FS_EmptySet DEF Init, RefsCountHolders, SleepersCounted
<1>4. DestroyedUnused /\ Control /\ CloseControl /\ LocksExclusive /\ NeverInconsistent
  BY <1>2 DEF Init, DestroyedUnused, Control, ControlAt, Returned, CloseControl, LocksExclusive, NeverInconsistent
<1> QED  BY Zenon, <1>1, <1>3, <1>4 DEF IInv

\* No step of any method of fdMutex leaves it.
LEMMA NextInv == IInv /\ [Next]_vars => IInv'
<1> SUFFICES ASSUME IInv, [Next]_vars PROVE IInv'
  BY Zenon
<1>1. ASSUME NEW g \in Goroutines, Call(g) PROVE IInv'
  BY Zenon, <1>1, LocalActions, IncrefInv, IncrefAndCloseInv DEF Call
<1>2. ASSUME NEW g \in Goroutines, Step(g) PROVE IInv'
  BY Zenon, <1>2, LocalActions, DecrefInv, CloseWakeInv, LockFreeInv, LockWaitInv, SemacquireInv,
     RwunlockInv, SemreleaseInv, DestroyInv DEF Step
<1>3. CASE UNCHANGED vars
  <2> USE <1>3 DEF vars
  <2>1. TypeOK'  BY Zenon DEF IInv, TypeOK
  <2>2. Control' /\ CloseControl'  BY ZenonT(60) DEF IInv, Control, ControlAt, CloseControl
  <2>3. RefsCountHolders' /\ LocksExclusive'  BY Zenon DEF IInv, RefsCountHolders, Held, LocksExclusive
  <2>4. DestroyedUnused' /\ NeverInconsistent'
    BY Zenon DEF IInv, DestroyedUnused, Destroying, NeverInconsistent
  <2>5. SleepersCounted'  BY Zenon DEF IInv, SleepersCounted, Sleeping, Unlocking, Wanted
  <2> QED  BY Zenon, <2>1, <2>2, <2>3, <2>4, <2>5 DEF IInv
<1> QED  BY Zenon, <1>1, <1>2, <1>3 DEF Next

\* The inductive invariant holds of every state fdMutex reaches.
THEOREM Invariance == Spec => []IInv
BY InitInv, NextInv, PTL DEF Spec

\* The counts of the state word never leave the width of their fields, and the
\* reference count is the number of references goroutines have to give back.
THEOREM TypeCorrect == Spec => [](TypeOK /\ RefsCountHolders)
<1>1. IInv => TypeOK /\ RefsCountHolders  BY Zenon DEF IInv
<1> QED  BY <1>1, Invariance, PTL

\* Readers are serialised, and so are writers, for any number of goroutines.
THEOREM MutualExclusion == Spec => []LocksExclusive
<1>1. IInv => LocksExclusive  BY Zenon DEF IInv
<1> QED  BY <1>1, Invariance, PTL

\* FD.destroy runs at most once, after Close, when nobody has a reference.
THEOREM DestroyOnceUnused == Spec => []DestroyedUnused
<1>1. IInv => DestroyedUnused  BY Zenon DEF IInv
<1> QED  BY <1>1, Invariance, PTL

\* Every goroutine asleep in rwlock is counted by exactly one waiter, pending
\* release or semaphore unit.
THEOREM SleepersAccounted == Spec => []SleepersCounted
<1>1. IInv => SleepersCounted  BY Zenon DEF IInv
<1> QED  BY <1>1, Invariance, PTL

\* The panics "inconsistent poll.fdMutex" of decref and rwunlock are unreachable.
THEOREM NoInconsistentPanic == Spec => []NeverInconsistent
<1>1. IInv => NeverInconsistent  BY Zenon DEF IInv
<1> QED  BY <1>1, Invariance, PTL

----------------------------------------------------------------------------
(* fdMutex implements FDLifetime *)

\* A new fdMutex is a new lifetime.
LEMMA InitRefines == Init => Lifetime!LifetimeInit
BY DEF Init, Lifetime!LifetimeInit

\* A step of fdMutex is a step of the abstract lifetime, or changes nothing of it.
LEMMA StepRefines ==
  ASSUME IInv, [Next]_vars
  PROVE  [Lifetime!LifetimeNext]_(Lifetime!lifetimeVars)
<1> USE DEF Lifetime!lifetimeVars, state
<1>1. CASE UNCHANGED <<closed, hold, destroyed>>
  BY Zenon, <1>1
<1>2. ASSUME NEW g \in Goroutines, NEW k \in {"ref", "r", "w"},
             ~closed, k \notin hold[g], k \in Dir => k \notin locked,
             Take(g, k), UNCHANGED <<closed, destroyed>>
      PROVE  Lifetime!LifetimeNext
  <2>1. ~(destroyed > 0)
    BY Zenon, <1>2 DEF IInv, DestroyedUnused
  <2>2. k \in Lifetime!Dir => Lifetime!Holding(k) = {}
    BY Zenon, <1>2 DEF IInv, LocksExclusive, Lifetime!Dir, Dir, Lifetime!Holding
  <2>3. Lifetime!Acquire(g, k)
    BY Zenon, <1>2, <2>1, <2>2 DEF Lifetime!Acquire, Take, Lifetime!Kind, Lifetime!Dir
  <2>4. k \in Lifetime!Kind
    BY Zenon DEF Lifetime!Kind, Lifetime!Dir
  <2> QED  BY Zenon, <2>3, <2>4 DEF Lifetime!LifetimeNext
<1>3. ASSUME NEW g \in Goroutines, NEW k \in Kind, k \in hold[g], Drop(g, k),
             UNCHANGED <<closed, destroyed>>
      PROVE  Lifetime!LifetimeNext
  <2>1. Lifetime!Release(g, k)
    BY Zenon, <1>3 DEF Lifetime!Release, Drop
  <2> QED  BY Zenon, <2>1 DEF Lifetime!LifetimeNext, Lifetime!Kind, Lifetime!Dir, Kind, Dir
<1>4. ASSUME NEW g \in Goroutines, Call(g)
      PROVE  Lifetime!LifetimeNext \/ UNCHANGED <<closed, hold, destroyed>>
  <2>1. CASE Incref(g)
    <3>1. "ref" \notin hold[g]
      BY Zenon, <2>1 DEF Incref, IInv, Control, ControlAt
    <3> QED  BY Zenon, <1>2, <2>1, <3>1 DEF Incref, Dir
  <2>2. CASE IncrefAndClose(g)
    <3>1. ~(destroyed > 0)
      BY Zenon, <2>2 DEF IInv, DestroyedUnused, IncrefAndClose
    <3>2. Lifetime!StartClose(g)
      BY Zenon, <2>2, <3>1 DEF Lifetime!StartClose, IncrefAndClose, Take
    <3> QED  BY Zenon, <3>2 DEF Lifetime!LifetimeNext
  <2>3. CASE IncrefFail(g) \/ IncrefOverflow(g) \/ \E o \in LockOps : Begin(g, o)
    BY Zenon, <2>3 DEF IncrefFail, IncrefOverflow, Begin
  <2> QED  BY Zenon, <1>4, <2>1, <2>2, <2>3 DEF Call
<1>5. ASSUME NEW g \in Goroutines, Step(g)
      PROVE  Lifetime!LifetimeNext \/ UNCHANGED <<closed, hold, destroyed>>
  <2>1. CASE Decref(g)
    <3>1. op[g] \in Kind /\ op[g] \in hold[g]
      BY Zenon, <2>1 DEF Decref, IInv, Control, ControlAt, Kind
    <3>2. Drop(g, op[g]) \/ UNCHANGED hold
      BY Zenon, <2>1 DEF Decref
    <3> QED  BY Zenon, <1>3, <2>1, <3>1, <3>2 DEF Decref
  <2>2. CASE Rwunlock(g)
    <3>1. Dropped(g) \in hold[g] /\ Dropped(g) \in Dir /\ Dropped(g) \in Kind
      BY Zenon, <2>2, AfterUnlockCases DEF Rwunlock, Kind
    <3>2. Drop(g, Dropped(g)) \/ UNCHANGED hold
      BY Zenon, <2>2 DEF Rwunlock
    <3> QED  BY Zenon, <1>3, <2>2, <3>1, <3>2 DEF Rwunlock
  <2>3. CASE LockFree(g)
    <3>1. Wanted(g) \in {"r", "w"} /\ Wanted(g) \notin hold[g]
      BY Zenon, <2>3 DEF Wanted, LockFree, IInv, Control, ControlAt
    <3> QED  BY Zenon, <1>2, <2>3, <3>1 DEF LockFree
  <2>4. CASE Destroy(g)
    <3>1. destroyed = 0 /\ destroyed' = 1 /\ closed /\ \A h \in Goroutines : hold[h] = {}
      BY Zenon, <2>4, DestroyInv
    <3>2. Lifetime!DestroyFD
      BY <2>4, <3>1 DEF Lifetime!DestroyFD, Destroy
    <3> QED  BY Zenon, <3>2 DEF Lifetime!LifetimeNext
  <2>5. CASE \/ CloseWake(g) \/ CloseWoken(g) \/ LockClosed(g) \/ LockBusy(g) \/ LockWait(g)
             \/ LockOverflow(g) \/ Semacquire(g) \/ CheckClosing(g) \/ Semrelease(g)
    BY Zenon, <2>5 DEF CloseWake, CloseWoken, LockClosed, LockBusy, LockWait, LockOverflow,
                Semacquire, CheckClosing, Semrelease
  <2> QED  BY Zenon, <1>5, <2>1, <2>2, <2>3, <2>4, <2>5 DEF Step
<1>6. CASE UNCHANGED vars
  BY Zenon, <1>6 DEF vars
<1> QED  BY Zenon, <1>1, <1>4, <1>5, <1>6 DEF Next

\* Every behaviour of fdMutex is one the abstract lifetime allows: nobody joins
\* after Close, each lock has one owner, and the handle is destroyed last.
THEOREM Refinement == Spec => ImplementsLifetime
<1>1. IInv /\ [Next]_vars => [Lifetime!LifetimeNext]_(Lifetime!lifetimeVars)
  BY Zenon, StepRefines
<1> QED  BY <1>1, InitRefines, Invariance, PTL DEF Spec, ImplementsLifetime, Lifetime!LifetimeSpec

----------------------------------------------------------------------------
(* No lost wakeup *)

\* Goroutine g will look at the lock d again, or wake somebody who will.
Stands(g, d) ==
  \/ pc[g] = SemPc[d]
  \/ pc[g] = "lock" /\ Wanted(g) = d
  \/ pc[g] = "overflow"

\* What keeps the waiters of direction d from being forgotten.
Attended(d) ==
  \/ wait[d] = 0
  \/ d \in locked
  \/ sema[d] > 0
  \/ \E g \in Goroutines : Stands(g, d)

\* A step of rwlock, rwunlock, incref, decref or Close keeps them attended.
LEMMA AttendedStep ==
  ASSUME IInv, NEW d \in Dir, Attended(d), [Next]_vars
  PROVE  Attended(d)'
<1> USE DEF state
<1>1. ASSUME NEW g \in Goroutines, OthersStay(g), ~Stands(g, d), wait'[d] = wait[d],
             d \in locked => d \in locked', sema[d] > 0 => sema'[d] > 0
      PROVE  Attended(d)'
  <2>1. \A h \in Goroutines \ {g} : Stands(h, d) => Stands(h, d)'
    BY Zenon, <1>1 DEF OthersStay, Stands, Wanted
  <2>2. (\E h \in Goroutines : Stands(h, d)) => \E h \in Goroutines : Stands(h, d)'
    BY Zenon, <1>1, <2>1
  <2> QED  BY Zenon, <1>1, <2>2 DEF Attended
<1>0. \A g \in Goroutines : pc[g] \notin {"semr", "semw", "lock", "overflow"} => ~Stands(g, d)
  BY Zenon, SemPcs DEF Stands
<1>2. ASSUME NEW g \in Goroutines, Call(g)
      PROVE  Attended(d)'
  <2>1. pc[g] \in Returned /\ OthersStay(g)
    BY Zenon, <1>2 DEF Call, IncrefFail, Incref, IncrefOverflow, IncrefAndClose, Begin, Goto, Take, OthersStay, IInv, TypeOK
  <2>2. CASE IncrefAndClose(g)
    BY Zenon, <2>2 DEF IncrefAndClose, Attended
  <2>3. CASE ~IncrefAndClose(g)
    <3>1. UNCHANGED <<wait, locked, sema>>
      BY Zenon, <1>2, <2>3 DEF Call, IncrefFail, Incref, IncrefOverflow, Begin
    <3>2. ~Stands(g, d)  BY Zenon, <1>0, <2>1 DEF Returned
    <3> QED  BY Zenon, <1>1, <2>1, <3>1, <3>2
  <2> QED  BY Zenon, <2>2, <2>3
<1>3. ASSUME NEW g \in Goroutines, Step(g)
      PROVE  Attended(d)'
  <2>1. CASE Decref(g) \/ CloseWoken(g) \/ CheckClosing(g) \/ Destroy(g)
    <3>1. /\ pc[g] \notin {"semr", "semw", "lock", "overflow"}
          /\ UNCHANGED <<wait, locked, sema>>
      BY Zenon, <2>1 DEF Decref, CloseWoken, CheckClosing, Destroy
    <3>2. OthersStay(g)
      BY Zenon, <2>1 DEF OthersStay, IInv, TypeOK, Decref, CloseWoken, CheckClosing, Destroy, Goto, Drop
    <3> QED  BY Zenon, <1>0, <1>1, <3>1, <3>2
  <2>2. CASE CloseWake(g)
    <3>1. sema[d] > 0 => sema'[d] > 0
      BY <2>2 DEF CloseWake, IInv, TypeOK
    <3>2. OthersStay(g) /\ pc[g] = "wake" /\ UNCHANGED <<wait, locked>>
      BY Zenon, <2>2 DEF CloseWake, OthersStay
    <3> QED  BY Zenon, <1>0, <1>1, <3>1, <3>2
  <2>3. CASE LockClosed(g)
    BY Zenon, <2>3 DEF LockClosed, Attended, IInv, CloseControl
  <2>4. CASE LockBusy(g) \/ LockWait(g) \/ LockFree(g)
    <3>1. /\ Wanted(g) \in locked' /\ (d \in locked => d \in locked') /\ sema' = sema
          /\ d # Wanted(g) => wait'[d] = wait[d]
          /\ OthersStay(g) /\ pc[g] = "lock"
      BY Zenon, <2>4 DEF LockBusy, LockWait, LockFree, LockFails, Goto, Take, OthersStay, IInv, TypeOK
    <3>2. CASE d = Wanted(g)
      BY Zenon, <3>1, <3>2 DEF Attended
    <3>3. CASE d # Wanted(g)
      <4>1. ~Stands(g, d)  BY Zenon, <3>1, <3>3, SemPcs DEF Stands
      <4> QED  BY Zenon, <1>1, <3>1, <3>3, <4>1
    <3> QED  BY Zenon, <3>2, <3>3
  <2>5. CASE LockOverflow(g)
    <3>1. pc'[g] = "overflow"
      BY Zenon, <2>5 DEF LockOverflow, Goto, IInv, TypeOK
    <3> QED  BY Zenon, <3>1 DEF Attended, Stands
  <2>6. CASE Semacquire(g)
    <3>1. /\ pc'[g] = "lock" /\ Wanted(g)' = Wanted(g) /\ pc[g] = "sleep" /\ OthersStay(g)
          /\ UNCHANGED <<wait, locked>> /\ (d # Wanted(g) => sema'[d] = sema[d])
      BY Zenon, <2>6 DEF Semacquire, Goto, IInv, TypeOK, OthersStay, Wanted, Returned
    <3>2. CASE d = Wanted(g)
      BY Zenon, <3>1, <3>2 DEF Attended, Stands
    <3>3. CASE d # Wanted(g)
      BY Zenon, <1>0, <1>1, <3>1, <3>3
    <3> QED  BY Zenon, <3>2, <3>3
  <2>7. CASE Rwunlock(g)
    <3> DEFINE e == Dropped(g)
    <3>1. pc[g] \in {"held", "backout"} /\ op[g] \in LockOps /\ e \in Dir
      BY Zenon, <2>7, AfterUnlockCases DEF Rwunlock
    <3>2. CASE UNCHANGED <<locked, wait>>
      <4>1. OthersStay(g) /\ sema' = sema
        BY Zenon, <2>7 DEF Rwunlock, OthersStay, Goto, Drop, IInv, TypeOK
      <4> QED  BY Zenon, <1>0, <1>1, <3>1, <3>2, <4>1
    <3>3. CASE /\ locked' = locked \ {e} /\ wait[e] > 0 /\ Goto(g, SemPc[e])
               /\ wait' = [wait EXCEPT ![e] = @ - 1]
      <4>1. pc'[g] = SemPc[e] /\ OthersStay(g) /\ sema' = sema /\ (d # e => wait'[d] = wait[d])
        BY Zenon, <2>7, <3>3 DEF Rwunlock, OthersStay, Goto, Drop, IInv, TypeOK
      <4>2. CASE d = e
        BY Zenon, <4>1, <4>2 DEF Attended, Stands
      <4>3. CASE d # e
        <5>1. ~Stands(g, d)  BY Zenon, <1>0, <3>1
        <5>2. d \in locked => d \in locked'  BY Zenon, <3>3, <4>3
        <5> QED  BY Zenon, <1>1, <4>1, <4>3, <5>1, <5>2
      <4> QED  BY Zenon, <4>2, <4>3
    <3>4. CASE locked' = locked \ {e} /\ ~(wait[e] > 0) /\ wait' = wait
      <4>1. OthersStay(g) /\ sema' = sema
        BY Zenon, <2>7 DEF Rwunlock, OthersStay, Goto, Drop, IInv, TypeOK
      <4>2. wait[e] = 0
        BY <3>1, <3>4 DEF IInv, TypeOK
      <4>3. CASE d = e
        BY Zenon, <3>4, <4>2, <4>3 DEF Attended
      <4>4. CASE d # e
        <5>1. ~Stands(g, d)  BY Zenon, <1>0, <3>1
        <5>2. d \in locked => d \in locked'  BY Zenon, <3>4, <4>4
        <5> QED  BY Zenon, <1>1, <3>4, <4>1, <5>1, <5>2
      <4> QED  BY Zenon, <4>3, <4>4
    <3> QED  BY Zenon, <2>7, <3>2, <3>3, <3>4 DEF Rwunlock
  <2>8. CASE Semrelease(g)
    <3>1. PICK e \in Dir : pc[g] = SemPc[e] /\ sema' = [sema EXCEPT ![e] = @ + 1]
      BY Zenon, <2>8 DEF Semrelease
    <3>2. UNCHANGED <<locked, wait>> /\ OthersStay(g)
      BY ZenonT(60), <2>8 DEF Semrelease, OthersStay, Goto, IInv, TypeOK
    <3>3. CASE d = e
      <4>1. sema'[d] > 0
        BY <3>1, <3>3 DEF IInv, TypeOK
      <4> QED  BY Zenon, <4>1 DEF Attended
    <3>4. CASE d # e
      <4>1. sema'[d] = sema[d]
        BY Zenon, <3>1, <3>4 DEF IInv, TypeOK
      <4>2. ~Stands(g, d)
        <5>1. pc[g] = SemPc[e]  BY Zenon, <3>1
        <5>2. pc[g] \notin {"lock", "overflow"} /\ pc[g] # SemPc[d]
          BY Zenon, <5>1, <3>4, SemPcs
        <5> QED  BY Zenon, <5>2 DEF Stands
      <4> QED  BY Zenon, <1>1, <3>2, <4>1, <4>2
    <3> QED  BY Zenon, <3>3, <3>4
  <2> QED  BY Zenon, <1>3, <2>1, <2>2, <2>3, <2>4, <2>5, <2>6, <2>7, <2>8 DEF Step
<1>4. CASE UNCHANGED vars
  BY Zenon, <1>4 DEF vars, Attended, Stands, Wanted
<1> QED  BY Zenon, <1>2, <1>3, <1>4 DEF Next

\* A free lock with waiters always has a wakeup on its way: rwunlock's
\* subtract-then-release never strands a goroutine in rwlock.
THEOREM WakeupsNotLost == Spec => []NoLostWakeup
<1> DEFINE AInv == \A d \in Dir : Attended(d)
<1>1. Init => AInv
  BY Zenon DEF Init, Attended
<1>2. IInv /\ AInv /\ [Next]_vars => AInv'
  BY Zenon, AttendedStep
<1>3. AInv => NoLostWakeup
  BY DEF Attended, Stands, NoLostWakeup, Unlocking, Woken
<1> QED  BY <1>1, <1>2, <1>3, Invariance, PTL DEF Spec
=============================================================================
