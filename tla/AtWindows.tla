----------------------------- MODULE AtWindows -----------------------------
(***************************************************************************)
(* Deleteat and Renameat (internal/syscall/windows/at_windows.go):         *)
(* operations on a name relative to a directory handle, and the sequences  *)
(* of calls that stand in for POSIX delete and POSIX rename on kernels and *)
(* file systems without them.                                              *)
(*                                                                         *)
(* One directory, Base, holds the names.  Every NT call is a step; between *)
(* two steps other programs open, create, move and hold files, and the     *)
(* calling program may crash, which closes its handles.                    *)
(***************************************************************************)
EXTENDS Integers, FiniteSets

CONSTANTS Callers,      \* programs that call these operations
          Files,        \* the file objects, Base not among them
          Base,         \* the directory that holds the names
          Names,        \* the names in Base
          Disks,        \* what the volume may hold at first: see DiskType
          Requests,     \* calls each caller may make, [op, name, newname]
          MaxCalls,     \* bound: calls of each caller
          MaxUpsets     \* bound: steps of other programs, calls that fail for
                        \* no reason of their own, and crashes

Objects == Files \cup {Base}
NoFile == "no file"
Top == "top"            \* Base's own name, in its parent

\* A file is at a name, at the name setAsideForDelete makes from its own id
\* (here f itself), moved away by another program, deleted, or not created yet.
Places == Names \cup Objects \cup {Top, "away", "gone", "unborn"}

\* The kind of each file: "dir" is an empty directory, "link" a directory link.
\* volume: with POSIX semantics, or without and with the staging directory on
\* the volume or not.  held: files other programs have open, sharing deletion.
DiskType == [kind : [Files -> {"file", "dir", "link"}],
             where : [Files -> Names \cup {"unborn"}],
             readonly : SUBSET Files, held : SUBSET Files,
             volume : {"posix", "staged", "unstaged"}]

ASSUME AtAssumption == Disks \subseteq DiskType

\* A directory holds finitely many files, and a name is the name of one.
ASSUME FilesAssumption == IsFiniteSet(Files)
ASSUME DisksAssumption ==
  \A d \in Disks : \A f, g \in Files : d.where[f] \in Names /\ d.where[g] = d.where[f] => f = g

\* Names, objects and the other places are told apart; calls use names, and a
\* rename is from one name in Base to another.
ASSUME PlacesAssumption ==
  /\ Base \notin Files /\ Names \cap Objects = {}
  /\ {Top, "away", "gone", "unborn", NoFile} \cap (Names \cup Objects) = {}
ASSUME RequestsAssumption ==
  \A c \in Callers : \A r \in Requests[c] :
    /\ {r.name, r.newname} \subseteq Names \cup {Top}
    /\ r.op = "rename" => Top \notin {r.name, r.newname}

VARIABLES kind, volume,
          protected,    \* ghost: files that were read-only at first
          where,        \* the place of each file
          readonly,     \* files with FILE_ATTRIBUTE_READONLY
          pending,      \* files to be deleted when their last handle closes
          shared,       \* files other programs have open, sharing deletion
          denied,       \* files other programs have open, not sharing it
          listing,      \* callers with a handle that lists Base
          pc, ret,      \* a caller's place, and where Deleteat returns to
          name, newname, opt,   \* arguments of the call
          h, h2,        \* the handle a call works on, and its second one
          haveData,     \* h was opened with FILE_READ_ATTRIBUTES
          aside,        \* h was set aside
          res,          \* result of the call
          doomed,       \* ghost: files named for deletion, or replaced
          excused,      \* ghost: files a failure or a crash may leave anywhere
          trouble,      \* ghost: a step other than opening a plain file happened
          calls, upsets

disk == <<kind, volume, protected>>
holds == <<shared, denied, listing>>
args == <<ret, name, newname, opt>>
atVars == <<disk, where, readonly, pending, holds, pc, args, h, h2, haveData,
            aside, res, doomed, excused, trouble, calls, upsets>>

Results == {"nil", "notexist", "isdir", "err"}
Options == {"any", "file", "dir", "rename"}

AtTypeOK ==
  /\ kind \in [Objects -> {"file", "dir", "link"}] /\ volume \in {"posix", "staged", "unstaged"}
  /\ where \in [Objects -> Places]
  /\ readonly \subseteq protected /\ protected \subseteq Files /\ pending \subseteq Objects
  /\ shared \subseteq Objects /\ denied \subseteq Objects /\ listing \subseteq Callers
  /\ name \in [Callers -> Places] /\ newname \in [Callers -> Places]
  /\ opt \in [Callers -> Options] /\ res \in [Callers -> Results]
  /\ h \in [Callers -> Objects \cup {NoFile}] /\ h2 \in [Callers -> Objects \cup {NoFile}]
  /\ haveData \in [Callers -> BOOLEAN] /\ aside \in [Callers -> BOOLEAN]
  /\ doomed \subseteq Objects /\ excused \subseteq Objects /\ trouble \in BOOLEAN
  /\ calls \in [Callers -> 0..MaxCalls] /\ upsets \in 0..MaxUpsets

\* Holding a plain file open is no reason for RemoveAll to fail, unless the
\* staging directory is not on the volume; holding a link or a directory is,
\* without POSIX semantics.
Blocks(f, k, v) == f # Base /\ (v = "unstaged" \/ (v = "staged" /\ k # "file"))

AtInit ==
  /\ \E d \in Disks :
       /\ kind = [f \in Objects |-> IF f = Base THEN "dir" ELSE d.kind[f]]
       /\ where = [f \in Objects |-> IF f = Base THEN Top ELSE d.where[f]]
       /\ volume = d.volume /\ readonly = d.readonly /\ protected = d.readonly /\ shared = d.held
       /\ trouble = \E f \in d.held : Blocks(f, d.kind[f], d.volume)
  /\ pending = {} /\ denied = {} /\ listing = {}
  /\ pc = [c \in Callers |-> "idle"] /\ ret = [c \in Callers |-> "idle"]
  /\ name = [c \in Callers |-> Top] /\ newname = [c \in Callers |-> Top]
  /\ opt = [c \in Callers |-> "any"] /\ res = [c \in Callers |-> "nil"]
  /\ h = [c \in Callers |-> NoFile] /\ h2 = [c \in Callers |-> NoFile]
  /\ haveData = [c \in Callers |-> FALSE] /\ aside = [c \in Callers |-> FALSE]
  /\ doomed = {} /\ excused = {}
  /\ calls = [c \in Callers |-> 0] /\ upsets = 0

----------------------------------------------------------------------------
(* The volume.                                                             *)

At(nm) == {f \in Objects : where[f] = nm}

\* What Base holds.  Where the staging directory is not on the volume, a file
\* set aside stays in Base.
Inside == {f \in Files : where[f] \in Names \/ (where[f] = f /\ volume = "unstaged")}

Held(f) == \E c \in Callers : f \in {h[c], h2[c]}

Open(f) == f \in shared \cup denied \/ Held(f) \/ (f = Base /\ listing # {})

\* A handle with DELETE access needs every other handle to share deletion.
Opens(f) == f \notin pending \cup denied

\* FileRenameInformation moves f to nm in place of a file there that is idle
\* and not read-only.
CanMove(f) == f \notin pending /\ where[f] # "gone"
CanReplace(f, nm) ==
  \A t \in At(nm) \ {f} : kind[t] = "file" /\ ~Open(t) /\ t \notin readonly

\* FileRenameInformationEx also replaces links and files that are open, but not
\* by a directory.
CanReplaceEx(f, nm) ==
  \A t \in At(nm) \ {f} : IF kind[f] = "dir" THEN CanReplace(f, nm)
                          ELSE kind[t] # "dir" /\ t \notin readonly \cup denied

Moved(f, nm) ==
  [x \in Objects |-> IF x = f THEN nm ELSE IF where[x] = nm THEN "gone" ELSE where[x]]

\* FileDispositionInformation marks f, unless it is read-only or not empty.
Empty(f) == f = Base => Inside = {}

\* Files are gone once nobody has them open; extra go in any case.
Settle(extra) ==
  where' = [f \in Objects |-> IF f \in pending' /\ (~Open(f)' \/ f \in extra) THEN "gone"
                              ELSE where[f]]

\* f, when another call holds it too and finds it elsewhere than it left it.
Contested(c, f) == {x \in {f} : \E b \in Callers \ {c} : x \in {h[b], h2[b]}}

\* A call fails for no reason of its own.
Upset == upsets < MaxUpsets /\ upsets' = upsets + 1
Fault == Upset /\ trouble' = TRUE
NoFault == UNCHANGED <<upsets, trouble>>

Goto(c, l) == pc' = [pc EXCEPT ![c] = l]
Result(c, r) == res' = [res EXCEPT ![c] = r]
Leave(c, r) == Goto(c, "close") /\ Result(c, r)

----------------------------------------------------------------------------
(* Deleteat and deleteatFallback.                                          *)

\* c calls Deleteat(nm, o), which returns to r.
CallDelete(c, nm, o, r) ==
  /\ Goto(c, "d_open")
  /\ name' = [name EXCEPT ![c] = nm] /\ opt' = [opt EXCEPT ![c] = o]
  /\ ret' = [ret EXCEPT ![c] = r]
  /\ UNCHANGED newname

StillDisk == UNCHANGED <<disk, holds, calls>>

\* An open the kernel grants; a first refusal (ACCESS_DENIED) is followed by one
\* with DELETE access alone.
Opened(c, f) ==
  /\ Opens(f)
  /\ h' = [h EXCEPT ![c] = f]
  /\ \/ haveData' = [haveData EXCEPT ![c] = TRUE] /\ NoFault /\ UNCHANGED excused
     \/ /\ haveData' = [haveData EXCEPT ![c] = FALSE] /\ Fault
        /\ excused' = excused \cup {f}

DOpen(c) ==
  /\ pc[c] = "d_open"
  /\ aside' = [aside EXCEPT ![c] = FALSE]
  /\ StillDisk /\ UNCHANGED <<where, readonly, pending, args, h2>>
  /\ \/ /\ At(name[c]) = {} /\ Leave(c, "notexist")
        /\ NoFault /\ UNCHANGED <<h, haveData, doomed, excused>>
     \/ \E f \in At(name[c]) :
          \/ /\ opt[c] = "file" /\ kind[f] # "file" /\ Leave(c, "isdir")
             /\ NoFault /\ UNCHANGED <<h, haveData, doomed, excused>>
          \/ /\ ~Opens(f) \/ (opt[c] = "dir" /\ kind[f] = "file")
             /\ Leave(c, "err")
             /\ NoFault /\ UNCHANGED <<h, haveData, doomed, excused>>
          \/ /\ opt[c] = "file" => kind[f] = "file"
             /\ opt[c] = "dir" => kind[f] # "file"
             /\ Opened(c, f)
             /\ Goto(c, "d_ex") /\ doomed' = doomed \cup {f} /\ UNCHANGED res
     \/ /\ Leave(c, "err") /\ Fault /\ UNCHANGED <<h, haveData, doomed, excused>>

\* FileDispositionInformationEx.  Any answer but success and that there are no
\* POSIX semantics ends the call.
DEx(c) ==
  /\ pc[c] = "d_ex"
  /\ StillDisk /\ UNCHANGED <<where, readonly, args, h, h2, haveData, aside, doomed, excused>>
  /\ \/ /\ volume # "posix" /\ Goto(c, "d_info")
        /\ NoFault /\ UNCHANGED <<pending, res>>
     \/ /\ volume = "posix" /\ NoFault
        /\ IF Empty(h[c]) THEN pending' = pending \cup {h[c]} /\ Leave(c, "nil")
                          ELSE UNCHANGED pending /\ Leave(c, "err")
     \/ Fault /\ Leave(c, "err") /\ UNCHANGED pending

\* Mutant: a read-only file is not opened again to be cleared.
DInfoNeverClears(c) ==
  /\ pc[c] = "d_info" /\ Goto(c, "d_aside") /\ StillDisk /\ NoFault
  /\ UNCHANGED <<where, readonly, pending, args, h, h2, haveData, aside, res, doomed, excused>>

\* The attribute is read and, when it is read-only, the name opened again.
DInfo(c) ==
  /\ pc[c] = "d_info"
  /\ Goto(c, IF haveData[c] /\ h[c] \in readonly THEN "d_reopen" ELSE "d_aside")
  /\ StillDisk /\ NoFault
  /\ UNCHANGED <<where, readonly, pending, args, h, h2, haveData, aside, res, doomed, excused>>

DReopen(c) ==
  /\ pc[c] = "d_reopen"
  /\ StillDisk /\ UNCHANGED <<where, readonly, pending, args, h, haveData, aside, doomed, excused>>
  /\ \/ At(name[c]) = {} /\ Leave(c, "notexist") /\ NoFault /\ UNCHANGED h2
     \/ \E f \in At(name[c]) :
          /\ NoFault
          /\ IF f \in pending THEN Leave(c, "err") /\ UNCHANGED h2
             ELSE Goto(c, "d_clear") /\ h2' = [h2 EXCEPT ![c] = f] /\ UNCHANGED res
     \/ Leave(c, "err") /\ Fault /\ UNCHANGED h2

\* Mutant: whatever has the name now loses the attribute.
DClearWhoever(c) ==
  /\ pc[c] = "d_clear" /\ Goto(c, "d_aside")
  /\ h2' = [h2 EXCEPT ![c] = NoFile] /\ readonly' = readonly \ {h2[c]}
  /\ StillDisk /\ NoFault
  /\ UNCHANGED <<pending, args, h, haveData, aside, res, doomed, excused>> /\ Settle({})

\* The attribute is cleared only if wh, here h2, is open on the file h holds, as
\* far as can be told; clearing it may fail.
DClear(c) ==
  /\ pc[c] = "d_clear"
  /\ h2' = [h2 EXCEPT ![c] = NoFile]
  /\ StillDisk /\ UNCHANGED <<pending, args, h, haveData, aside, doomed, excused>>
  /\ Settle({})
  /\ \/ /\ readonly' = IF h2[c] = h[c] THEN readonly \ {h[c]} ELSE readonly
        /\ Goto(c, "d_aside") /\ NoFault /\ UNCHANGED res
     \/ /\ Fault /\ UNCHANGED readonly
        /\ \/ Goto(c, "d_aside") /\ UNCHANGED res
           \/ h2[c] = h[c] /\ Leave(c, "err")

\* Mutant: the file is marked under its own name.
DAsideNever(c) ==
  /\ pc[c] = "d_aside" /\ Goto(c, "d_mark") /\ StillDisk /\ NoFault
  /\ UNCHANGED <<where, readonly, pending, args, h, h2, haveData, aside, res, doomed, excused>>

\* setAsideForDelete: f moves to the name made from its id.
DAside(c) ==
  /\ pc[c] = "d_aside"
  /\ Goto(c, "d_mark")
  /\ StillDisk /\ UNCHANGED <<readonly, pending, args, h, h2, haveData, res, doomed>>
  /\ \/ /\ haveData[c] /\ kind[h[c]] = "file" /\ CanMove(h[c])
        /\ where' = Moved(h[c], h[c]) /\ aside' = [aside EXCEPT ![c] = TRUE]
        /\ NoFault /\ UNCHANGED excused
     \/ /\ ~(haveData[c] /\ kind[h[c]] = "file" /\ CanMove(h[c]))
        /\ NoFault /\ UNCHANGED <<where, aside, excused>>
     \/ /\ haveData[c] /\ kind[h[c]] = "file" /\ Fault
        /\ excused' = excused \cup {h[c]} /\ UNCHANGED <<where, aside>>

\* setFileDispositionByHandle; a failure moves a file set aside back.
DMark(c) ==
  /\ pc[c] = "d_mark"
  /\ StillDisk /\ UNCHANGED <<where, readonly, args, h, h2, haveData, aside, doomed, excused>>
  /\ \/ /\ h[c] \notin readonly /\ Empty(h[c])
        /\ pending' = pending \cup {h[c]} /\ Leave(c, "nil") /\ NoFault
     \/ /\ \/ (h[c] \in readonly \/ ~Empty(h[c])) /\ NoFault
           \/ Fault
        /\ Result(c, "err") /\ Goto(c, IF aside[c] THEN "back" ELSE "close")
        /\ UNCHANGED pending

\* Mutant: a failure leaves the file where it was moved to.
BackNever(c) ==
  /\ pc[c] = "back" /\ Goto(c, "close") /\ StillDisk /\ NoFault
  /\ UNCHANGED <<where, readonly, pending, args, h, h2, haveData, aside, res, doomed, excused>>

\* renameTo without replacing; its result is ignored.  Deleteat moves h back to
\* name, Renameat h2 to newname.
Back(c) ==
  LET f == IF opt[c] = "rename" THEN h2[c] ELSE h[c]
      nm == IF opt[c] = "rename" THEN newname[c] ELSE name[c]
      free == At(nm) \ {f} = {} /\ CanMove(f)
  IN
  /\ pc[c] = "back" /\ Goto(c, "close")
  /\ StillDisk /\ UNCHANGED <<readonly, pending, args, h, h2, haveData, aside, res, doomed>>
  /\ \/ /\ free /\ where' = Moved(f, nm) /\ NoFault
        /\ excused' = excused \cup Contested(c, f)
     \/ /\ excused' = excused \cup {f} /\ UNCHANGED where
        /\ \/ ~free /\ NoFault
           \/ Fault

\* The variables of a call that has returned to the program.
Forget(c) ==
  /\ name' = [name EXCEPT ![c] = Top] /\ newname' = [newname EXCEPT ![c] = Top]
  /\ opt' = [opt EXCEPT ![c] = "any"] /\ ret' = [ret EXCEPT ![c] = "idle"]
  /\ Result(c, "nil")

\* The deferred CloseHandles.  A file deleted with POSIX semantics goes with
\* the handle that deleted it.
Close(c) ==
  /\ pc[c] = "close"
  /\ Goto(c, ret[c])
  /\ h' = [h EXCEPT ![c] = NoFile] /\ h2' = [h2 EXCEPT ![c] = NoFile]
  /\ haveData' = [haveData EXCEPT ![c] = FALSE] /\ aside' = [aside EXCEPT ![c] = FALSE]
  /\ IF ret[c] = "idle" THEN Forget(c) ELSE UNCHANGED <<args, res>>
  /\ StillDisk /\ NoFault /\ UNCHANGED <<readonly, pending, doomed, excused>>
  /\ Settle(IF volume = "posix" /\ res[c] = "nil" THEN {h[c]} ELSE {})

----------------------------------------------------------------------------
(* Renameat and replaceRenameTarget.                                       *)

ROpen(c) ==
  /\ pc[c] = "r_open"
  /\ StillDisk /\ UNCHANGED <<where, readonly, pending, args, h2, aside, doomed>>
  /\ \/ /\ At(name[c]) = {} /\ Leave(c, "notexist")
        /\ NoFault /\ UNCHANGED <<h, haveData, excused>>
     \/ \E f \in At(name[c]) :
          \/ ~Opens(f) /\ Leave(c, "err") /\ NoFault /\ UNCHANGED <<h, haveData, excused>>
          \/ Opened(c, f) /\ Goto(c, "r_ex") /\ UNCHANGED res
     \/ Leave(c, "err") /\ Fault /\ UNCHANGED <<h, haveData, excused>>

\* h takes newname; what had the name is replaced, and so may die.
Installs(c) ==
  /\ where' = Moved(h[c], newname[c])
  /\ doomed' = doomed \cup (At(newname[c]) \ {h[c]})
  /\ excused' = excused \cup Contested(c, h[c])

\* FileRenameInformationEx; every failure leads to the plain rename.
REx(c) ==
  /\ pc[c] = "r_ex"
  /\ StillDisk /\ UNCHANGED <<readonly, pending, args, h, h2, haveData, aside>>
  /\ \/ /\ volume = "posix" /\ CanMove(h[c]) /\ CanReplaceEx(h[c], newname[c])
        /\ Installs(c) /\ Leave(c, "nil") /\ NoFault
     \/ /\ \/ NoFault /\ ~(/\ volume = "posix" /\ CanMove(h[c])
                           /\ CanReplaceEx(h[c], newname[c]))
           \/ volume = "posix" /\ Fault
        /\ Goto(c, "r_plain") /\ UNCHANGED <<where, doomed, excused, res>>

\* FileRenameInformation.  A failure with ACCESS_DENIED, where there are no POSIX
\* semantics, goes on to replaceRenameTarget; the source must be known not to be
\* a directory.  With which status a rename fails is the kernel's choice; a source
\* that has the name already and is refused it may end up anywhere.
RPlain(c) ==
  LET can == CanMove(h[c]) /\ CanReplace(h[c], newname[c])
  IN
  /\ pc[c] = "r_plain"
  /\ StillDisk /\ UNCHANGED <<readonly, pending, args, h, h2, haveData, aside>>
  /\ \/ can /\ Installs(c) /\ Leave(c, "nil") /\ NoFault
     \/ /\ \/ ~can /\ NoFault
           \/ Fault
        /\ \/ /\ volume # "posix" /\ haveData[c] /\ kind[h[c]] # "dir"
              /\ Goto(c, "r_target") /\ UNCHANGED res
              /\ excused' = excused \cup ({h[c]} \cap At(newname[c]))
           \/ Leave(c, "err") /\ UNCHANGED excused
        /\ UNCHANGED <<where, doomed>>

RTarget(c) ==
  /\ pc[c] = "r_target"
  /\ StillDisk /\ UNCHANGED <<where, readonly, pending, args, h, haveData, aside, doomed, excused>>
  /\ \/ \E t \in At(newname[c]) :
          /\ Opens(t) /\ h2' = [h2 EXCEPT ![c] = t]
          /\ Goto(c, "r_info") /\ NoFault /\ UNCHANGED res
     \/ /\ Leave(c, "err") /\ UNCHANGED h2
        /\ \/ (\A t \in At(newname[c]) : ~Opens(t)) /\ NoFault
           \/ Fault

\* A read-only target, and a directory not known to be a link, are left alone.
\* XP cannot tell: it lacks GetFileInformationByHandleEx.
RInfo(c) ==
  /\ pc[c] = "r_info"
  /\ StillDisk
  /\ UNCHANGED <<where, readonly, pending, args, h, h2, haveData, aside, doomed, excused>>
  /\ \/ /\ h2[c] \notin readonly /\ kind[h2[c]] # "dir"
        /\ Goto(c, "r_aside") /\ NoFault /\ UNCHANGED res
     \/ /\ Leave(c, "err")
        /\ \/ (h2[c] \in readonly \/ kind[h2[c]] # "file") /\ NoFault
           \/ Fault

RAside(c) ==
  /\ pc[c] = "r_aside"
  /\ StillDisk /\ UNCHANGED <<readonly, pending, args, h, h2, haveData, aside, doomed, excused>>
  /\ \/ /\ CanMove(h2[c]) /\ where' = Moved(h2[c], h2[c])
        /\ Goto(c, "r_retry") /\ NoFault /\ UNCHANGED res
     \/ /\ Leave(c, "err") /\ UNCHANGED where
        /\ \/ ~CanMove(h2[c]) /\ NoFault
           \/ Fault

\* rename() again.  Once it has succeeded the moved target may be deleted.
RRetry(c) ==
  /\ pc[c] = "r_retry"
  /\ StillDisk /\ UNCHANGED <<readonly, pending, args, h, h2, haveData, aside>>
  /\ \/ /\ CanMove(h[c]) /\ CanReplace(h[c], newname[c])
        /\ where' = Moved(h[c], newname[c])
        /\ doomed' = doomed \cup {h2[c]} \cup (At(newname[c]) \ {h[c]})
        /\ Goto(c, "r_mark") /\ Result(c, "nil") /\ NoFault
        /\ excused' = excused \cup Contested(c, h[c])
     \/ /\ Goto(c, "back") /\ Result(c, "err") /\ UNCHANGED <<where, doomed, excused>>
        /\ \/ ~(CanMove(h[c]) /\ CanReplace(h[c], newname[c])) /\ NoFault
           \/ Fault

\* setFileDispositionByHandle(th); its result is ignored.
RMark(c) ==
  /\ pc[c] = "r_mark"
  /\ Goto(c, "close")
  /\ StillDisk /\ UNCHANGED <<where, readonly, args, h, h2, haveData, aside, res, doomed>>
  /\ \/ /\ h2[c] \notin readonly /\ pending' = pending \cup {h2[c]}
        /\ NoFault /\ UNCHANGED excused
     \/ /\ excused' = excused \cup {h2[c]} /\ UNCHANGED pending /\ Fault

----------------------------------------------------------------------------
(* Calls, other programs, and crashes.                                     *)

\* c begins a call that r describes, at step l with option o.
Begins(c, r, l, o) ==
  /\ pc[c] = "idle" /\ calls[c] < MaxCalls
  /\ Goto(c, l)
  /\ name' = [name EXCEPT ![c] = r.name] /\ newname' = [newname EXCEPT ![c] = r.newname]
  /\ opt' = [opt EXCEPT ![c] = o] /\ UNCHANGED ret
  /\ calls' = [calls EXCEPT ![c] = @ + 1] /\ trouble' = TRUE
  /\ UNCHANGED <<disk, where, readonly, pending, holds, h, h2, haveData, aside,
                 res, doomed, excused, upsets>>

Deletes(c) == \E r \in Requests[c] : r.op = "delete" /\ Begins(c, r, "d_open", "any")

Renames(c) == \E r \in Requests[c] : r.op = "rename" /\ Begins(c, r, "r_open", "rename")

AtStep(c) ==
  \/ DOpen(c) \/ DEx(c) \/ DInfo(c) \/ DReopen(c) \/ DClear(c) \/ DAside(c)
  \/ DMark(c) \/ Back(c) \/ Close(c)
  \/ ROpen(c) \/ REx(c) \/ RPlain(c) \/ RTarget(c) \/ RInfo(c) \/ RAside(c)
  \/ RRetry(c) \/ RMark(c)

Meddle == Upset /\ UNCHANGED <<disk, readonly, pending, listing, pc, args, h, h2, haveData,
                              aside, res, doomed, excused, calls>>

OtherOpens(f) ==
  /\ Meddle /\ Opens(f) /\ where[f] \in Names \cup {Top} /\ f \notin shared
  /\ shared' = shared \cup {f} /\ trouble' = (trouble \/ Blocks(f, kind[f], volume))
  /\ UNCHANGED <<where, denied>>

OtherDenies(f) ==
  /\ Meddle /\ Opens(f) /\ where[f] \in Names \cup {Top} /\ ~Held(f)
  /\ denied' = denied \cup {f} /\ trouble' = TRUE
  /\ UNCHANGED <<where, shared>>

OtherCreates(f) ==
  /\ Meddle /\ where[f] = "unborn" /\ Base \notin pending /\ where[Base] # "gone"
  /\ \E nm \in Names : At(nm) = {} /\ where' = Moved(f, nm)
  /\ trouble' = TRUE /\ UNCHANGED <<shared, denied>>

OtherMoves(f) ==
  /\ Meddle /\ Opens(f) /\ where[f] \in Names
  /\ where' = [where EXCEPT ![f] = "away"] /\ trouble' = TRUE /\ UNCHANGED <<shared, denied>>

OtherCloses(f) ==
  /\ f \in shared \cup denied
  /\ shared' = shared \ {f} /\ denied' = denied \ {f} /\ UNCHANGED <<listing, h, h2, pending>>
  /\ Settle({})
  /\ UNCHANGED <<disk, readonly, pc, args, haveData, aside, res, doomed, excused,
                 trouble, calls, upsets>>

\* A crash closes the handles of the program and undoes nothing.
Crash(c) ==
  /\ pc[c] \notin {"idle", "crashed"} /\ Upset
  /\ Goto(c, "crashed")
  /\ h' = [h EXCEPT ![c] = NoFile] /\ h2' = [h2 EXCEPT ![c] = NoFile]
  /\ listing' = listing \ {c}
  /\ excused' = excused \cup ({h[c], h2[c]} \ {NoFile})
  /\ trouble' = TRUE /\ UNCHANGED <<pending, shared, denied>>
  /\ Settle(IF volume = "posix" /\ pc[c] = "close" /\ res[c] = "nil" THEN {h[c]} ELSE {})
  /\ UNCHANGED <<disk, readonly, args, haveData, aside, res, doomed, calls>>

Others ==
  \/ \E f \in Objects : OtherOpens(f) \/ OtherDenies(f) \/ OtherCloses(f)
  \/ \E f \in Files : OtherCreates(f) \/ OtherMoves(f)
  \/ \E c \in Callers : Crash(c)

----------------------------------------------------------------------------
(* Properties.                                                             *)

\* No file is lost or harmed by mistake: only a file that Deleteat was asked to
\* delete, or that a rename has already put its source in place of, is deleted,
\* is marked for it, or loses its read-only attribute, whatever step fails or
\* crashes and although names change hands between steps ("a crash between the
\* steps leaves an extra file rather than a missing one", Renameat; "Clear the
\* attribute only on the entry h holds", deleteatFallback).
OnlyNamedFilesHarmed ==
  pending \cup At("gone") \cup (protected \ readonly) \subseteq doomed

\* A file set aside is on its way to deletion, or some call still holds it and
\* deletes it or puts it back; it stays a stray only after a crash, a failed
\* call, or when its name was taken (deleteatFallback, replaceRenameTarget).
StraysExplained ==
  \A f \in Files : where[f] = f => f \in pending \/ Held(f) \/ f \in excused

\* When Deleteat has deleted a plain file its name is free at once, even though
\* other programs hold the file open, unless a caller may not read its
\* attributes, the move failed, or another call moved the file back
\* (deleteatFallback: "the name goes now and the file itself goes when the last
\* handle does").
DeleteFreesName ==
  \A c \in Callers :
    (/\ pc[c] = "close" /\ opt[c] # "rename" /\ res[c] = "nil"
     /\ volume # "posix" /\ kind[h[c]] = "file" /\ h[c] \notin excused)
      => where[h[c]] # name[c] \/ name[c] = h[c]

=============================================================================
