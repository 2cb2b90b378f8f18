----------------------------- MODULE RemoveAll -----------------------------
(***************************************************************************)
(* removeAllFrom (os/removeall_at.go) on Windows: the walk that removes a  *)
(* directory with the Deleteat of module AtWindows.  Base holds files,     *)
(* links and empty directories; it is read in pages of ReqSize names and   *)
(* opened again after each page that lost an entry.                        *)
(***************************************************************************)
EXTENDS AtWindows

CONSTANT ReqSize        \* names asked of Readdirnames (1024 in the code)

ASSUME ReqAssumption == ReqSize \in Nat \ {0}

VARIABLES todo,         \* names of the page still to be removed
          listed,       \* names this handle has returned
          respSize, numErr,
          recurseErr,   \* some entry could not be removed
          answer        \* what removeAllFrom returned: "none" while it runs

walkVars == <<todo, listed, respSize, numErr, recurseErr, answer>>
vars == <<atVars, walkVars>>

\* Names a listing of Base gives: a file set aside in Base has one too.
EntryNames == {where[f] : f \in Inside}

TypeOK ==
  /\ AtTypeOK
  /\ \A c \in Callers :
       /\ todo[c] \subseteq listed[c] /\ listed[c] \subseteq Names \cup Files
       /\ respSize[c] \in 0..ReqSize /\ numErr[c] \in 0..respSize[c]
       /\ recurseErr[c] \in BOOLEAN /\ answer[c] \in {"none", "nil", "err"}

Init ==
  /\ AtInit
  /\ todo = [c \in Callers |-> {}] /\ listed = [c \in Callers |-> {}]
  /\ respSize = [c \in Callers |-> 0] /\ numErr = [c \in Callers |-> 0]
  /\ recurseErr = [c \in Callers |-> FALSE] /\ answer = [c \in Callers |-> "none"]

----------------------------------------------------------------------------
\* Everything but the caller's place and, possibly, its listing handle.
Quiet == UNCHANGED <<disk, where, readonly, pending, shared, denied, h, h2, haveData,
                     aside, doomed, excused, calls>>

Succeeded(c) == res[c] \in {"nil", "notexist"}

Returns(c, a) ==
  /\ Goto(c, "idle") /\ answer' = [answer EXCEPT ![c] = a] /\ Forget(c)
  /\ todo' = [todo EXCEPT ![c] = {}] /\ listed' = [listed EXCEPT ![c] = {}]
  /\ respSize' = [respSize EXCEPT ![c] = 0] /\ numErr' = [numErr EXCEPT ![c] = 0]
  /\ recurseErr' = [recurseErr EXCEPT ![c] = FALSE]

\* removefileat(parentFd, base).
RemoveAllCall(c) ==
  /\ pc[c] = "idle" /\ calls[c] < MaxCalls /\ (\E r \in Requests[c] : r.op = "removeall")
  /\ CallDelete(c, Top, "file", "w_first")
  /\ calls' = [calls EXCEPT ![c] = @ + 1]
  /\ answer' = [answer EXCEPT ![c] = "none"]
  /\ recurseErr' = [recurseErr EXCEPT ![c] = FALSE]
  /\ trouble' = (trouble \/ \E b \in Callers : calls[b] > 0)
  /\ UNCHANGED <<disk, where, readonly, pending, holds, h, h2, haveData, aside, res,
                 doomed, excused, upsets, todo, listed, respSize, numErr>>

First(c) ==
  /\ pc[c] = "w_first" /\ Quiet /\ NoFault /\ UNCHANGED listing
  /\ \/ Succeeded(c) /\ Returns(c, "nil")
     \/ res[c] = "err" /\ Returns(c, "err")
     \/ res[c] = "isdir" /\ Goto(c, "w_opendir") /\ UNCHANGED <<args, res, walkVars>>

\* openDirAt(parentFd, base).
OpenDir(c) ==
  /\ pc[c] = "w_opendir" /\ Quiet
  /\ \/ At(Top) = {} /\ Returns(c, "nil") /\ NoFault /\ UNCHANGED listing
     \/ /\ At(Top) # {} /\ Base \notin pending
        /\ Goto(c, "w_read") /\ listing' = listing \cup {c}
        /\ listed' = [listed EXCEPT ![c] = {}] /\ NoFault
        /\ UNCHANGED <<args, res, todo, respSize, numErr, recurseErr, answer>>
     \/ /\ Goto(c, "w_rmdir") /\ recurseErr' = [recurseErr EXCEPT ![c] = TRUE]
        /\ UNCHANGED <<listing, args, res, todo, listed, respSize, numErr, answer>>
        /\ \/ At(Top) # {} /\ Base \in pending /\ NoFault
           \/ Fault

\* The handle that lists Base is closed; Base goes if it was the last one.
CloseListing(c) == listing' = listing \ {c} /\ UNCHANGED <<disk, h, h2, pending, shared, denied>> /\ Settle({})

\* file.Readdirnames(reqSize): the next names, or none at the end.
Page(c) ==
  /\ \E page \in SUBSET (EntryNames \ listed[c]) :
       LET rest == Cardinality(EntryNames \ listed[c]) IN
       /\ Cardinality(page) = IF rest < ReqSize THEN rest ELSE ReqSize
       /\ todo' = [todo EXCEPT ![c] = page]
       /\ listed' = [listed EXCEPT ![c] = @ \cup page]
       /\ respSize' = [respSize EXCEPT ![c] = Cardinality(page)]
  /\ numErr' = [numErr EXCEPT ![c] = 0]
  /\ Goto(c, "w_next") /\ NoFault
  /\ UNCHANGED <<disk, where, pending, holds, h, h2, args, res, recurseErr, answer>>

\* Mutant: a listing that says Base does not exist is believed.
ListingBelieved(c) == CloseListing(c) /\ Returns(c, "nil") /\ Fault

\* A listing error that says Base does not exist ends the walk; any other is
\* returned.
ListingFails(c) ==
  /\ CloseListing(c) /\ Fault
  /\ \/ Returns(c, "err")
     \/ Goto(c, "w_rmdir") /\ UNCHANGED <<args, res, walkVars>>

Read(c) ==
  /\ pc[c] = "w_read" /\ (Page(c) \/ ListingFails(c))
  /\ UNCHANGED <<readonly, haveData, aside, doomed, excused, calls>>

\* Mutant: the directory is opened again although no entry could be removed.
PageEndReopens(c) ==
  /\ CloseListing(c) /\ UNCHANGED <<args, walkVars>>
  /\ Goto(c, IF respSize[c] < ReqSize THEN "w_rmdir" ELSE "w_opendir")

\* The page is done: the next one is read from the same handle if no entry
\* could be removed, and otherwise the directory is opened again.
PageEnd(c) ==
  \/ /\ numErr[c] = ReqSize /\ Goto(c, "w_read")
     /\ UNCHANGED <<disk, where, pending, holds, h, h2, args, walkVars>>
  \/ /\ numErr[c] # ReqSize /\ CloseListing(c) /\ UNCHANGED <<args, walkVars>>
     /\ Goto(c, IF respSize[c] < ReqSize THEN "w_rmdir" ELSE "w_opendir")

NextName(c) ==
  /\ pc[c] = "w_next" /\ NoFault
  /\ UNCHANGED <<readonly, haveData, aside, res, doomed, excused, calls>>
  /\ \/ \E nm \in todo[c] :
          /\ CallDelete(c, nm, "file", "w_child")
          /\ todo' = [todo EXCEPT ![c] = @ \ {nm}]
          /\ UNCHANGED <<disk, where, pending, holds, h, h2, listed, respSize, numErr,
                         recurseErr, answer>>
     \/ todo[c] = {} /\ PageEnd(c)

\* removeAllFrom on an entry returned an error.
EntryFails(c) ==
  /\ numErr' = [numErr EXCEPT ![c] = @ + 1]
  /\ recurseErr' = [recurseErr EXCEPT ![c] = TRUE]
  /\ Goto(c, "w_next") /\ UNCHANGED <<args, res, todo, listed, respSize, answer>>

Child(c) ==
  /\ pc[c] = "w_child" /\ Quiet /\ NoFault /\ UNCHANGED listing
  /\ \/ Succeeded(c) /\ Goto(c, "w_next") /\ UNCHANGED <<args, res, walkVars>>
     \/ res[c] = "err" /\ EntryFails(c)
     \/ res[c] = "isdir" /\ Goto(c, "w_sub") /\ UNCHANGED <<args, res, walkVars>>

\* The entry is a directory, which is empty, or a link, which openDirAt refuses;
\* both are then removed with removedirat.
Sub(c) ==
  /\ pc[c] = "w_sub" /\ Quiet /\ NoFault /\ UNCHANGED listing
  /\ \/ At(name[c]) = {} /\ Goto(c, "w_next") /\ UNCHANGED <<args, res, walkVars>>
     \/ \E f \in At(name[c]) :
          IF kind[f] = "file" /\ f \notin pending THEN EntryFails(c)
          ELSE CallDelete(c, name[c], "dir", "w_gone") /\ UNCHANGED <<res, walkVars>>

Gone(c) ==
  /\ pc[c] = "w_gone" /\ Quiet /\ NoFault /\ UNCHANGED listing
  /\ IF Succeeded(c) THEN Goto(c, "w_next") /\ UNCHANGED <<args, res, walkVars>>
     ELSE EntryFails(c)

\* removedirat(parentFd, base).
RmDir(c) ==
  /\ pc[c] = "w_rmdir" /\ Quiet /\ NoFault /\ UNCHANGED listing
  /\ CallDelete(c, Top, "dir", "w_last") /\ UNCHANGED <<res, walkVars>>

Last(c) ==
  /\ pc[c] = "w_last" /\ Quiet /\ NoFault /\ UNCHANGED listing
  /\ Returns(c, IF Succeeded(c) THEN "nil" ELSE "err")

Walk(c) ==
  \/ First(c) \/ OpenDir(c) \/ Read(c) \/ NextName(c) \/ Child(c) \/ Sub(c)
  \/ Gone(c) \/ RmDir(c) \/ Last(c)

Step(c) == Walk(c) \/ (AtStep(c) /\ UNCHANGED walkVars)

Next ==
  \/ \E c \in Callers : Step(c) \/ RemoveAllCall(c)
  \/ \E c \in Callers : (Deletes(c) \/ Renames(c)) /\ UNCHANGED walkVars
  \/ Others /\ UNCHANGED walkVars

Spec == Init /\ [][Next]_vars

\* A goroutine goes on with its call.
FairSpec == Spec /\ \A c \in Callers : WF_vars(Step(c))

----------------------------------------------------------------------------
(* Properties.                                                             *)

\* A RemoveAll that returns nil leaves no directory behind: it is deleted, or
\* goes with the last handle another program has to it.  This holds although a
\* listing that says the directory does not exist may be wrong ("let removedirat
\* answer instead", removeAllFrom).
NilMeansGone ==
  \A c \in Callers : answer[c] = "nil" => Base \in pending \/ where[Base] = "gone"

\* A RemoveAll that fails had a reason: a call that failed, a program that held
\* an entry without sharing deletion, another call on the same names.  A plain
\* file some program merely has open is not one, where the staging directory is
\* on the volume (deleteatFallback: "the directory holding it could not be
\* removed. Move the file aside first").
HeldFilesDoNotBlock ==
  \A c \in Callers : answer[c] = "err" => trouble

\* Every RemoveAll returns: opening the directory again after each page cannot
\* go on for ever, although entries that cannot be removed stay in it.
RemoveAllReturns ==
  \A c \in Callers : pc[c] # "idle" ~> pc[c] \in {"idle", "crashed"}

=============================================================================
