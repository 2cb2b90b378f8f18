---------------------------- MODULE RemoveAllInv ----------------------------
(***************************************************************************)
(* The invariants of Deleteat, Renameat and RemoveAll that their proofs    *)
(* rest on.  IInv accounts for every file that is touched or set aside;    *)
(* FInv, on top of it, says when a name is free.                           *)
(***************************************************************************)
EXTENDS RemoveAll

DSteps == {"d_ex", "d_info", "d_reopen", "d_clear", "d_aside", "d_mark"}
RSteps == {"r_ex", "r_plain", "r_target", "r_info", "r_aside", "r_retry", "r_mark"}
Busy == DSteps \cup RSteps \cup {"back"}
Between == {"idle", "w_first", "w_opendir", "w_read", "w_next", "w_child", "w_sub",
            "w_gone", "w_rmdir", "w_last"}
PCs == Busy \cup Between \cup {"d_open", "r_open", "close", "crashed"}
Verdicts == {"w_first", "w_last"}   \* where removeAllFrom believes Deleteat on Base

Shape ==
  /\ where \in [Objects -> Places] /\ pending \subseteq Objects
  /\ pc \in [Callers -> PCs] /\ ret \in [Callers -> Between]
  /\ name \in [Callers -> Names \cup Files \cup {Top}]
  /\ newname \in [Callers -> Names \cup {Top}]
  /\ opt \in [Callers -> Options] /\ aside \in [Callers -> BOOLEAN]
  /\ h \in [Callers -> Objects \cup {NoFile}] /\ h2 \in [Callers -> Objects \cup {NoFile}]
  /\ res \in [Callers -> Results] /\ answer \in [Callers -> {"none", "nil", "err"}]
  /\ todo \in [Callers -> SUBSET (Names \cup Files)]

\* Only a file itself is ever at the name made from its id.
OwnPlace == \A f \in Objects : where[f] \in Objects => where[f] = f

\* Base has its name until it is gone, and nothing else has.
BaseStays ==
  /\ kind[Base] = "dir" /\ where[Base] \in {Top, "gone"}
  /\ \A f \in Files : where[f] # Top

BaseGone == Base \in pending \/ where[Base] = "gone"

\* What a call knows of its arguments and handles, from where it is.
HandlesOf(c) ==
  /\ pc[c] \in Busy => h[c] \in Objects
  /\ pc[c] \in DSteps => h[c] \in doomed
  /\ pc[c] \in DSteps \cup {"d_open"} => opt[c] # "rename"
  /\ pc[c] \in RSteps \cup {"r_open"} => opt[c] = "rename"
  /\ pc[c] \in {"d_clear", "r_info", "r_aside", "r_retry", "r_mark"} => h2[c] \in Objects
  /\ pc[c] = "r_mark" => h2[c] \in doomed
  /\ opt[c] = "rename" => name[c] \in Names /\ newname[c] \in Names
  /\ pc[c] \in Busy /\ name[c] \in Objects => h[c] = name[c]

\* Which calls have Base, and what they say of it.
BaseOf(c) ==
  /\ pc[c] = "idle" \/ opt[c] = "rename" => ret[c] = "idle"
  /\ pc[c] \in Verdicts => ret[c] \in Verdicts
  /\ ret[c] \in Verdicts => name[c] = Top
  /\ pc[c] \in DSteps /\ name[c] = Top => h[c] = Base
  /\ pc[c] \in RSteps => h[c] # Base
  /\ pc[c] \in DSteps /\ aside[c] => h[c] # Base
  /\ pc[c] = "back" /\ opt[c] # "rename" => h[c] # Base /\ name[c] # Top
  /\ pc[c] \in {"r_aside", "r_retry", "r_mark", "back"} /\ opt[c] = "rename" => h2[c] # Base
  /\ pc[c] \in Verdicts \cup {"close"} /\ ret[c] \in Verdicts /\ Succeeded(c) => BaseGone
  /\ answer[c] = "nil" => BaseGone

\* c has set f aside, and deletes it or puts it back yet.
Responsible(c, f) ==
  \/ /\ pc[c] \in {"d_mark", "back"} /\ opt[c] # "rename" /\ aside[c]
     /\ h[c] = f /\ name[c] # f
  \/ pc[c] \in {"r_retry", "r_mark", "back"} /\ opt[c] = "rename" /\ h2[c] = f

Accounted ==
  \A f \in Files : where[f] = f => \/ f \in pending \cup excused
                                   \/ \E c \in Callers : Responsible(c, f)

\* A call that found a file at the name made from its id has it still there.
FoundAside ==
  \A c \in Callers : pc[c] \in Busy /\ name[c] \in Objects
                       => where[h[c]] = h[c] \/ h[c] \in pending \cup excused

IInv == /\ Shape /\ OwnPlace /\ BaseStays /\ OnlyNamedFilesHarmed
        /\ (\A c \in Callers : HandlesOf(c)) /\ (\A c \in Callers : BaseOf(c))
        /\ Accounted /\ FoundAside

\* Files stay where they are, but marked ones may go.
Settles ==
  \A f \in Objects : where'[f] = where[f] \/ (f \in pending /\ where'[f] = "gone")

----------------------------------------------------------------------------
(* When a name is free.                                                    *)

\* Two files are never at one name.
OneEach == \A f, g \in Objects : where[f] \in Names /\ where[g] = where[f] => f = g

\* f has no name in Base any more, or only the one made from its id.
Off(f) == where[f] \in {f, "away", "gone"}

\* A file that a call holds, and nothing excuses, leaves the name the call found
\* it at only to be off; it is off when the call marks it.  The target of a
\* rename is off from the moment it is set aside.
FreesOf(c) ==
  /\ pc[c] \in DSteps \ {"d_ex"} => volume # "posix"
  /\ pc[c] \in DSteps /\ ~haveData[c] => h[c] \in excused
  /\ pc[c] \in DSteps /\ h[c] \notin excused => Off(h[c]) \/ where[h[c]] = name[c]
  /\ pc[c] = "d_mark" /\ kind[h[c]] = "file" /\ h[c] \notin excused => Off(h[c])
  /\ pc[c] = "back" => res[c] # "nil"
  /\ pc[c] \in {"r_ex", "r_plain"} /\ h[c] \notin excused => where[h[c]] # "unborn"
  /\ pc[c] = "r_target" /\ h[c] \notin excused => where[h[c]] \notin {newname[c], "unborn"}
  /\ pc[c] \in {"r_info", "r_aside", "r_retry", "r_mark"} => h2[c] # h[c] \/ h[c] \in excused
  /\ pc[c] \in {"r_retry", "r_mark"} /\ h2[c] \notin excused => Off(h2[c])
  /\ pc[c] = "close" /\ opt[c] # "rename" /\ res[c] = "nil" /\ volume # "posix"
       => h[c] \in pending

\* A marked file is off.
MarkedOff ==
  volume # "posix" => \A f \in pending \ excused : kind[f] = "file" => Off(f)

FInv ==
  /\ haveData \in [Callers -> BOOLEAN] /\ OneEach /\ MarkedOff
  /\ \A c \in Callers : FreesOf(c)

=============================================================================
