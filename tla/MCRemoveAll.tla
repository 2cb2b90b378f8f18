---------------------------- MODULE MCRemoveAll ----------------------------
(* Instances of RemoveAll for TLC. *)
EXTENDS RemoveAll

Disk(kf, kg, pg, ro, hs, v) ==
  [kind |-> [f |-> kf, g |-> kg], where |-> [f |-> "a", g |-> pg],
   readonly |-> ro, held |-> hs, volume |-> v]

\* Every kind of volume; plain files, links and directories; idle and held,
\* read-only or not; and a name that another program may take.
SmallDisks ==
  {Disk("file", "file", "b", {"f"}, {"g"}, "posix"),
   Disk("link", "dir", "b", {}, {"f"}, "posix"),
   Disk("file", "file", "b", {"f", "g"}, {}, "staged"),
   Disk("file", "file", "b", {}, {"f"}, "staged"),
   Disk("link", "file", "b", {}, {}, "staged"),
   Disk("file", "dir", "unborn", {"f"}, {"f"}, "staged"),
   Disk("file", "dir", "b", {}, {"f"}, "unstaged"),
   [Disk("file", "dir", "unborn", {}, {}, "staged") EXCEPT !.where.f = "unborn"]}

Request(o, n, m) == [op |-> o, name |-> n, newname |-> m]
WalkerAndOther ==
  [c1 |-> {Request("removeall", "top", "top")},
   c2 |-> {Request("delete", "a", "top"), Request("rename", "b", "a"),
           Request("delete", "top", "top")}]
=============================================================================
