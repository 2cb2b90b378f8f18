------------------------------ MODULE MCReadDir ------------------------------
\* Instances of ReadDir for TLC.
EXTENDS ReadDir, TLC

CONSTANTS r1, r2

ReaderSymmetry == Permutations(Readers)

Modern == [class |-> "FullRestart", knows |-> {"Full", "IdBoth"}, continues |-> TRUE,
           vista |-> TRUE, nt |-> TRUE, isDir |-> TRUE, overlapped |-> FALSE]
WithFileIDs == [Modern EXCEPT !.class = "IdBothRestart"]
Windows7 == [Modern EXCEPT !.knows = {"IdBoth"}]
OldShare == [Modern EXCEPT !.knows = {}]
XP == [Modern EXCEPT !.knows = {}, !.vista = FALSE]
XPOverlapped == [XP EXCEPT !.overlapped = TRUE]
ByName == [XP EXCEPT !.nt = FALSE]
RegularFile == [XP EXCEPT !.nt = FALSE, !.isDir = FALSE]

AllFileSystems == {Modern, WithFileIDs, Windows7, OldShare, XP, XPOverlapped,
                   ByName, RegularFile}

\* An empty directory; one with an entry that takes a larger buffer; one with
\* an entry that fits no buffer.
SmallDirectories == {<<>>, <<1, 2, 1>>, <<1, 4, 1>>}

AskedFor == {2, -1}

\* For calls that race with Seek.
OnXP == {XP}
OneEntry == {<<1>>}
=============================================================================
