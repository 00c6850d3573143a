--------------------------- MODULE MCFileResponse ---------------------------
EXTENDS FileResponse, TLC

CONSTANTS w1, w2, host, path, file1, page

MCKeys == {<<host, path>>}
MCFileOf == [k \in Keys |-> file1]
\* local time is one second ahead of UTC, and level with it in the end, as when
\* daylight saving ends
MCZone == [t \in Time \cup {NoTime} |-> IF t < 3 THEN 1 ELSE 0]

MCSymmetry == Permutations(Workers)
=============================================================================
