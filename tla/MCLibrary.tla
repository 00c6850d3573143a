----------------------------- MODULE MCLibrary -----------------------------
EXTENDS Library, TLC

\* lengths of every remainder by three; octets with the sign bit, zeros
MCTexts == { <<0>>, <<255, 128>>, <<7, 0, 77>>, <<1, 2, 3, 255>> }

MCSymmetry == Permutations(Threads) \cup Permutations(Logs) \cup Permutations(Ids)
=============================================================================
