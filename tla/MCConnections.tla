--------------------------- MODULE MCConnections ---------------------------
EXTENDS Connections, TLC

CONSTANTS c1, c2, c3, w1, w2, addr1, addr2

\* a client that sends a request in two segments and continues it with a
\* header that std::stoi rejects, one that sends a complete request at once,
\* and one that connects and sends nothing
MCScript ==
    [c \in Conns |-> CASE c = c1 -> <<"part", "rest", "throws">>
                       [] c = c2 -> <<"ok">>
                       [] OTHER -> <<>>]

\* every client sends one request in one piece
MCOneSegment == [c \in Conns |-> <<"ok">>]

MCAddress == [c \in Conns |-> IF c = c1 THEN addr1 ELSE addr2]

\* the workers are not told apart
MCSymmetry == Permutations(Workers)
=============================================================================
