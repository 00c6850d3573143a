------------------------------ MODULE Sockets ------------------------------
(***************************************************************************)
(* The operating system as main.cpp and server.cpp use it: the process's   *)
(* descriptor table, the listening socket's queue, one TCP connection per  *)
(* client, and the edge-triggered epoll instance; and the clients, who     *)
(* connect, send their request in one or more segments, and may hang up.   *)
(* None of this is code of the repository; it is modelled from its calls   *)
(* to socket, listen, accept, epoll_*, read, write and close.              *)
(***************************************************************************)
EXTENDS Naturals, Sequences, FiniteSets

CONSTANTS
    Conns,          \* connections clients may open, one per client
    Workers,        \* threads; a thread stands for the file it has open
    MaxFd,          \* the process may hold descriptors 1 .. MaxFd
    QueueSize,      \* CONNECTION_QUEUE_SIZE
    Script,         \* Script[c]: the segments the client of c sends, in order
    Impatient,      \* clients that may hang up before they are answered
    Free, Listener, Epoll

Descriptors == 1 .. MaxFd

\* the two descriptors main() opens before anything else and keeps
sockfd == 1
efd == 2

VARIABLES
    descriptor,     \* what each descriptor of the process refers to
    backlog,        \* established connections not yet accepted
    conn,           \* state of each connection
    interest,       \* connections registered with epoll
    edges,          \* registered connections in epoll's ready list
    listen_edge     \* the listening socket is in the ready list

socketVars == <<descriptor, backlog, conn, interest, edges, listen_edge>>

(* end: "open" while the client may still send; "fin" once it has closed   *)
(* its side; "rst" once it has reset the connection; "pipe" when the next  *)
(* write raises SIGPIPE: a reset after a close, or one already reported.   *)
Connection == [phase : {"away", "pending", "open", "closed"},
               sent : Nat, read : Nat, end : {"open", "fin", "rst", "pipe"}]

SocketsTypeOK ==
    /\ descriptor \in [Descriptors -> Conns \cup Workers \cup {Free, Listener, Epoll}]
    /\ backlog \in Seq(Conns)
    /\ conn \in [Conns -> Connection]
    /\ interest \subseteq Conns
    /\ edges \subseteq Conns
    /\ listen_edge \in BOOLEAN

SocketsInit ==
    /\ descriptor = [d \in Descriptors |->
                        IF d = sockfd THEN Listener ELSE IF d = efd THEN Epoll ELSE Free]
    /\ backlog = <<>>
    /\ conn = [c \in Conns |-> [phase |-> "away", sent |-> 0, read |-> 0, end |-> "open"]]
    /\ interest = {}
    /\ edges = {}
    /\ listen_edge = FALSE
-----------------------------------------------------------------------------
Unread(c) == conn[c].sent - conn[c].read
Readable(c) == Unread(c) > 0 \/ conn[c].end # "open"
Broken(c) == conn[c].end \in {"rst", "pipe"}

\* POSIX: the lowest free descriptor is handed out
FreeDescriptors == {d \in Descriptors : descriptor[d] = Free}
IsNextDescriptor(d) == d \in FreeDescriptors /\ \A e \in FreeDescriptors : d <= e

\* an event that makes c readable puts it in the ready list if it is registered
Signal(c) == edges' = IF c \in interest THEN edges \cup {c} ELSE edges

Connect(c) ==
    /\ conn[c].phase = "away"
    /\ Len(backlog) < QueueSize
    /\ conn' = [conn EXCEPT ![c].phase = "pending"]
    /\ backlog' = Append(backlog, c)
    /\ listen_edge' = TRUE
    /\ UNCHANGED <<descriptor, interest, edges>>

Send(c) ==
    /\ conn[c].phase \in {"pending", "open"}
    /\ conn[c].end = "open"
    /\ conn[c].sent < Len(Script[c])
    /\ conn' = [conn EXCEPT ![c].sent = @ + 1]
    /\ Signal(c)
    /\ UNCHANGED <<descriptor, backlog, interest, listen_edge>>

HangUp(c, end) ==
    /\ c \in Impatient
    /\ conn[c].phase \in {"pending", "open"}
    /\ <<conn[c].end, end>> \in {<<"open", "fin">>, <<"open", "rst">>, <<"fin", "pipe">>}
    /\ conn' = [conn EXCEPT ![c].end = end]
    /\ Signal(c)
    /\ UNCHANGED <<descriptor, backlog, interest, listen_edge>>

Client(c) == Connect(c) \/ Send(c) \/ \E end \in {"fin", "rst", "pipe"} : HangUp(c, end)
-----------------------------------------------------------------------------
\* accept(): the oldest queued connection gets descriptor d
AcceptConnection(d) ==
    /\ descriptor' = [descriptor EXCEPT ![d] = Head(backlog)]
    /\ conn' = [conn EXCEPT ![Head(backlog)].phase = "open"]
    /\ backlog' = Tail(backlog)
    /\ UNCHANGED <<interest, edges, listen_edge>>

\* epoll_ctl(EPOLL_CTL_ADD) on connection c; data already there counts as an edge
Watch(c) ==
    /\ interest' = interest \cup {c}
    /\ edges' = IF Readable(c) THEN edges \cup {c} ELSE edges
    /\ UNCHANGED <<descriptor, backlog, conn, listen_edge>>

\* close(d): EBADF on a free descriptor; the last reference to a connection
\* ends it and removes it from epoll
Close(d) ==
    LET gone == {descriptor[d]} \cap Conns
    IN  /\ descriptor' = [descriptor EXCEPT ![d] = Free]
        /\ conn' = [c \in Conns |->
                       IF c \in gone THEN [conn[c] EXCEPT !.phase = "closed"] ELSE conn[c]]
        /\ interest' = interest \ gone
        /\ edges' = edges \ gone
        /\ UNCHANGED <<backlog, listen_edge>>

\* open(): worker w's file gets descriptor d
OpenFor(w, d) ==
    /\ descriptor' = [descriptor EXCEPT ![d] = w]
    /\ UNCHANGED <<backlog, conn, interest, edges, listen_edge>>
=============================================================================
