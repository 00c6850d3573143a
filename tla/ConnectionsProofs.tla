------------------------- MODULE ConnectionsProofs -------------------------
(***************************************************************************)
(* Proofs about Connections, in four layers.  IInv: every reachable state  *)
(* is well typed, and the two descriptors main() keeps are never closed,   *)
(* although every thread closes numbers that may have changed their        *)
(* meaning.  IdInv: requests are run in the order of their numbers and no  *)
(* request is answered twice.  WatchInv: whatever a connection has sent is *)
(* known to epoll, to main() or to the task that will close it, so nothing *)
(* is left unread for ever and nothing that was read stays open.           *)
(* PoliteInv: under clients that send one request and wait, every number   *)
(* in use means what it meant when it was handed over, until a second      *)
(* close takes one away or there is none left.  Then: every step is a step *)
(* of the pool or leaves it alone, so what is proved of WorkerPool alone   *)
(* holds in the running server.                                            *)
(***************************************************************************)
EXTENDS Connections, TLAPS

Kept == {sockfd, efd}
SafeDescriptors == Descriptors \ Kept

\* a task, an event whose descriptor may be closed
SafeTask == {t \in Task : t.newsockfd \in SafeDescriptors}
SafeEvent == {e \in Event : e.fd \in SafeDescriptors \/ (e.fd = sockfd /\ ~e.bad)}

(* The operating system: nothing but main()'s two numbers refers to the    *)
(* listening socket or to epoll, and what epoll watches is open.           *)
SocketInv ==
    /\ SocketsTypeOK
    /\ ListenerStaysOpen
    /\ \A d \in SafeDescriptors : descriptor[d] \notin {Listener, Epoll}
    /\ \A c \in interest \cup edges : \E d \in Descriptors : descriptor[d] = c

MainInv ==
    /\ status \in {"up", "exit", "abort", "sigpipe"}
    /\ mpc \in {"epoll_wait", "for", "accept", "register", "read", "close", "add_task"}
    /\ batch \subseteq SafeEvent
    /\ cur \in [fd : Descriptors, request : Conns \cup {NoConn}, of : Conns \cup {Listener}]
    /\ mpc \in {"read", "close", "add_task"} => cur.fd \in SafeDescriptors
    /\ mpc = "add_task" => cur.request \in Conns
    /\ request_id \in Nat \ {0}
    /\ client_ip_address \in [Descriptors -> {EmptyAddress} \cup {Address[c] : c \in Conns}]

PoolInv ==
    /\ m_tasks \in [Workers -> Seq(SafeTask)]
    /\ next_task \in [Workers -> SafeTask \cup {nullptr}]
    /\ wpc \in [Workers -> {"poll", "chill", "handle"}]
    /\ finished \subseteq Task

HandlerInv ==
    /\ handler \in [Workers -> HandlerState]
    /\ \A w \in Workers : handler[w].pc # "idle" => next_task[w] \in SafeTask
    /\ \A w \in Workers : handler[w].pc = "read" => handler[w].file \in SafeDescriptors

HistoryInv ==
    /\ reply \in [Conns -> Seq(Reply)]
    /\ stray_close \in BOOLEAN
    /\ starved \in BOOLEAN
    /\ unaccepted \in BOOLEAN

IInv == SocketInv /\ MainInv /\ PoolInv /\ HandlerInv /\ HistoryInv
-----------------------------------------------------------------------------
\* What the provers need of the constants: the kept numbers are descriptors,
\* and what a descriptor can refer to is told apart.
LEMMA Constant ==
    /\ sockfd \in Descriptors /\ efd \in Descriptors /\ sockfd # efd
    /\ Listener \notin Conns /\ Epoll \notin Conns /\ Free \notin Conns
    /\ Listener \notin Workers /\ Epoll \notin Workers
    /\ Free # Listener /\ Free # Epoll /\ Listener # Epoll
    /\ Conns \cap Workers = {}
    /\ SafeTask \subseteq Task /\ nullptr \notin Task
    /\ SafeEvent \subseteq Event /\ SafeDescriptors \subseteq Descriptors
  BY ConnectionsAssumption, TaskAssumption DEF Descriptors, sockfd, efd, SafeTask, SafeEvent,
                                            SafeDescriptors

-----------------------------------------------------------------------------
(* The operating system's operations keep SocketInv. *)

\* What the system does to one connection's record leaves it one.
LEMMA ConnectionUpdate ==
  ASSUME NEW f \in [Conns -> Connection], NEW c \in Conns
  PROVE  /\ \A p \in {"away", "pending", "open", "closed"} :
                [f EXCEPT ![c].phase = p] \in [Conns -> Connection]
         /\ \A e \in {"open", "fin", "rst", "pipe"} :
                [f EXCEPT ![c].end = e] \in [Conns -> Connection]
         /\ \A n \in Nat : /\ [f EXCEPT ![c].sent = @ + n] \in [Conns -> Connection]
                           /\ [f EXCEPT ![c].read = @ + n] \in [Conns -> Connection]
<1>1. ASSUME NEW p \in {"away", "pending", "open", "closed"}
      PROVE  [f[c] EXCEPT !.phase = p] \in Connection
  BY DEF Connection
<1>2. ASSUME NEW e \in {"open", "fin", "rst", "pipe"}
      PROVE  [f[c] EXCEPT !.end = e] \in Connection
  BY DEF Connection
<1>3. ASSUME NEW n \in Nat
      PROVE  /\ [f[c] EXCEPT !.sent = @ + n] \in Connection
             /\ [f[c] EXCEPT !.read = @ + n] \in Connection
  BY DEF Connection
<1> QED BY <1>1, <1>2, <1>3

\* Nor does closing some connections.
LEMMA ConnectionsClosed ==
  ASSUME NEW f \in [Conns -> Connection], NEW C
  PROVE  [c \in Conns |-> IF c \in C THEN [f[c] EXCEPT !.phase = "closed"] ELSE f[c]]
            \in [Conns -> Connection]
<1>1. \A c \in Conns : [f[c] EXCEPT !.phase = "closed"] \in Connection
  BY DEF Connection
<1> QED BY <1>1

\* Nor does reporting a reset.
LEMMA ResetReported ==
  ASSUME NEW f \in [Conns -> Connection], NEW o
  PROVE  [c \in Conns |-> IF c = o /\ f[c].end = "rst" THEN [f[c] EXCEPT !.end = "pipe"]
                          ELSE f[c]]
            \in [Conns -> Connection]
<1>1. \A c \in Conns : [f[c] EXCEPT !.end = "pipe"] \in Connection
  BY DEF Connection
<1> QED BY <1>1

\* SocketInv says nothing of what is in a connection's record.
LEMMA RecordsOnly ==
  ASSUME SocketInv, conn' \in [Conns -> Connection], NEW c \in Conns, Signal(c),
         c \in interest => \E d \in Descriptors : descriptor[d] = c,
         UNCHANGED <<descriptor, backlog, interest, listen_edge>>
  PROVE  SocketInv'
  BY DEF SocketInv, SocketsTypeOK, ListenerStaysOpen, Signal

\* A client's step does.
LEMMA ClientKeeps ==
  ASSUME SocketInv, NEW c \in Conns, Client(c)
  PROVE  SocketInv'
<1>1. CASE Connect(c)
  <2>1. conn' \in [Conns -> Connection]
    BY <1>1, ConnectionUpdate DEF Connect, SocketInv, SocketsTypeOK
  <2>2. backlog' \in Seq(Conns)
    BY <1>1 DEF Connect, SocketInv, SocketsTypeOK
  <2>3. listen_edge' = TRUE /\ UNCHANGED <<descriptor, interest, edges>>
    BY <1>1 DEF Connect
  <2> QED BY <2>1, <2>2, <2>3 DEF SocketInv, SocketsTypeOK, ListenerStaysOpen
<1>2. CASE Send(c)
  <2>1. conn' \in [Conns -> Connection]
    BY <1>2, ConnectionUpdate DEF Send, SocketInv, SocketsTypeOK
  <2> QED BY <1>2, <2>1, RecordsOnly DEF Send, SocketInv
<1>3. ASSUME NEW end \in {"fin", "rst", "pipe"}, HangUp(c, end)
      PROVE  SocketInv'
  <2>1. conn' \in [Conns -> Connection]
    BY <1>3, ConnectionUpdate DEF HangUp, SocketInv, SocketsTypeOK
  <2> QED BY <1>3, <2>1, RecordsOnly DEF HangUp, SocketInv
<1> QED BY <1>1, <1>2, <1>3 DEF Client

\* close() of a number that is not kept does.
LEMMA CloseKeeps ==
  ASSUME SocketInv, NEW d \in SafeDescriptors, Close(d)
  PROVE  SocketInv'
<1> USE Constant DEF SocketInv, SocketsTypeOK, ListenerStaysOpen, SafeDescriptors, Kept
<1> DEFINE gone == {descriptor[d]} \cap Conns
<1>1. descriptor' = [descriptor EXCEPT ![d] = Free]
      /\ interest' = interest \ gone /\ edges' = edges \ gone
      /\ backlog' = backlog /\ listen_edge' = listen_edge
  BY DEF Close
<1>2. conn' \in [Conns -> Connection]
  BY ConnectionsClosed DEF Close, SocketInv, SocketsTypeOK
<1>3. \A c \in interest' \cup edges' : \E b \in Descriptors : descriptor'[b] = c
  <2> TAKE c \in interest' \cup edges'
  <2>1. PICK b \in Descriptors : descriptor[b] = c
    BY <1>1
  <2>2. b # d
    BY <1>1, <2>1
  <2> QED BY <1>1, <2>1, <2>2
<1>4. \A b \in SafeDescriptors : descriptor'[b] \notin {Listener, Epoll}
  BY <1>1
<1>5. descriptor' \in [Descriptors -> Conns \cup Workers \cup {Free, Listener, Epoll}]
      /\ descriptor'[sockfd] = Listener /\ descriptor'[efd] = Epoll
  BY <1>1
<1> QED BY <1>1, <1>2, <1>3, <1>4, <1>5

\* accept() gives a free number to a connection.
LEMMA AcceptKeeps ==
  ASSUME SocketInv, backlog # <<>>, NEW d \in Descriptors, IsNextDescriptor(d), AcceptConnection(d)
  PROVE  SocketInv' /\ d \in SafeDescriptors
<1> USE Constant DEF SocketInv, SocketsTypeOK, ListenerStaysOpen
<1>1. d \in SafeDescriptors
  BY DEF IsNextDescriptor, FreeDescriptors, SafeDescriptors, Kept
<1>2. Head(backlog) \in Conns /\ Tail(backlog) \in Seq(Conns)
  OBVIOUS
<1>3. descriptor[d] = Free
  BY DEF IsNextDescriptor, FreeDescriptors
<1>4. \A c \in interest' \cup edges' : \E b \in Descriptors : descriptor'[b] = c
  BY <1>3 DEF AcceptConnection
<1>5. conn' \in [Conns -> Connection]
  BY <1>2, ConnectionUpdate DEF AcceptConnection
<1>6. /\ descriptor' \in [Descriptors -> Conns \cup Workers \cup {Free, Listener, Epoll}]
      /\ descriptor'[sockfd] = Listener /\ descriptor'[efd] = Epoll
      /\ \A b \in SafeDescriptors : descriptor'[b] \notin {Listener, Epoll}
  BY <1>1, <1>2 DEF AcceptConnection, SafeDescriptors, Kept
<1> QED BY <1>1, <1>2, <1>4, <1>5, <1>6 DEF AcceptConnection

\* open() gives a free number to a worker.
LEMMA OpenKeeps ==
  ASSUME SocketInv, NEW w \in Workers, NEW d \in Descriptors, IsNextDescriptor(d), OpenFor(w, d)
  PROVE  SocketInv' /\ d \in SafeDescriptors
<1> USE Constant DEF SocketInv, SocketsTypeOK, ListenerStaysOpen
<1>1. d \in SafeDescriptors
  BY DEF IsNextDescriptor, FreeDescriptors, SafeDescriptors, Kept
<1>3. descriptor[d] = Free
  BY DEF IsNextDescriptor, FreeDescriptors
<1>4. \A c \in interest' \cup edges' : \E b \in Descriptors : descriptor'[b] = c
  BY <1>3 DEF OpenFor
<1> QED BY <1>1, <1>4 DEF OpenFor, SafeDescriptors, Kept

\* epoll_ctl on an open connection does.
LEMMA WatchKeeps ==
  ASSUME SocketInv, NEW c \in Conns, NEW d \in Descriptors, descriptor[d] = c, Watch(c)
  PROVE  SocketInv'
  BY Constant DEF SocketInv, SocketsTypeOK, ListenerStaysOpen, Watch

\* A step that only touches connections' records does, or drops edges.
LEMMA ReadyListKeeps ==
  ASSUME SocketInv, conn' \in [Conns -> Connection], edges' \subseteq edges,
         listen_edge' \in BOOLEAN, UNCHANGED <<descriptor, backlog, interest>>
  PROVE  SocketInv'
  BY DEF SocketInv, SocketsTypeOK, ListenerStaysOpen
-----------------------------------------------------------------------------
(* Parts of the state an action leaves alone keep their part of IInv. *)

\* What an action leaves alone keeps its part of IInv.
LEMMA Untouched ==
  ASSUME IInv
  PROVE  /\ UNCHANGED socketVars => SocketInv'
         /\ UNCHANGED <<status, mainVars>> => MainInv'
         /\ UNCHANGED poolVars => PoolInv'
         /\ UNCHANGED <<next_task, handler>> => HandlerInv'
         /\ UNCHANGED historyVars => HistoryInv'
<1>1. UNCHANGED socketVars => SocketInv'
  BY DEF IInv, SocketInv, SocketsTypeOK, ListenerStaysOpen, socketVars
<1>2. UNCHANGED <<status, mainVars>> => MainInv'
  BY DEF IInv, MainInv, mainVars
<1>3. UNCHANGED poolVars => PoolInv'
  BY DEF IInv, PoolInv, poolVars
<1>4. UNCHANGED <<next_task, handler>> => HandlerInv'
  BY DEF IInv, HandlerInv
<1>5. UNCHANGED historyVars => HistoryInv'
  BY DEF IInv, HistoryInv, historyVars
<1> QED BY <1>1, <1>2, <1>3, <1>4, <1>5

\* Initially IInv holds.
LEMMA Start == Init => IInv
<1> SUFFICES ASSUME Init
             PROVE  IInv
  OBVIOUS
<1>1. SocketInv
  <2>1. conn \in [Conns -> Connection]
    BY DEF Init, SocketsInit, Connection
  <2>2. descriptor \in [Descriptors -> Conns \cup Workers \cup {Free, Listener, Epoll}]
    BY DEF Init, SocketsInit
  <2>3. ListenerStaysOpen
    BY Constant DEF Init, SocketsInit, ListenerStaysOpen
  <2>4. \A d \in SafeDescriptors : descriptor[d] = Free
    BY DEF Init, SocketsInit, SafeDescriptors, Kept
  <2>5. backlog \in Seq(Conns) /\ interest = {} /\ edges = {} /\ listen_edge = FALSE
    BY DEF Init, SocketsInit
  <2> QED BY <2>1, <2>2, <2>3, <2>4, <2>5, Constant DEF SocketInv, SocketsTypeOK
<1>2. MainInv
  BY Constant DEF Init, MainInv
<1>3. PoolInv
  BY DEF Init, Pool!Init, PoolInv
<1>4. HandlerInv
  BY DEF Init, HandlerInv, HandlerState
<1>5. HistoryInv
  <2>1. reply \in [Conns -> Seq(Reply)]
    BY DEF Init
  <2>2. stray_close \in BOOLEAN /\ starved \in BOOLEAN /\ unaccepted \in BOOLEAN
    BY Zenon DEF Init
  <2> QED BY <2>1, <2>2 DEF HistoryInv
<1> QED BY <1>1, <1>2, <1>3, <1>4, <1>5 DEF IInv
-----------------------------------------------------------------------------
(* The accept loop keeps IInv. *)

\* Every event epoll reports is about a descriptor in use, the listening
\* socket's one never faulty.
LEMMA EventsAreSafe ==
  ASSUME SocketInv, NEW o \in ReadyItems
  PROVE  EventOf(o) \in SafeEvent
<1> DEFINE d == CHOOSE d \in Descriptors : descriptor[d] = o
<1>1. o \in edges \/ o = Listener
  BY DEF ReadyItems
<1>2. \E b \in Descriptors : descriptor[b] = o
  BY <1>1, Constant DEF SocketInv, ListenerStaysOpen
<1>3. d \in Descriptors /\ descriptor[d] = o
  BY <1>2
<1>4. CASE o = Listener
  <2>1. d = sockfd
    BY <1>3, <1>4, Constant DEF SocketInv, ListenerStaysOpen, SafeDescriptors, Kept
  <2>2. EventOf(o) = [fd |-> sockfd, bad |-> FALSE, of |-> Listener]
    BY <1>4, <2>1, Constant DEF EventOf
  <2> QED BY <2>2, Constant DEF SafeEvent, Event
<1>5. CASE o \in edges
  <2>1. o \in Conns
    BY <1>5 DEF SocketInv, SocketsTypeOK
  <2>2. d \in SafeDescriptors
    BY <1>3, <2>1, Constant DEF SocketInv, ListenerStaysOpen, SafeDescriptors, Kept
  <2>3. EventOf(o) \in Event /\ EventOf(o).fd = d
    BY <1>3, <2>1 DEF EventOf, Event, Broken
  <2> QED BY <2>2, <2>3 DEF SafeEvent
<1> QED BY <1>1, <1>4, <1>5

\* epoll_wait hands out safe events only.
LEMMA EpollWaitKeeps ==
  ASSUME IInv, EpollWait
  PROVE  IInv'
<1>1. PICK got \in SUBSET ReadyItems :
        /\ batch' = {EventOf(o) : o \in got}
        /\ edges' = {c \in edges : Readable(c)} \ got
        /\ listen_edge' = (listen_edge /\ Listener \notin got)
  BY DEF EpollWait
<1>2. edges' \subseteq edges /\ listen_edge' \in BOOLEAN
  BY <1>1
<1>3. SocketInv'
  BY <1>2, ReadyListKeeps DEF EpollWait, IInv, SocketInv, SocketsTypeOK
<1>4. batch' \subseteq SafeEvent
  BY <1>1, EventsAreSafe DEF IInv
<1>5. MainInv'
  BY <1>4 DEF EpollWait, IInv, MainInv
<1>6. PoolInv' /\ HandlerInv' /\ HistoryInv'
  BY Untouched DEF EpollWait, poolVars
<1> QED BY <1>3, <1>5, <1>6 DEF IInv

\* Closing a faulty connection, or taking an event up, keeps IInv: a faulty
\* event is never about the listening socket.
LEMMA BatchKeeps ==
  ASSUME IInv, NEW e \in batch, DropFaulty(e) \/ TakeEvent(e)
  PROVE  IInv'
<1>1. e \in SafeEvent /\ batch \ {e} \subseteq SafeEvent
  BY DEF IInv, MainInv
<1>2. CASE DropFaulty(e)
  <2>1. e.fd \in SafeDescriptors
    BY <1>1, <1>2 DEF DropFaulty, SafeEvent
  <2>2. SocketInv'
    BY <1>2, <2>1, CloseKeeps DEF DropFaulty, IInv
  <2>3. MainInv'
    BY <1>1, <1>2 DEF DropFaulty, NextEvent, IInv, MainInv
  <2>4. PoolInv' /\ HandlerInv' /\ HistoryInv'
    BY <1>2, Untouched DEF DropFaulty, poolVars
  <2> QED BY <2>2, <2>3, <2>4 DEF IInv
<1>3. CASE TakeEvent(e)
  <2>1. e.fd \in Descriptors /\ e.of \in Conns \cup {Listener}
    BY <1>1 DEF SafeEvent, Event
  <2>2. e.fd = sockfd \/ e.fd \in SafeDescriptors
    BY <1>1 DEF SafeEvent
  <2>3. cur' = [fd |-> e.fd, request |-> NoConn, of |-> e.of] /\ batch' = batch \ {e}
        /\ mpc' = (IF e.fd = sockfd THEN "accept" ELSE "read")
        /\ UNCHANGED <<status, request_id, client_ip_address>>
    BY <1>3 DEF TakeEvent
  <2>4. MainInv'
    BY <1>1, <2>1, <2>2, <2>3 DEF IInv, MainInv
  <2>5. SocketInv' /\ PoolInv' /\ HandlerInv' /\ HistoryInv'
    BY <1>3, Untouched DEF TakeEvent, poolVars
  <2> QED BY <2>4, <2>5 DEF IInv
<1> QED BY <1>2, <1>3

\* The accept loop gives away free descriptors only.
LEMMA AcceptLoopKeeps ==
  ASSUME IInv, Accept \/ AcceptNothing \/ Register \/ RegisterFails
  PROVE  IInv'
<1>1. CASE Accept
  <2>1. PICK d \in Descriptors : /\ IsNextDescriptor(d) /\ AcceptConnection(d)
                                 /\ cur' = [cur EXCEPT !.fd = d]
    BY <1>1 DEF Accept
  <2>2. SocketInv'
    BY <1>1, <2>1, AcceptKeeps DEF Accept, IInv
  <2>3. MainInv'
    BY <1>1, <2>1 DEF Accept, IInv, MainInv
  <2>4. PoolInv' /\ HandlerInv' /\ HistoryInv'
    BY <1>1, Untouched DEF Accept, poolVars
  <2> QED BY <2>2, <2>3, <2>4 DEF IInv
<1>2. CASE AcceptNothing
  <2>1. MainInv'
    BY <1>2 DEF AcceptNothing, NextEvent, IInv, MainInv
  <2>2. HistoryInv'
    BY <1>2 DEF AcceptNothing, IInv, HistoryInv
  <2>3. SocketInv' /\ PoolInv' /\ HandlerInv'
    BY <1>2, Untouched DEF AcceptNothing, poolVars
  <2> QED BY <2>1, <2>2, <2>3 DEF IInv
<1>3. CASE Register
  <2>1. PICK c \in Conns :
          /\ descriptor[cur.fd] = c /\ Watch(c)
          /\ client_ip_address' = [client_ip_address EXCEPT ![cur.fd] = RecordedAddress(c)]
    BY <1>3 DEF Register
  <2>2. cur.fd \in Descriptors
    BY DEF IInv, MainInv
  <2>3. SocketInv'
    BY <2>1, <2>2, WatchKeeps DEF IInv
  <2>4. MainInv'
    BY <1>3, <2>1, <2>2 DEF Register, RecordedAddress, IInv, MainInv
  <2>5. PoolInv' /\ HandlerInv' /\ HistoryInv'
    BY <1>3, Untouched DEF Register, poolVars
  <2> QED BY <2>3, <2>4, <2>5 DEF IInv
<1>4. CASE RegisterFails
  <2>1. MainInv'
    BY <1>4 DEF RegisterFails, IInv, MainInv, mainVars
  <2>2. SocketInv' /\ PoolInv' /\ HandlerInv' /\ HistoryInv'
    BY <1>4, Untouched DEF RegisterFails, poolVars
  <2> QED BY <2>1, <2>2 DEF IInv
<1> QED BY <1>1, <1>2, <1>3, <1>4

\* Reading a request keeps IInv.
LEMMA ReadKeeps ==
  ASSUME IInv, NEW c \in Conns, ReadRequest(c)
  PROVE  IInv'
<1> DEFINE n == IF Unread(c) < ReadMax THEN Unread(c) ELSE ReadMax
<1> DEFINE parsed == Parse(SubSeq(Script[c], conn[c].read + 1, conn[c].read + n))
<1>1. /\ mpc = "read" /\ descriptor[cur.fd] = c /\ Unread(c) > 0
      /\ conn' = [conn EXCEPT ![c].read = @ + n]
      /\ status' = IF parsed = "throws" THEN "abort" ELSE status
      /\ request_id' = Counted(parsed)
      /\ mpc' = AfterRead(parsed, Refused(c, cur.fd))
      /\ cur' = [cur EXCEPT !.request = c]
      /\ UNCHANGED <<descriptor, backlog, interest, edges, listen_edge, batch,
                     client_ip_address, poolVars, handler, historyVars>>
  BY DEF ReadRequest
<1>2. n \in Nat
  <2>1. conn[c].sent \in Nat /\ conn[c].read \in Nat
    BY DEF IInv, SocketInv, SocketsTypeOK, Connection
  <2> QED BY <1>1, <2>1, ConnectionsAssumption DEF Unread
<1>3. SocketInv'
  <2> HIDE DEF n
  <2>1. conn' \in [Conns -> Connection]
    BY <1>1, <1>2, ConnectionUpdate DEF IInv, SocketInv, SocketsTypeOK
  <2> QED BY <1>1, <2>1, ReadyListKeeps DEF IInv, SocketInv, SocketsTypeOK
<1>4. MainInv'
  <2> HIDE DEF parsed
  <2> QED BY <1>1 DEF AfterRead, Counted, IInv, MainInv
<1>5. PoolInv' /\ HandlerInv' /\ HistoryInv'
  BY <1>1, Untouched DEF poolVars
<1> QED BY <1>3, <1>4, <1>5 DEF IInv

\* So does a read that returns no request.
LEMMA ReadNothingKeeps ==
  ASSUME IInv, ReadNothing
  PROVE  IInv'
<1>1. conn' \in [Conns -> Connection]
  BY ResetReported DEF ReadNothing, IInv, SocketInv, SocketsTypeOK
<1>2. SocketInv'
  BY <1>1, ReadyListKeeps DEF ReadNothing, IInv, SocketInv, SocketsTypeOK
<1>3. MainInv'
  BY DEF ReadNothing, IInv, MainInv
<1>4. HandlerInv'
  <2>1. \A w \in Workers : /\ handler[w] \in HandlerState
                            /\ [handler[w] EXCEPT !.intact = FALSE] \in HandlerState
    BY DEF IInv, HandlerInv, HandlerState
  <2>2. PICK moved \in BOOLEAN :
          handler' = [w \in Workers |->
                        IF w = descriptor[cur.fd] /\ moved
                        THEN [handler[w] EXCEPT !.intact = FALSE] ELSE handler[w]]
    BY DEF ReadNothing
  <2>3. handler' \in [Workers -> HandlerState]
    BY <2>1, <2>2
  <2>4. \A w \in Workers : handler'[w].pc = handler[w].pc /\ handler'[w].file = handler[w].file
    BY <2>1, <2>2 DEF HandlerState
  <2>5. next_task' = next_task
    BY DEF ReadNothing, poolVars
  <2> QED BY <2>3, <2>4, <2>5 DEF IInv, HandlerInv
<1>5. PoolInv' /\ HistoryInv'
  BY Untouched DEF ReadNothing
<1> QED BY <1>2, <1>3, <1>4, <1>5 DEF IInv

\* The close of a refusal is never on a kept descriptor.
LEMMA CloseCurrentKeeps ==
  ASSUME IInv, CloseCurrent
  PROVE  IInv'
<1>1. cur.fd \in SafeDescriptors
  BY DEF CloseCurrent, IInv, MainInv
<1>2. SocketInv'
  BY <1>1, CloseKeeps DEF CloseCurrent, IInv
<1>3. MainInv'
  BY DEF CloseCurrent, NextEvent, IInv, MainInv
<1>4. PoolInv' /\ HandlerInv' /\ HistoryInv'
  BY Untouched DEF CloseCurrent, poolVars
<1> QED BY <1>2, <1>3, <1>4 DEF IInv

\* The task that is queued never names a kept descriptor.
LEMMA QueueTaskKeeps ==
  ASSUME IInv, NEW w \in Workers, QueueTask(w)
  PROVE  IInv'
<1> DEFINE t == [id |-> request_id - 1, newsockfd |-> cur.fd, client_request |-> cur.request]
<1>1. t \in SafeTask
  <2>1. cur.fd \in SafeDescriptors /\ cur.request \in Conns /\ request_id - 1 \in Nat
    BY DEF QueueTask, IInv, MainInv
  <2> QED BY <2>1, Constant DEF SafeTask, Task
<1>2. /\ m_tasks' = [m_tasks EXCEPT ![w] = Append(@, t)]
      /\ UNCHANGED <<next_task, wpc, finished>>
  BY DEF QueueTask, Pool!AddTask
<1>3. PoolInv'
  <2> HIDE DEF t
  <2>1. m_tasks[w] \in Seq(SafeTask)
    BY DEF IInv, PoolInv
  <2>2. Append(m_tasks[w], t) \in Seq(SafeTask)
    BY <1>1, <2>1
  <2> QED BY <1>2, <2>2 DEF IInv, PoolInv
<1>4. MainInv'
  BY DEF QueueTask, NextEvent, IInv, MainInv
<1>5. SocketInv' /\ HandlerInv' /\ HistoryInv'
  BY <1>2, Untouched DEF QueueTask
<1> QED BY <1>3, <1>4, <1>5 DEF IInv
-----------------------------------------------------------------------------
(* A worker keeps IInv. *)

\* Where a worker inside the handler has its task and its file.
LEMMA HandlerTask ==
  ASSUME IInv, NEW w \in Workers
  PROVE  /\ handler[w] \in HandlerState
         /\ handler[w].pc # "idle" =>
                next_task[w] \in SafeTask /\ next_task[w].newsockfd \in SafeDescriptors
         /\ handler[w].pc = "read" => handler[w].file \in SafeDescriptors
  BY DEF IInv, HandlerInv, SafeTask

\* Moving one worker on inside the handler keeps HandlerInv.
LEMMA HandlerUpdate ==
  ASSUME IInv, NEW w \in Workers, handler[w].pc # "idle", NEW s \in HandlerState,
         s.pc = "read" => s.file \in SafeDescriptors,
         handler' = [handler EXCEPT ![w] = s], next_task' = next_task
  PROVE  HandlerInv'
  BY DEF IInv, HandlerInv

\* A worker takes its task out of its queue.
LEMMA TakeTaskKeeps ==
  ASSUME IInv, NEW w \in Workers, TakeTask(w)
  PROVE  IInv'
<1>1. /\ m_tasks[w] # <<>>
      /\ next_task' = [next_task EXCEPT ![w] = Head(m_tasks[w])]
      /\ m_tasks' = [m_tasks EXCEPT ![w] = Tail(@)]
      /\ wpc' = [wpc EXCEPT ![w] = "handle"]
      /\ finished' = finished
  BY DEF TakeTask, Pool!Take
<1>2. m_tasks[w] \in Seq(SafeTask)
  BY DEF IInv, PoolInv
<1>3. Head(m_tasks[w]) \in SafeTask /\ Tail(m_tasks[w]) \in Seq(SafeTask)
  BY <1>1, <1>2
<1>4. PoolInv'
  BY <1>1, <1>3 DEF IInv, PoolInv
<1>5. HandlerInv'
  <2>1. handler' = [handler EXCEPT ![w].pc = "open"]
    BY DEF TakeTask
  <2>2. [handler[w] EXCEPT !.pc = "open"] \in HandlerState
    BY HandlerTask DEF HandlerState
  <2>3. handler' \in [Workers -> HandlerState]
    BY <2>1, <2>2 DEF IInv, HandlerInv
  <2>4. handler'[w].pc = "open"
    BY <2>1, <2>2, HandlerTask DEF IInv, HandlerInv, HandlerState
  <2>5. next_task'[w] \in SafeTask
    BY <1>1, <1>3 DEF IInv, PoolInv
  <2>6. \A v \in Workers \ {w} : handler'[v] = handler[v] /\ next_task'[v] = next_task[v]
    BY <1>1, <2>1 DEF IInv, HandlerInv, PoolInv
  <2> QED BY <2>3, <2>4, <2>5, <2>6 DEF IInv, HandlerInv
<1>6. SocketInv' /\ MainInv' /\ HistoryInv'
  BY Untouched DEF TakeTask
<1> QED BY <1>4, <1>5, <1>6 DEF IInv

\* A worker that finds no task keeps IInv.
LEMMA NapKeeps ==
  ASSUME IInv, NEW w \in Workers, Nap(w)
  PROVE  IInv'
<1>1. PoolInv' /\ next_task' = next_task
  BY DEF Nap, Pool!Chill, Pool!Wake, IInv, PoolInv
<1>2. SocketInv' /\ MainInv' /\ HandlerInv' /\ HistoryInv'
  BY <1>1, Untouched DEF Nap
<1> QED BY <1>1, <1>2 DEF IInv

\* The file a worker opens gets no kept descriptor.
LEMMA OpenFileKeeps ==
  ASSUME IInv, NEW w \in Workers, OpenFile(w) \/ OpenNothing(w)
  PROVE  IInv'
<1>1. CASE OpenFile(w)
  <2>1. PICK d \in Descriptors :
          /\ IsNextDescriptor(d) /\ OpenFor(w, d)
          /\ handler' = [handler EXCEPT ![w].pc = "read", ![w].file = d]
    BY <1>1 DEF OpenFile
  <2>2. SocketInv' /\ d \in SafeDescriptors
    BY <2>1, OpenKeeps DEF IInv
  <2> DEFINE s == [handler[w] EXCEPT !.pc = "read", !.file = d]
  <2>3. s \in HandlerState /\ s.file = d
    BY HandlerTask DEF HandlerState
  <2>4. handler' = [handler EXCEPT ![w] = s]
    BY <2>1 DEF IInv, HandlerInv
  <2>5. HandlerInv'
    <3>1. handler[w].pc # "idle" /\ next_task' = next_task
      BY <1>1 DEF OpenFile, poolVars
    <3> HIDE DEF s
    <3> QED BY <2>2, <2>3, <2>4, <3>1, HandlerUpdate
  <2>6. MainInv' /\ PoolInv' /\ HistoryInv'
    BY <1>1, Untouched DEF OpenFile
  <2> QED BY <2>2, <2>5, <2>6 DEF IInv
<1>2. CASE OpenNothing(w)
  <2>1. PICK next \in {"write", "close"} : handler' = [handler EXCEPT ![w].pc = next]
    BY <1>2 DEF OpenNothing
  <2> DEFINE s == [handler[w] EXCEPT !.pc = next]
  <2>2. s \in HandlerState /\ s.pc # "read"
    BY HandlerTask DEF HandlerState
  <2>3. handler' = [handler EXCEPT ![w] = s]
    BY <2>1 DEF IInv, HandlerInv
  <2>4. HandlerInv'
    <3>1. handler[w].pc # "idle" /\ next_task' = next_task
      BY <1>2 DEF OpenNothing, poolVars
    <3> HIDE DEF s
    <3> QED BY <2>2, <2>3, <3>1, HandlerUpdate
  <2>5. HistoryInv'
    BY <1>2 DEF OpenNothing, IInv, HistoryInv
  <2>6. SocketInv' /\ MainInv' /\ PoolInv'
    BY <1>2, Untouched DEF OpenNothing
  <2> QED BY <2>4, <2>5, <2>6 DEF IInv
<1> QED BY <1>1, <1>2

\* The worker's stream closes no kept descriptor.
LEMMA ReadFileKeeps ==
  ASSUME IInv, NEW w \in Workers, ReadFile(w)
  PROVE  IInv'
<1> DEFINE d == handler[w].file
<1> DEFINE own == descriptor[d] = w
<1>1. handler[w].pc = "read" /\ d \in SafeDescriptors
  BY HandlerTask DEF ReadFile
<1>2. SocketInv'
  BY <1>1, CloseKeeps DEF ReadFile, IInv
<1>3. PICK next \in {"write", "close"} :
        handler' = [handler EXCEPT ![w].pc = next, ![w].file = 0, ![w].intact = @ /\ own]
  BY Zenon DEF ReadFile
<1> DEFINE s == [handler[w] EXCEPT !.pc = next, !.file = 0, !.intact = @ /\ own]
<1>4. s \in HandlerState /\ s.pc # "read"
  BY HandlerTask DEF HandlerState
<1>5. handler' = [handler EXCEPT ![w] = s]
  BY <1>3 DEF IInv, HandlerInv
<1>6. HandlerInv'
  <2>1. handler[w].pc # "idle" /\ next_task' = next_task
    BY <1>1 DEF ReadFile, poolVars
  <2> HIDE DEF s
  <2> QED BY <1>4, <1>5, <2>1, HandlerUpdate
<1>7. MainInv' /\ PoolInv' /\ HistoryInv'
  BY Untouched DEF ReadFile
<1> QED BY <1>2, <1>6, <1>7 DEF IInv

\* Moving a worker's pc beyond its file.
LEMMA HandlerMoves ==
  ASSUME IInv, NEW w \in Workers, handler[w].pc # "idle", NEW p \in {"close", "destroy"},
         handler' = [handler EXCEPT ![w].pc = p], next_task' = next_task
  PROVE  HandlerInv'
<1> DEFINE s == [handler[w] EXCEPT !.pc = p]
<1>1. s \in HandlerState /\ s.pc # "read"
  BY HandlerTask DEF HandlerState
<1>2. handler' = [handler EXCEPT ![w] = s]
  BY DEF IInv, HandlerInv
<1> HIDE DEF s
<1> QED BY <1>1, <1>2, HandlerUpdate

\* Writing the answer keeps IInv.
LEMMA WriteReplyKeeps ==
  ASSUME IInv, NEW w \in Workers, WriteReply(w)
  PROVE  IInv'
<1> DEFINE t == next_task[w]
<1> DEFINE o == descriptor[t.newsockfd]
<1> DEFINE r == [id |-> t.id, origin |-> t.client_request, intact |-> handler[w].intact]
<1>1. handler[w].pc = "write" /\ next_task' = next_task
  BY DEF WriteReply, poolVars
<1>2. SocketInv'
  <2>1. conn' = [c \in Conns |-> IF c = o /\ conn[c].end = "rst"
                                THEN [conn[c] EXCEPT !.end = "pipe"] ELSE conn[c]]
    BY DEF WriteReply
  <2>2. conn' \in [Conns -> Connection]
    <3>1. conn \in [Conns -> Connection]
      BY DEF IInv, SocketInv, SocketsTypeOK
    <3> QED BY <2>1, <3>1, ResetReported
  <2>3. UNCHANGED <<descriptor, backlog, interest, edges, listen_edge>>
    BY DEF WriteReply
  <2> QED BY <2>2, <2>3, ReadyListKeeps DEF IInv, SocketInv, SocketsTypeOK
<1>3. MainInv'
  <2>1. status' \in {"up", "exit", "abort", "sigpipe"}
    BY DEF WriteReply, IInv, MainInv
  <2>2. UNCHANGED mainVars
    BY DEF WriteReply
  <2> QED BY <2>1, <2>2 DEF mainVars, IInv, MainInv
<1>4. HandlerInv'
  BY <1>1, HandlerMoves DEF WriteReply
<1>5. HistoryInv'
  <2>1. r \in Reply
    BY <1>1, HandlerTask, Constant DEF Reply, Task, HandlerState
  <2>2. reply' = [c \in Conns |-> IF c = o /\ ~Broken(c) THEN Append(reply[c], r) ELSE reply[c]]
    BY DEF WriteReply
  <2>3. reply' \in [Conns -> Seq(Reply)]
    <3> HIDE DEF o, r
    <3>1. \A c \in Conns : reply[c] \in Seq(Reply) /\ Append(reply[c], r) \in Seq(Reply)
      BY <2>1 DEF IInv, HistoryInv
    <3> QED BY <2>2, <3>1
  <2>4. UNCHANGED <<stray_close, starved, unaccepted>>
    BY DEF WriteReply
  <2> QED BY <2>3, <2>4 DEF IInv, HistoryInv
<1>6. PoolInv'
  BY Untouched DEF WriteReply
<1> QED BY <1>2, <1>3, <1>4, <1>5, <1>6 DEF IInv

\* The close at the end of handle() is never on a kept descriptor.
LEMMA CloseReplyKeeps ==
  ASSUME IInv, NEW w \in Workers, CloseReply(w)
  PROVE  IInv'
<1>1. handler[w].pc = "close" /\ next_task' = next_task
  BY DEF CloseReply, poolVars
<1>2. next_task[w].newsockfd \in SafeDescriptors
  BY <1>1, HandlerTask
<1>3. SocketInv'
  BY <1>2, CloseKeeps DEF CloseReply, IInv
<1>4. HandlerInv'
  BY <1>1, HandlerMoves DEF CloseReply
<1>5. MainInv' /\ PoolInv' /\ HistoryInv'
  BY Untouched DEF CloseReply
<1> QED BY <1>3, <1>4, <1>5 DEF IInv

\* Nor is the close of the destructor.
LEMMA DestroyKeeps ==
  ASSUME IInv, NEW w \in Workers, Destroy(w)
  PROVE  IInv'
<1>1. handler[w].pc = "destroy"
  BY DEF Destroy
<1>2. next_task[w] \in SafeTask /\ next_task[w].newsockfd \in SafeDescriptors
  BY <1>1, HandlerTask
<1>3. SocketInv'
  BY <1>2, CloseKeeps DEF Destroy, IInv
<1>4. /\ finished' = finished \cup {next_task[w]}
      /\ next_task' = [next_task EXCEPT ![w] = nullptr]
      /\ wpc' = [wpc EXCEPT ![w] = "poll"]
      /\ m_tasks' = m_tasks
  BY DEF Destroy, Pool!Finish
<1>5. PoolInv'
  BY <1>2, <1>4, Constant DEF IInv, PoolInv
<1>6. HandlerInv'
  <2>1. handler' = [handler EXCEPT ![w].pc = "idle", ![w].intact = TRUE]
    BY DEF Destroy
  <2> DEFINE s == [handler[w] EXCEPT !.pc = "idle", !.intact = TRUE]
  <2>2. s \in HandlerState /\ s.pc = "idle"
    BY HandlerTask DEF HandlerState
  <2>3. handler' = [handler EXCEPT ![w] = s]
    BY <2>1 DEF IInv, HandlerInv
  <2> HIDE DEF s
  <2>4. handler' \in [Workers -> HandlerState] /\ handler'[w].pc = "idle"
    BY <2>2, <2>3 DEF IInv, HandlerInv
  <2>5. \A v \in Workers \ {w} : handler'[v] = handler[v] /\ next_task'[v] = next_task[v]
    BY <1>4, <2>3 DEF IInv, HandlerInv, PoolInv
  <2> QED BY <2>4, <2>5 DEF IInv, HandlerInv
<1>7. MainInv'
  BY Untouched DEF Destroy
<1>8. HistoryInv'
  <2>1. UNCHANGED <<reply, starved, unaccepted>>
    BY DEF Destroy
  <2>2. stray_close' \in BOOLEAN
    BY DEF Destroy, IInv, HistoryInv
  <2> QED BY <2>1, <2>2 DEF IInv, HistoryInv
<1> QED BY <1>3, <1>5, <1>6, <1>7, <1>8 DEF IInv
-----------------------------------------------------------------------------
\* IInv is inductive: every step of a client, of the accept loop and of a
\* worker keeps it.
LEMMA Inductive == IInv /\ [Next]_vars => IInv'
<1> SUFFICES ASSUME IInv, [Next]_vars
             PROVE  IInv'
  OBVIOUS
<1>1. ASSUME NEW c \in Conns, ClientStep(c)
      PROVE  IInv'
  <2>1. SocketInv'
    BY <1>1, ClientKeeps DEF ClientStep, IInv
  <2>2. MainInv' /\ PoolInv' /\ HandlerInv'
    BY <1>1, Untouched DEF ClientStep, poolVars
  <2>3. HistoryInv'
    BY <1>1 DEF ClientStep, IInv, HistoryInv
  <2> QED BY <2>1, <2>2, <2>3 DEF IInv
<1>2. CASE Main
  BY <1>2, EpollWaitKeeps, BatchKeeps, AcceptLoopKeeps, ReadKeeps, ReadNothingKeeps,
     CloseCurrentKeeps, QueueTaskKeeps DEF Main
<1>3. ASSUME NEW w \in Workers, Worker(w)
      PROVE  IInv'
  BY <1>3, TakeTaskKeeps, NapKeeps, OpenFileKeeps, ReadFileKeeps, WriteReplyKeeps,
     CloseReplyKeeps, DestroyKeeps DEF Worker
<1>4. CASE UNCHANGED vars
  BY <1>4, Untouched DEF vars, IInv, poolVars
<1> QED BY <1>1, <1>2, <1>3, <1>4 DEF Next

\* IInv holds in every reachable state.
LEMMA Reachable == Spec => []IInv
  BY Start, Inductive, PTL DEF Spec

\* The pool's queues and workers hold tasks main() built, the descriptors
\* refer to what the process can have open, and so on for all of the state.
THEOREM TypeCorrect == Spec => []TypeOK
<1>1. IInv => TypeOK
  <2> SUFFICES ASSUME IInv
               PROVE  TypeOK
    OBVIOUS
  <2>1. m_tasks \in [Workers -> Seq(Task)]
    <3>1. \A w \in Workers : m_tasks[w] \in Seq(Task)
      BY Constant DEF IInv, PoolInv
    <3> QED BY <3>1 DEF IInv, PoolInv
  <2>2. Pool!TypeOK
    BY <2>1, Constant DEF IInv, PoolInv, Pool!TypeOK
  <2>3. SocketsTypeOK
    BY DEF IInv, SocketInv
  <2>4. batch \subseteq Event
    BY Constant DEF IInv, MainInv
  <2> QED BY <2>2, <2>3, <2>4 DEF IInv, MainInv, HandlerInv, HistoryInv, TypeOK
<1> QED BY <1>1, Reachable, PTL

\* No close() of any thread, on a number that may mean something else by now,
\* ever hits the listening socket or epoll (main.cpp:202, :242, server.cpp:229,
\* :240).
THEOREM ListenerNeverClosed == Spec => []ListenerStaysOpen
<1>1. IInv => ListenerStaysOpen
  BY DEF IInv, SocketInv
<1> QED BY <1>1, Reachable, PTL
-----------------------------------------------------------------------------
(* Request ids.  An id is given out when main() has parsed a request, and   *)
(* from then on it is the id of one task, which is first queued, then run   *)
(* and whose answer is written once.                                        *)

\* the ids given out and gone from main()'s hands are those below Limit
Limit == IF mpc = "add_task" THEN request_id - 1 ELSE request_id

\* worker w has a task whose answer is still to be written
Unwritten(w) == handler[w].pc \in {"open", "read", "write"}

IdsBelowLimit ==
    /\ \A w \in Workers : \A i \in DOMAIN m_tasks[w] : m_tasks[w][i].id < Limit
    /\ \A w \in Workers : next_task[w] # nullptr => next_task[w].id < Limit
    /\ \A c \in Conns : \A i \in DOMAIN reply[c] : reply[c][i].id < Limit

OneTaskEach ==
    /\ \A v, w \in Workers : \A i \in DOMAIN m_tasks[v], j \in DOMAIN m_tasks[w] :
          v # w => m_tasks[v][i].id # m_tasks[w][j].id
    /\ \A v, w \in Workers : \A i \in DOMAIN m_tasks[v] :
          next_task[w] # nullptr => next_task[w].id # m_tasks[v][i].id
    /\ \A v, w \in Workers :
          v # w /\ next_task[v] # nullptr /\ next_task[w] # nullptr =>
              next_task[v].id # next_task[w].id

NotYetAnswered ==
    \A c \in Conns : \A i \in DOMAIN reply[c] :
        /\ \A w \in Workers : \A j \in DOMAIN m_tasks[w] : m_tasks[w][j].id # reply[c][i].id
        /\ \A w \in Workers : Unwritten(w) => next_task[w].id # reply[c][i].id

IdInv ==
    /\ IdsBelowLimit
    /\ RequestOrder
    /\ OneTaskEach
    /\ NotYetAnswered
    /\ AnsweredAtMostOnce

\* The ids that the system has are natural numbers.
LEMMA IdTypes ==
  ASSUME IInv
  PROVE  /\ Limit \in Nat
         /\ \A w \in Workers : /\ m_tasks[w] \in Seq(SafeTask) /\ Len(m_tasks[w]) \in Nat
                               /\ DOMAIN m_tasks[w] = 1 .. Len(m_tasks[w])
                               /\ \A i \in DOMAIN m_tasks[w] : m_tasks[w][i].id \in Nat
                               /\ next_task[w] # nullptr => next_task[w].id \in Nat
         /\ \A c \in Conns : /\ reply[c] \in Seq(Reply) /\ Len(reply[c]) \in Nat
                             /\ DOMAIN reply[c] = 1 .. Len(reply[c])
                             /\ \A i \in DOMAIN reply[c] : reply[c][i].id \in Nat
<1>1. Limit \in Nat
  BY DEF Limit, IInv, MainInv
<1>2. \A t \in SafeTask : t.id \in Nat
  BY DEF SafeTask, Task
<1>3. \A w \in Workers : m_tasks[w] \in Seq(SafeTask)
  BY DEF IInv, PoolInv
<1>4. \A w \in Workers : next_task[w] # nullptr => next_task[w].id \in Nat
  BY <1>2 DEF IInv, PoolInv
<1>5. \A c \in Conns : reply[c] \in Seq(Reply)
  BY DEF IInv, HistoryInv
<1>6. \A r \in Reply : r.id \in Nat
  BY DEF Reply
<1> QED BY <1>1, <1>2, <1>3, <1>4, <1>5, <1>6

\* At the start there are no tasks and no answers.
LEMMA IdStart == Init => IdInv
<1> SUFFICES ASSUME Init
             PROVE  IdInv
  OBVIOUS
<1>1. /\ \A w \in Workers : m_tasks[w] = <<>> /\ next_task[w] = nullptr
      /\ \A w \in Workers : handler[w].pc = "idle"
      /\ \A c \in Conns : reply[c] = <<>>
  BY DEF Init, Pool!Init
<1> QED BY <1>1 DEF IdInv, IdsBelowLimit, RequestOrder, OneTaskEach, NotYetAnswered,
                    AnsweredAtMostOnce, Unwritten

\* A step that moves no task and writes no answer.
LEMMA IdsKept ==
  ASSUME IInv, IdInv, UNCHANGED <<m_tasks, next_task, reply>>,
         Limit' \in Nat, Limit <= Limit',
         \A w \in Workers : Unwritten(w)' => Unwritten(w)
  PROVE  IdInv'
<1>1. IdsBelowLimit'
  <2>1. \A n \in Nat : n < Limit => n < Limit'
    BY IdTypes
  <2> QED BY <2>1, IdTypes DEF IdInv, IdsBelowLimit
<1>2. RequestOrder' /\ OneTaskEach' /\ AnsweredAtMostOnce'
  BY DEF IdInv, RequestOrder, OneTaskEach, AnsweredAtMostOnce
<1>3. NotYetAnswered'
  BY DEF IdInv, NotYetAnswered
<1> QED BY <1>1, <1>2, <1>3 DEF IdInv

\* main() gives an id out when it goes on to add_task with a request.
LEMMA MainKeepsIds ==
  ASSUME IInv, IdInv, Main, ~(\E w \in Workers : QueueTask(w))
  PROVE  IdInv'
<1>1. UNCHANGED <<m_tasks, next_task, reply>>
  BY DEF Main, EpollWait, DropFaulty, TakeEvent, Accept, AcceptNothing, Register, RegisterFails,
         ReadRequest, ReadNothing, CloseCurrent, poolVars, historyVars
<1>2. Limit' \in Nat /\ Limit <= Limit'
  <2>1. request_id \in Nat \ {0}
    BY DEF IInv, MainInv
  <2>2. CASE \E c \in Conns : ReadRequest(c)
    <3>1. PICK parsed \in {"ok", "error", "throws"}, refused \in BOOLEAN :
             mpc = "read" /\ request_id' = Counted(parsed) /\ mpc' = AfterRead(parsed, refused)
      BY <2>2 DEF ReadRequest, Parse, Refused
    <3> QED BY <2>1, <3>1 DEF Limit, Counted, AfterRead
  <2>3. CASE RegisterFails
    BY <2>1, <2>3 DEF RegisterFails, mainVars, Limit
  <2>4. CASE ~RegisterFails /\ ~\E c \in Conns : ReadRequest(c)
    <3>1. mpc # "add_task" /\ mpc' # "add_task" /\ request_id' = request_id
      BY <2>4 DEF Main, EpollWait, DropFaulty, TakeEvent, Accept, AcceptNothing, Register,
                  ReadNothing, CloseCurrent, NextEvent
    <3> QED BY <2>1, <3>1 DEF Limit
  <2> QED BY <2>2, <2>3, <2>4
<1>3. ASSUME NEW w \in Workers
      PROVE  handler'[w].pc = handler[w].pc
  <2>1. CASE ReadNothing
    <3>1. PICK moved \in BOOLEAN :
            handler' = [v \in Workers |->
                          IF v = descriptor[cur.fd] /\ moved
                          THEN [handler[v] EXCEPT !.intact = FALSE] ELSE handler[v]]
      BY <2>1 DEF ReadNothing
    <3>2. handler[w] \in HandlerState
      BY HandlerTask
    <3> QED BY <3>1, <3>2 DEF HandlerState
  <2>2. CASE ~ReadNothing
    BY <2>2 DEF Main, EpollWait, DropFaulty, TakeEvent, Accept, AcceptNothing, Register,
                RegisterFails, ReadRequest, CloseCurrent
  <2> QED BY <2>1, <2>2
<1>4. \A w \in Workers : Unwritten(w)' => Unwritten(w)
  BY <1>3 DEF Unwritten
<1> QED BY <1>1, <1>2, <1>4, IdsKept

\* The task that is queued has the id that was given out last.
LEMMA QueueTaskKeepsIds ==
  ASSUME IInv, IdInv, NEW w \in Workers, QueueTask(w)
  PROVE  IdInv'
<1> DEFINE t == [id |-> request_id - 1, newsockfd |-> cur.fd, client_request |-> cur.request]
<1>1. /\ m_tasks' = [m_tasks EXCEPT ![w] = Append(@, t)]
      /\ UNCHANGED <<next_task, reply, handler>>
  BY DEF QueueTask, Pool!AddTask, historyVars
<1>2. Limit \in Nat /\ t.id = Limit /\ Limit' = Limit + 1
  BY IdTypes DEF QueueTask, Limit, NextEvent, IInv, MainInv
<1> HIDE DEF t
<1> DEFINE q == m_tasks[w]
<1>3. q \in Seq(SafeTask) /\ Len(q) \in Nat /\ DOMAIN q = 1 .. Len(q)
  BY IdTypes
<1>4. /\ DOMAIN m_tasks'[w] = 1 .. Len(q) + 1
      /\ \A i \in DOMAIN q : m_tasks'[w][i] = q[i]
      /\ m_tasks'[w][Len(q) + 1] = t
      /\ \A v \in Workers \ {w} : m_tasks'[v] = m_tasks[v]
  BY <1>1, <1>3 DEF IInv, PoolInv
\* a slot of the new queues is one of the old ones or the new task's
<1>5. ASSUME NEW v \in Workers, NEW i \in DOMAIN m_tasks'[v]
      PROVE  \/ i \in DOMAIN m_tasks[v] /\ m_tasks'[v][i] = m_tasks[v][i]
             \/ v = w /\ i = Len(q) + 1 /\ m_tasks'[v][i].id = Limit
  BY <1>2, <1>3, <1>4
<1> HIDE DEF q
<1>6. IdsBelowLimit'
  BY <1>1, <1>2, <1>5, IdTypes DEF IdInv, IdsBelowLimit
<1>7. RequestOrder'
  <2>1. ASSUME NEW v \in Workers, NEW i \in DOMAIN m_tasks'[v], NEW j \in DOMAIN m_tasks'[v], i < j
        PROVE  m_tasks'[v][i].id < m_tasks'[v][j].id
    <3>1. i \in DOMAIN m_tasks[v] /\ m_tasks'[v][i] = m_tasks[v][i]
      BY <1>3, <1>4, <1>5, <2>1 DEF q
    <3> QED BY <1>5, <2>1, <3>1 DEF IdInv, IdsBelowLimit, RequestOrder
  <2>2. ASSUME NEW v \in Workers, NEW i \in DOMAIN m_tasks'[v], next_task'[v] # nullptr
        PROVE  next_task'[v].id < m_tasks'[v][i].id
    BY <1>1, <1>5, <2>2 DEF IdInv, IdsBelowLimit, RequestOrder
  <2> QED BY <2>1, <2>2 DEF RequestOrder
<1>8. OneTaskEach'
  <2>1. ASSUME NEW u \in Workers, NEW v \in Workers, u # v,
               NEW i \in DOMAIN m_tasks'[u], NEW j \in DOMAIN m_tasks'[v]
        PROVE  m_tasks'[u][i].id # m_tasks'[v][j].id
    BY <1>2, <1>5, <2>1, IdTypes DEF IdInv, IdsBelowLimit, OneTaskEach
  <2>2. ASSUME NEW u \in Workers, NEW v \in Workers, NEW i \in DOMAIN m_tasks'[u],
               next_task'[v] # nullptr
        PROVE  next_task'[v].id # m_tasks'[u][i].id
    BY <1>1, <1>2, <1>5, <2>2, IdTypes DEF IdInv, IdsBelowLimit, OneTaskEach
  <2>3. \A u, v \in Workers :
           u # v /\ next_task'[u] # nullptr /\ next_task'[v] # nullptr =>
               next_task'[u].id # next_task'[v].id
    BY <1>1 DEF IdInv, OneTaskEach
  <2> QED BY <2>1, <2>2, <2>3 DEF OneTaskEach
<1>9. NotYetAnswered'
  <2>1. ASSUME NEW c \in Conns, NEW i \in DOMAIN reply[c], NEW v \in Workers,
               NEW j \in DOMAIN m_tasks'[v]
        PROVE  m_tasks'[v][j].id # reply[c][i].id
    BY <1>2, <1>5, IdTypes DEF IdInv, IdsBelowLimit, NotYetAnswered
  <2>2. \A v \in Workers : Unwritten(v)' => Unwritten(v)
    BY <1>1 DEF Unwritten
  <2> QED BY <1>1, <2>1, <2>2 DEF IdInv, NotYetAnswered
<1>10. AnsweredAtMostOnce'
  BY <1>1 DEF IdInv, AnsweredAtMostOnce
<1> QED BY <1>6, <1>7, <1>8, <1>9, <1>10 DEF IdInv

\* A worker takes the oldest task of its queue.
LEMMA TakeTaskKeepsIds ==
  ASSUME IInv, IdInv, NEW w \in Workers, TakeTask(w)
  PROVE  IdInv'
<1> DEFINE q == m_tasks[w]
<1>1. /\ q # <<>>
      /\ next_task' = [next_task EXCEPT ![w] = Head(q)]
      /\ m_tasks' = [m_tasks EXCEPT ![w] = Tail(q)]
      /\ handler' = [handler EXCEPT ![w].pc = "open"]
      /\ UNCHANGED <<mpc, request_id, reply>>
  BY DEF TakeTask, Pool!Take, mainVars, historyVars
<1>2. q \in Seq(SafeTask) /\ Len(q) \in Nat /\ DOMAIN q = 1 .. Len(q)
  BY IdTypes
<1>3. /\ 1 \in DOMAIN q /\ next_task'[w] = q[1]
      /\ DOMAIN m_tasks'[w] = 1 .. Len(q) - 1
      /\ \A i \in DOMAIN m_tasks'[w] : m_tasks'[w][i] = q[i + 1]
      /\ \A v \in Workers \ {w} : m_tasks'[v] = m_tasks[v] /\ next_task'[v] = next_task[v]
  BY <1>1, <1>2 DEF IInv, PoolInv
\* what is queued now was queued behind, and what runs now ran or was first
<1>4. ASSUME NEW v \in Workers, NEW i \in DOMAIN m_tasks'[v]
      PROVE  \/ v # w /\ i \in DOMAIN m_tasks[v] /\ m_tasks'[v][i] = m_tasks[v][i]
             \/ /\ v = w /\ i + 1 \in DOMAIN m_tasks[v] /\ 1 < i + 1
                /\ m_tasks'[v][i] = m_tasks[v][i + 1]
  BY <1>2, <1>3
<1>5. ASSUME NEW v \in Workers
      PROVE  \/ v # w /\ next_task'[v] = next_task[v]
             \/ v = w /\ next_task'[v] = m_tasks[v][1] /\ 1 \in DOMAIN m_tasks[v]
  BY <1>3
<1>6. Limit' = Limit
  BY <1>1 DEF Limit
<1>7. IdsBelowLimit'
  BY <1>1, <1>4, <1>5, <1>6 DEF IdInv, IdsBelowLimit
<1>8. RequestOrder'
  <2>1. ASSUME NEW v \in Workers, NEW i \in DOMAIN m_tasks'[v], NEW j \in DOMAIN m_tasks'[v], i < j
        PROVE  m_tasks'[v][i].id < m_tasks'[v][j].id
    <3>1. i \in Nat /\ j \in Nat
      BY <1>2, <1>3, IdTypes
    <3> QED BY <1>4, <2>1, <3>1 DEF IdInv, RequestOrder
  <2>2. ASSUME NEW v \in Workers, NEW i \in DOMAIN m_tasks'[v], next_task'[v] # nullptr
        PROVE  next_task'[v].id < m_tasks'[v][i].id
    BY <1>4, <1>5, <2>2 DEF IdInv, RequestOrder
  <2> QED BY <2>1, <2>2 DEF RequestOrder
<1>9. OneTaskEach'
  <2>1. ASSUME NEW u \in Workers, NEW v \in Workers, u # v,
               NEW i \in DOMAIN m_tasks'[u], NEW j \in DOMAIN m_tasks'[v]
        PROVE  m_tasks'[u][i].id # m_tasks'[v][j].id
    BY <1>4, <2>1 DEF IdInv, OneTaskEach
  <2>2. ASSUME NEW u \in Workers, NEW v \in Workers, NEW i \in DOMAIN m_tasks'[u],
               next_task'[v] # nullptr
        PROVE  next_task'[v].id # m_tasks'[u][i].id
    <3>1. CASE u = w /\ v = w
      <4>1. m_tasks[w][1].id < m_tasks[w][i + 1].id
        BY <1>3, <1>4, <3>1 DEF IdInv, RequestOrder
      <4>2. m_tasks[w][1].id \in Nat /\ m_tasks[w][i + 1].id \in Nat
        BY <1>3, <1>4, <3>1, IdTypes
      <4> QED BY <1>4, <1>5, <3>1, <4>1, <4>2
    <3>2. CASE ~(u = w /\ v = w)
      BY <1>4, <1>5, <2>2, <3>2 DEF IdInv, OneTaskEach
    <3> QED BY <3>1, <3>2
  <2>3. ASSUME NEW u \in Workers, NEW v \in Workers, u # v, next_task'[u] # nullptr,
               next_task'[v] # nullptr
        PROVE  next_task'[u].id # next_task'[v].id
    BY <1>5, <2>3 DEF IdInv, OneTaskEach
  <2> QED BY <2>1, <2>2, <2>3 DEF OneTaskEach
<1>10. NotYetAnswered'
  <2>1. ASSUME NEW c \in Conns, NEW i \in DOMAIN reply[c], NEW v \in Workers,
               NEW j \in DOMAIN m_tasks'[v]
        PROVE  m_tasks'[v][j].id # reply[c][i].id
    BY <1>4 DEF IdInv, NotYetAnswered
  <2>2. ASSUME NEW c \in Conns, NEW i \in DOMAIN reply[c], NEW v \in Workers, Unwritten(v)'
        PROVE  next_task'[v].id # reply[c][i].id
    <3>1. v # w => Unwritten(v)
      BY <1>1, <2>2, HandlerTask DEF Unwritten, IInv, HandlerInv
    <3> QED BY <1>5, <3>1 DEF IdInv, NotYetAnswered
  <2> QED BY <1>1, <2>1, <2>2 DEF NotYetAnswered
<1>11. AnsweredAtMostOnce'
  BY <1>1 DEF IdInv, AnsweredAtMostOnce
<1> QED BY <1>7, <1>8, <1>9, <1>10, <1>11 DEF IdInv

\* A worker that writes goes on to close.
LEMMA WriteReplyKeepsIds ==
  ASSUME IInv, IdInv, NEW w \in Workers, WriteReply(w)
  PROVE  IdInv'
<1> DEFINE t == next_task[w]
<1> DEFINE o == descriptor[t.newsockfd]
<1> DEFINE r == [id |-> t.id, origin |-> t.client_request, intact |-> handler[w].intact]
<1>1. /\ handler[w].pc = "write"
      /\ handler' = [handler EXCEPT ![w].pc = "close"]
      /\ reply' = [c \in Conns |-> IF c = o /\ ~Broken(c) THEN Append(reply[c], r) ELSE reply[c]]
      /\ UNCHANGED <<m_tasks, next_task, mpc, request_id>>
  BY DEF WriteReply, poolVars, mainVars
<1>2. Unwritten(w) /\ t # nullptr /\ r.id = t.id
  BY <1>1, HandlerTask, Constant DEF Unwritten
<1> HIDE DEF r, o, t
\* an answer is an old one, or the new one at the end of the list of o
<1>3. ASSUME NEW c \in Conns, NEW i \in DOMAIN reply'[c]
      PROVE  \/ i \in DOMAIN reply[c] /\ reply'[c][i] = reply[c][i]
             \/ c = o /\ i = Len(reply[c]) + 1 /\ reply'[c][i].id = t.id
  <2>1. reply[c] \in Seq(Reply) /\ Len(reply[c]) \in Nat /\ DOMAIN reply[c] = 1 .. Len(reply[c])
    BY IdTypes
  <2>2. reply'[c] = reply[c] \/ (c = o /\ reply'[c] = Append(reply[c], r))
    BY <1>1
  <2>3. \A s \in Seq(Reply) : /\ DOMAIN Append(s, r) = 1 .. Len(s) + 1
                             /\ \A k \in 1 .. Len(s) : Append(s, r)[k] = s[k]
                             /\ Append(s, r)[Len(s) + 1] = r
    OBVIOUS
  <2> QED BY <1>2, <1>3, <2>1, <2>2, <2>3
<1>4. Limit' = Limit
  BY <1>1 DEF Limit
<1>5. ASSUME NEW v \in Workers, Unwritten(v)'
      PROVE  v # w /\ Unwritten(v)
  BY <1>1, <1>5 DEF Unwritten, IInv, HandlerInv, HandlerState
<1>6. IdsBelowLimit'
  BY <1>1, <1>2, <1>3, <1>4 DEF IdInv, IdsBelowLimit, t
<1>7. RequestOrder' /\ OneTaskEach'
  BY <1>1 DEF IdInv, RequestOrder, OneTaskEach
<1>8. NotYetAnswered'
  <2>1. ASSUME NEW c \in Conns, NEW i \in DOMAIN reply'[c], NEW v \in Workers,
               NEW j \in DOMAIN m_tasks[v]
        PROVE  m_tasks[v][j].id # reply'[c][i].id
    BY <1>2, <1>3 DEF IdInv, NotYetAnswered, OneTaskEach, t
  <2>2. ASSUME NEW c \in Conns, NEW i \in DOMAIN reply'[c], NEW v \in Workers, Unwritten(v)'
        PROVE  next_task[v].id # reply'[c][i].id
    <3>1. v # w /\ Unwritten(v) /\ next_task[v] # nullptr
      BY <1>5, <2>2, HandlerTask, Constant DEF Unwritten
    <3> QED BY <1>2, <1>3, <3>1 DEF IdInv, NotYetAnswered, OneTaskEach, t
  <2> QED BY <1>1, <2>1, <2>2 DEF NotYetAnswered
<1>9. AnsweredAtMostOnce'
  <2>1. \A c \in Conns : \A i \in DOMAIN reply[c] : reply[c][i].id # t.id
    BY <1>2 DEF IdInv, NotYetAnswered, t
  <2> SUFFICES ASSUME NEW b \in Conns, NEW c \in Conns, NEW i \in DOMAIN reply'[b],
                      NEW j \in DOMAIN reply'[c], reply'[b][i].id = reply'[c][j].id
               PROVE  b = c /\ i = j
    BY DEF AnsweredAtMostOnce
  <2> QED BY <1>3, <2>1 DEF IdInv, AnsweredAtMostOnce
<1> QED BY <1>6, <1>7, <1>8, <1>9 DEF IdInv

\* A worker that is done forgets its task.
LEMMA DestroyKeepsIds ==
  ASSUME IInv, IdInv, NEW w \in Workers, Destroy(w)
  PROVE  IdInv'
<1>1. /\ next_task' = [next_task EXCEPT ![w] = nullptr]
      /\ handler' = [handler EXCEPT ![w].pc = "idle", ![w].intact = TRUE]
      /\ UNCHANGED <<m_tasks, reply, mpc, request_id>>
  BY DEF Destroy, Pool!Finish, mainVars
<1>2. \A v \in Workers : next_task'[v] # nullptr => v # w /\ next_task'[v] = next_task[v]
  BY <1>1 DEF IInv, PoolInv
<1>3. ASSUME NEW v \in Workers, Unwritten(v)'
      PROVE  Unwritten(v) /\ next_task'[v] = next_task[v]
  BY <1>1, <1>3, HandlerTask DEF Unwritten, IInv, HandlerInv, PoolInv, HandlerState
<1>4. Limit' = Limit
  BY <1>1 DEF Limit
<1>5. IdsBelowLimit'
  BY <1>1, <1>2, <1>4 DEF IdInv, IdsBelowLimit
<1>6. RequestOrder' /\ OneTaskEach'
  BY <1>1, <1>2 DEF IdInv, RequestOrder, OneTaskEach
<1>7. NotYetAnswered' /\ AnsweredAtMostOnce'
  BY <1>1, <1>3 DEF IdInv, NotYetAnswered, AnsweredAtMostOnce
<1> QED BY <1>5, <1>6, <1>7 DEF IdInv

\* The other steps of a worker move no task and write nothing.
LEMMA HandlingKeepsIds ==
  ASSUME IInv, IdInv, NEW w \in Workers,
         Nap(w) \/ OpenFile(w) \/ OpenNothing(w) \/ ReadFile(w) \/ CloseReply(w)
  PROVE  IdInv'
<1>1. UNCHANGED <<m_tasks, next_task, reply, mpc, request_id>>
  BY DEF Nap, Pool!Chill, Pool!Wake, OpenFile, OpenNothing, ReadFile, CloseReply, mainVars,
         poolVars, historyVars
<1>2. Limit' = Limit /\ Limit \in Nat
  BY <1>1, IdTypes DEF Limit
<1>3. \A v \in Workers : handler'[v].pc = handler[v].pc
          \/ (v = w /\ (Unwritten(w) \/ handler'[w].pc = "destroy"))
  BY Zenon DEF Nap, OpenFile, OpenNothing, ReadFile, CloseReply, IInv, HandlerInv, HandlerState,
         Unwritten
<1>4. \A v \in Workers : Unwritten(v)' => Unwritten(v)
  BY <1>3 DEF Unwritten
<1> QED BY <1>1, <1>2, <1>4, IdsKept

\* Every step keeps the ids in order.
LEMMA IdsInductive == IInv /\ IdInv /\ [Next]_vars => IdInv'
<1> SUFFICES ASSUME IInv, IdInv, [Next]_vars
             PROVE  IdInv'
  OBVIOUS
<1>1. ASSUME UNCHANGED <<mpc, request_id, m_tasks, next_task, reply, handler>>
      PROVE  IdInv'
  <2>1. Limit' = Limit /\ Limit \in Nat
    BY <1>1, IdTypes DEF Limit
  <2>2. \A v \in Workers : Unwritten(v)' => Unwritten(v)
    BY <1>1 DEF Unwritten
  <2> QED BY <1>1, <2>1, <2>2, IdsKept
<1>2. ASSUME NEW c \in Conns, ClientStep(c)
      PROVE  IdInv'
  BY <1>1, <1>2 DEF ClientStep, mainVars, poolVars, historyVars
<1>3. CASE Main
  BY <1>3, MainKeepsIds, QueueTaskKeepsIds
<1>4. ASSUME NEW w \in Workers, Worker(w)
      PROVE  IdInv'
  BY <1>4, TakeTaskKeepsIds, WriteReplyKeepsIds, DestroyKeepsIds, HandlingKeepsIds DEF Worker
<1>5. CASE UNCHANGED vars
  BY <1>1, <1>5 DEF vars, mainVars, poolVars, historyVars
<1> QED BY <1>2, <1>3, <1>4, <1>5 DEF Next

\* IdInv holds in every reachable state.
LEMMA IdsReachable == Spec => []IdInv
<1>1. Spec => [](IInv /\ IdInv)
  BY Start, IdStart, Inductive, IdsInductive, PTL DEF Spec
<1> QED BY <1>1, PTL

\* A worker runs its tasks in the order in which main() has read them, for any
\* number of workers and requests (thread/pool.cpp:27, thread/worker.cpp:26).
THEOREM TasksInRequestOrder == Spec => []RequestOrder
<1>1. IdInv => RequestOrder
  BY DEF IdInv
<1> QED BY <1>1, IdsReachable, PTL

\* No request is answered twice, although its answer may go to another
\* connection (server.cpp:228).
THEOREM NoSecondAnswer == Spec => []AnsweredAtMostOnce
<1>1. IdInv => AnsweredAtMostOnce
  BY DEF IdInv
<1> QED BY <1>1, IdsReachable, PTL
-----------------------------------------------------------------------------
(* Where a connection is: in the listening queue, under one number, or      *)
(* gone; and which event, which step of main() or which task will see to    *)
(* what it has sent.                                                        *)

Linked ==
    /\ \A i, j \in DOMAIN backlog : backlog[i] = backlog[j] => i = j
    /\ \A i \in DOMAIN backlog : conn[backlog[i]].phase = "pending" /\ conn[backlog[i]].read = 0
    /\ \A c \in Conns : conn[c].phase = "away" => conn[c].read = 0
    /\ \A d \in Descriptors : descriptor[d] \in Conns => conn[descriptor[d]].phase = "open"
    /\ \A d, e \in Descriptors : descriptor[d] \in Conns /\ descriptor[e] = descriptor[d] => d = e

\* an event of connection c and number d: if c is still open it is under that
\* number and what the event was about is still there
EventAbout(c, d) ==
    /\ conn[c].phase \in {"open", "closed"}
    /\ \A x \in Descriptors : descriptor[x] = c => x = d /\ Readable(c)

EventsInHand ==
    /\ mpc = "epoll_wait" => batch = {}
    /\ \A e \in batch : IF e.of = Listener THEN e.fd = sockfd /\ ~e.bad ELSE EventAbout(e.of, e.fd)
    /\ \A e, f \in batch : e.fd = f.fd => e = f
    /\ mpc = "read" => /\ cur.of \in Conns /\ EventAbout(cur.of, cur.fd)
                       /\ \A e \in batch : e.fd # cur.fd

Registered ==
    \A d \in Descriptors : descriptor[d] \in Conns =>
        descriptor[d] \in interest \/ (mpc = "register" /\ cur.fd = d)

Reported ==
    \A d \in Descriptors : descriptor[d] \in Conns /\ Readable(descriptor[d]) =>
        \/ descriptor[d] \in edges
        \/ \E e \in batch : e.fd = d
        \/ mpc \in {"register", "read"} /\ cur.fd = d
        \/ CloseOwed(d)

ReadIsOwed ==
    \A d \in Descriptors : descriptor[d] \in Conns /\ conn[descriptor[d]].read > 0 => CloseOwed(d)

QueueSeen ==
    backlog # <<>> =>
        \/ listen_edge
        \/ mpc \in {"accept", "register"}
        \/ \E e \in batch : e.of = Listener
        \/ unaccepted

WatchInv == Linked /\ EventsInHand /\ Registered /\ Reported /\ ReadIsOwed /\ QueueSeen

\* Nothing is opened, read or sent; at most a number is closed.
Shrinks ==
    /\ \A d \in Descriptors : descriptor'[d] \in Conns =>
          /\ descriptor'[d] = descriptor[d]
          /\ conn'[descriptor[d]].phase = "open"
          /\ descriptor[d] \in interest => descriptor[d] \in interest'
          /\ descriptor[d] \in edges => descriptor[d] \in edges'
    /\ \A c \in Conns :
          /\ conn'[c].phase = conn[c].phase \/ (conn[c].phase = "open" /\ conn'[c].phase = "closed")
          /\ conn'[c].read = conn[c].read
          /\ Readable(c)' <=> Readable(c)
    /\ UNCHANGED <<backlog, listen_edge>>

\* Closing a number takes its connection off, and no other.
LEMMA CloseShrinks ==
  ASSUME IInv, Linked, NEW d \in Descriptors, Close(d)
  PROVE  /\ Shrinks
         /\ \A x \in Descriptors : descriptor'[x] \in Conns => x # d
<1> DEFINE gone == {descriptor[d]} \cap Conns
<1>1. /\ descriptor' = [descriptor EXCEPT ![d] = Free]
      /\ conn' = [c \in Conns |-> IF c \in gone THEN [conn[c] EXCEPT !.phase = "closed"] ELSE conn[c]]
      /\ interest' = interest \ gone
      /\ edges' = edges \ gone
      /\ UNCHANGED <<backlog, listen_edge>>
  BY DEF Close
<1>2. descriptor \in [Descriptors -> Conns \cup Workers \cup {Free, Listener, Epoll}]
      /\ conn \in [Conns -> Connection]
  BY DEF IInv, SocketInv, SocketsTypeOK
<1>3. \A x \in Descriptors : descriptor'[x] \in Conns => x # d /\ descriptor'[x] = descriptor[x]
  BY <1>1, <1>2, Constant
<1>4. \A x \in Descriptors : descriptor'[x] \in Conns => descriptor[x] \notin gone
  BY <1>3 DEF Linked
<1>5. \A c \in Conns : c \notin gone => conn'[c] = conn[c]
  BY <1>1
<1>6. ASSUME NEW c \in Conns
      PROVE  /\ conn'[c].phase = conn[c].phase
                \/ (conn[c].phase = "open" /\ conn'[c].phase = "closed")
             /\ conn'[c].read = conn[c].read /\ conn'[c].sent = conn[c].sent
             /\ conn'[c].end = conn[c].end
  <2>1. CASE c \notin gone
    BY <1>5, <2>1
  <2>2. CASE c \in gone
    <3>1. conn'[c] = [conn[c] EXCEPT !.phase = "closed"] /\ conn[c] \in Connection
      BY <1>1, <1>2, <2>2
    <3>2. conn[c].phase = "open"
      BY <2>2 DEF Linked
    <3> QED BY <3>1, <3>2 DEF Connection
  <2> QED BY <2>1, <2>2
<1>7. \A c \in Conns : Readable(c)' <=> Readable(c)
  BY <1>6 DEF Readable, Unread
<1>8. \A x \in Descriptors : descriptor'[x] \in Conns =>
          /\ conn'[descriptor[x]].phase = "open"
          /\ descriptor[x] \in interest => descriptor[x] \in interest'
          /\ descriptor[x] \in edges => descriptor[x] \in edges'
  BY <1>1, <1>3, <1>4, <1>5 DEF Linked
<1> HIDE DEF gone
<1> QED BY <1>1, <1>3, <1>6, <1>7, <1>8 DEF Shrinks

\* Opening a file takes a free number.
LEMMA OpenShrinks ==
  ASSUME IInv, Linked, NEW w \in Workers, NEW d \in Descriptors, OpenFor(w, d)
  PROVE  Shrinks
<1>1. /\ descriptor' = [descriptor EXCEPT ![d] = w]
      /\ UNCHANGED <<backlog, conn, interest, edges, listen_edge>>
  BY DEF OpenFor
<1>2. \A x \in Descriptors : descriptor'[x] \in Conns => descriptor'[x] = descriptor[x]
  BY <1>1, Constant DEF IInv, SocketInv, SocketsTypeOK
<1>3. \A c \in Conns : Readable(c)' <=> Readable(c)
  BY <1>1 DEF Readable, Unread
<1> QED BY <1>1, <1>2, <1>3 DEF Shrinks, Linked

\* A reset that is reported leaves a connection as readable as it was.
LEMMA ResetShrinks ==
  ASSUME IInv, Linked, NEW o,
         conn' = [c \in Conns |-> IF c = o /\ conn[c].end = "rst"
                                  THEN [conn[c] EXCEPT !.end = "pipe"] ELSE conn[c]],
         UNCHANGED <<descriptor, backlog, interest, edges, listen_edge>>
  PROVE  Shrinks
<1>1. ASSUME NEW c \in Conns
      PROVE  /\ conn'[c].phase = conn[c].phase /\ conn'[c].read = conn[c].read
             /\ conn'[c].sent = conn[c].sent
             /\ conn'[c].end = "open" <=> conn[c].end = "open"
  <2>1. conn[c] \in Connection
    BY DEF IInv, SocketInv, SocketsTypeOK
  <2> QED BY <2>1 DEF Connection
<1>2. \A c \in Conns : Readable(c)' <=> Readable(c)
  BY <1>1 DEF Readable, Unread
<1> QED BY <1>1, <1>2 DEF Shrinks, Linked

\* A step that leaves the sockets alone is one of those.
LEMMA SameShrinks ==
  ASSUME IInv, Linked, UNCHANGED socketVars
  PROVE  Shrinks
<1>1. \A c \in Conns : Readable(c)' <=> Readable(c)
  BY DEF Readable, Unread, socketVars
<1> QED BY <1>1 DEF Shrinks, Linked, socketVars

\* A step that only closes leaves every connection in its one place.
LEMMA ShrinkKeepsLinks ==
  ASSUME IInv, Linked, Shrinks
  PROVE  Linked'
<1>1. backlog \in Seq(Conns)
  BY DEF IInv, SocketInv, SocketsTypeOK
<1>2. \A i \in DOMAIN backlog : backlog[i] \in Conns
  BY <1>1
<1> QED BY <1>2 DEF Linked, Shrinks

\* An event stays about its connection.
LEMMA EventStays ==
  ASSUME Shrinks, NEW c \in Conns, NEW d, EventAbout(c, d)
  PROVE  EventAbout(c, d)'
<1>1. conn'[c].phase \in {"open", "closed"}
  BY DEF EventAbout, Shrinks
<1>2. \A x \in Descriptors : descriptor'[x] = c => x = d /\ Readable(c)'
  BY DEF EventAbout, Shrinks
<1> QED BY <1>1, <1>2 DEF EventAbout

\* Where an owed close is to be found, before a step and after it.
LEMMA WhoOwes ==
  ASSUME NEW d
  PROVE  /\ CloseOwed(d) <=>
              \/ mpc \in {"close", "add_task"} /\ cur.fd = d
              \/ \E w \in Workers : \E i \in DOMAIN m_tasks[w] : m_tasks[w][i].newsockfd = d
              \/ \E w \in Workers : next_task[w] # nullptr /\ next_task[w].newsockfd = d
         /\ CloseOwed(d)' <=>
              \/ mpc' \in {"close", "add_task"} /\ cur'.fd = d
              \/ \E w \in Workers : \E i \in DOMAIN m_tasks'[w] : m_tasks'[w][i].newsockfd = d
              \/ \E w \in Workers : next_task'[w] # nullptr /\ next_task'[w].newsockfd = d
  BY DEF CloseOwed, Pool!Queued, Pool!QueueOf, Pool!Running

\* As long as no task moves, what main() owes is all that can change.
LEMMA OwedStays ==
  ASSUME NEW d, CloseOwed(d), UNCHANGED <<m_tasks, next_task>>,
         mpc \in {"close", "add_task"} /\ cur.fd = d =>
             mpc' \in {"close", "add_task"} /\ cur'.fd = d
  PROVE  CloseOwed(d)'
  BY WhoOwes

\* What Reported says, connection by connection, after a step.
LEMMA ReportedThen ==
  ASSUME \A d \in Descriptors, c \in Conns : descriptor'[d] = c /\ Readable(c)' =>
            \/ c \in edges'
            \/ \E e \in batch' : e.fd = d
            \/ mpc' \in {"register", "read"} /\ cur'.fd = d
            \/ CloseOwed(d)'
  PROVE  Reported'
  BY DEF Reported, Readable, Unread

\* The steps that report nothing, read nothing and open no connection.
LEMMA ShrinkKeeps ==
  ASSUME IInv, WatchInv, Shrinks, batch' \subseteq batch,
         mpc' = "epoll_wait" => batch' = {},
         mpc' = "read" => mpc = "read" /\ cur' = cur,
         mpc = "register" => mpc' = "register" /\ cur' = cur,
         mpc = "accept" => mpc' \in {"accept", "register"} \/ backlog = <<>> \/ unaccepted',
         unaccepted => unaccepted',
         (\E e \in batch : e.of = Listener) => (\E e \in batch' : e.of = Listener),
         \A d \in Descriptors : descriptor'[d] \in Conns =>
            /\ (\E e \in batch : e.fd = d) => (\E e \in batch' : e.fd = d)
            /\ mpc = "read" /\ cur.fd = d => mpc' = "read" \/ CloseOwed(d)'
            /\ CloseOwed(d) => CloseOwed(d)'
  PROVE  WatchInv'
<1>1. Linked'
  BY ShrinkKeepsLinks DEF WatchInv
<1>2. EventsInHand'
  <2>1. ASSUME NEW e \in batch'
        PROVE  IF e.of = Listener THEN e.fd = sockfd /\ ~e.bad ELSE EventAbout(e.of, e.fd)'
    <3>1. e.of = Listener \/ e.of \in Conns
      BY <2>1 DEF IInv, MainInv, SafeEvent, Event
    <3> QED BY <2>1, <3>1, EventStays DEF WatchInv, EventsInHand
  <2>2. ASSUME mpc' = "read"
        PROVE  /\ cur'.of \in Conns /\ EventAbout(cur.of, cur.fd)'
               /\ \A e \in batch' : e.fd # cur'.fd
    <3>1. mpc = "read" /\ cur' = cur
      BY <2>2
    <3>2. PICK c \in Conns, d \in {cur.fd} : c = cur.of /\ EventAbout(c, d)
      BY <3>1 DEF WatchInv, EventsInHand
    <3>3. EventAbout(c, d)'
      BY <3>2, EventStays
    <3>4. c = cur'.of /\ d = cur'.fd
      BY <3>1, <3>2
    <3>5. EventAbout(cur.of, cur.fd)'
      BY <3>3, <3>4 DEF EventAbout
    <3>6. \A e \in batch' : e.fd # cur'.fd
      BY <3>1 DEF WatchInv, EventsInHand
    <3> QED BY <3>4, <3>5, <3>6
  <2> QED BY <2>1, <2>2 DEF WatchInv, EventsInHand
<1>3. Registered'
  BY DEF WatchInv, Registered, Shrinks
<1>4. Reported'
  <2>1. ASSUME NEW d \in Descriptors, NEW c \in Conns, descriptor'[d] = c, Readable(c)'
        PROVE  \/ c \in edges'
               \/ \E e \in batch' : e.fd = d
               \/ mpc' \in {"register", "read"} /\ cur'.fd = d
               \/ CloseOwed(d)'
    <3>1. descriptor[d] = c /\ Readable(c)
      BY <2>1 DEF Shrinks
    <3> QED BY <2>1, <3>1 DEF WatchInv, Reported, Shrinks
  <2> QED BY <2>1, ReportedThen
<1>5. ReadIsOwed'
  BY DEF WatchInv, ReadIsOwed, Shrinks
<1>6. QueueSeen'
  BY DEF WatchInv, QueueSeen, Shrinks
<1> QED BY <1>1, <1>2, <1>3, <1>4, <1>5, <1>6 DEF WatchInv
-----------------------------------------------------------------------------
(* The workers keep WatchInv. *)

\* A worker that looks for a task has none.
PollingIsIdle == \A w \in Workers : wpc[w] # "handle" => next_task[w] = nullptr

\* Only a worker that handles a task has one in hand.
LEMMA PollingKept ==
  ASSUME IInv, PollingIsIdle, [Next]_vars
  PROVE  PollingIsIdle'
<1> USE DEF PollingIsIdle
<1>1. UNCHANGED <<wpc, next_task>> => PollingIsIdle'
  OBVIOUS
<1>2. ASSUME NEW c \in Conns, ClientStep(c)
      PROVE  UNCHANGED <<wpc, next_task>>
  BY <1>2 DEF ClientStep, poolVars
<1>3. CASE Main
  <2>1. UNCHANGED <<wpc, next_task>>
    BY <1>3 DEF Main, EpollWait, DropFaulty, TakeEvent, Accept, AcceptNothing, Register,
           RegisterFails, ReadRequest, ReadNothing, CloseCurrent, QueueTask, Pool!AddTask, poolVars
  <2> QED BY <1>1, <2>1
<1>4. ASSUME NEW w \in Workers, Worker(w)
      PROVE  PollingIsIdle'
  <2>1. CASE TakeTask(w) \/ Nap(w) \/ Destroy(w)
    BY <2>1 DEF TakeTask, Nap, Destroy, Pool!Take, Pool!Chill, Pool!Wake, Pool!Finish, IInv, PoolInv
  <2>2. CASE OpenFile(w) \/ OpenNothing(w) \/ ReadFile(w) \/ WriteReply(w) \/ CloseReply(w)
    <3>1. UNCHANGED <<wpc, next_task>>
      BY <2>2 DEF OpenFile, OpenNothing, ReadFile, WriteReply, CloseReply, poolVars
    <3> QED BY <1>1, <3>1
  <2> QED BY <1>4, <2>1, <2>2 DEF Worker
<1>5. CASE UNCHANGED vars
  BY <1>5 DEF vars, poolVars
<1> QED BY <1>1, <1>2, <1>3, <1>4, <1>5 DEF Next

\* A step that leaves main() and the pool alone and only closes.
LEMMA WorkerShrinks ==
  ASSUME IInv, WatchInv, Shrinks, UNCHANGED mainVars, unaccepted => unaccepted',
         \A d \in Descriptors : descriptor'[d] \in Conns /\ CloseOwed(d) => CloseOwed(d)'
  PROVE  WatchInv'
<1>1. mpc' = mpc /\ batch' = batch /\ cur' = cur
  BY DEF mainVars
<1>2. mpc = "epoll_wait" => batch = {}
  BY DEF WatchInv, EventsInHand
<1> QED BY <1>1, <1>2, ShrinkKeeps

\* A task that is popped still owes its close, now through the worker.
LEMMA TakeTaskWatches ==
  ASSUME IInv, WatchInv, PollingIsIdle, NEW w \in Workers, TakeTask(w)
  PROVE  WatchInv'
<1> DEFINE q == m_tasks[w]
<1>1. /\ q # <<>> /\ wpc[w] = "poll"
      /\ next_task' = [next_task EXCEPT ![w] = Head(q)]
      /\ m_tasks' = [m_tasks EXCEPT ![w] = Tail(q)]
      /\ UNCHANGED <<socketVars, mainVars, unaccepted>>
  BY DEF TakeTask, Pool!Take, historyVars
<1>2. q \in Seq(SafeTask) /\ Len(q) \in Nat /\ DOMAIN q = 1 .. Len(q)
  BY IdTypes
<1>3. /\ next_task'[w] = q[1] /\ q[1] \in SafeTask
      /\ DOMAIN m_tasks'[w] = 1 .. Len(q) - 1
      /\ \A i \in DOMAIN m_tasks'[w] : m_tasks'[w][i] = q[i + 1]
      /\ \A v \in Workers \ {w} : m_tasks'[v] = m_tasks[v] /\ next_task'[v] = next_task[v]
  BY <1>1, <1>2 DEF IInv, PoolInv
<1>4. next_task[w] = nullptr
  BY <1>1 DEF PollingIsIdle
<1>5. ASSUME NEW d \in Descriptors, CloseOwed(d)
      PROVE  CloseOwed(d)'
  <2>1. CASE mpc \in {"close", "add_task"} /\ cur.fd = d
    BY <1>1, <2>1, WhoOwes DEF mainVars
  <2>2. CASE \E v \in Workers : \E i \in DOMAIN m_tasks[v] : m_tasks[v][i].newsockfd = d
    <3> PICK v \in Workers : \E i \in DOMAIN m_tasks[v] : m_tasks[v][i].newsockfd = d
      BY <2>2
    <3>1. PICK i \in DOMAIN m_tasks[v] : m_tasks[v][i].newsockfd = d
      OBVIOUS
    <3>2. CASE v = w /\ i = 1
      <4>1. next_task'[w] # nullptr /\ next_task'[w].newsockfd = d
        BY <1>3, <3>1, <3>2, Constant
      <4> QED BY <4>1, WhoOwes
    <3>3. CASE v = w /\ i # 1
      <4>1. i - 1 \in DOMAIN m_tasks'[w] /\ m_tasks'[w][i - 1] = q[i]
        BY <1>2, <1>3, <3>3
      <4> QED BY <3>1, <3>3, <4>1, WhoOwes
    <3>4. CASE v # w
      BY <1>3, <3>1, <3>4, WhoOwes
    <3> QED BY <3>2, <3>3, <3>4
  <2>3. CASE \E v \in Workers : next_task[v] # nullptr /\ next_task[v].newsockfd = d
    BY <1>3, <1>4, <2>3, WhoOwes
  <2> QED BY <1>5, <2>1, <2>2, <2>3, WhoOwes
<1>6. Shrinks
  BY <1>1, SameShrinks DEF WatchInv
<1> QED BY <1>1, <1>5, <1>6, WorkerShrinks

\* What a worker does inside the handler opens no connection, and the task it
\* has is what will close its number.
LEMMA HandlingWatches ==
  ASSUME IInv, WatchInv, NEW w \in Workers,
         Nap(w) \/ OpenFile(w) \/ OpenNothing(w) \/ ReadFile(w) \/ WriteReply(w) \/ CloseReply(w)
  PROVE  WatchInv'
<1>1. UNCHANGED <<mainVars, m_tasks, next_task>>
  BY DEF Nap, Pool!Chill, Pool!Wake, OpenFile, OpenNothing, ReadFile, WriteReply, CloseReply,
         poolVars
<1>2. unaccepted => unaccepted'
  BY DEF Nap, OpenFile, OpenNothing, ReadFile, WriteReply, CloseReply, historyVars
<1>3. Shrinks
  <2>1. CASE Nap(w) \/ OpenNothing(w)
    BY <2>1, SameShrinks DEF Nap, OpenNothing, WatchInv
  <2>2. CASE OpenFile(w)
    BY <2>2, OpenShrinks DEF OpenFile, WatchInv
  <2>3. CASE ReadFile(w)
    <3>1. handler[w].file \in Descriptors
      BY <2>3, HandlerTask, Constant DEF ReadFile
    <3> QED BY <2>3, <3>1, CloseShrinks DEF ReadFile, WatchInv
  <2>4. CASE WriteReply(w)
    <3> DEFINE o == descriptor[next_task[w].newsockfd]
    <3>1. /\ conn' = [c \in Conns |-> IF c = o /\ conn[c].end = "rst"
                                      THEN [conn[c] EXCEPT !.end = "pipe"] ELSE conn[c]]
          /\ UNCHANGED <<descriptor, backlog, interest, edges, listen_edge>>
      BY <2>4 DEF WriteReply
    <3> HIDE DEF o
    <3> QED BY <3>1, ResetShrinks DEF WatchInv
  <2>5. CASE CloseReply(w)
    <3>1. next_task[w].newsockfd \in Descriptors
      BY <2>5, HandlerTask, Constant DEF CloseReply
    <3> QED BY <2>5, <3>1, CloseShrinks DEF CloseReply, WatchInv
  <2> QED BY <2>1, <2>2, <2>3, <2>4, <2>5
<1>4. \A d \in Descriptors : CloseOwed(d) => CloseOwed(d)'
  BY <1>1, OwedStays DEF mainVars
<1> QED BY <1>1, <1>2, <1>3, <1>4, WorkerShrinks

\* The task that ends has closed its number.
LEMMA DestroyWatches ==
  ASSUME IInv, WatchInv, NEW w \in Workers, Destroy(w)
  PROVE  WatchInv'
<1> DEFINE d == next_task[w].newsockfd
<1>1. d \in Descriptors
  BY HandlerTask, Constant DEF Destroy
<1>2. Shrinks /\ \A x \in Descriptors : descriptor'[x] \in Conns => x # d
  BY <1>1, CloseShrinks DEF Destroy, WatchInv
<1>3. /\ next_task' = [next_task EXCEPT ![w] = nullptr]
      /\ UNCHANGED <<mainVars, m_tasks, unaccepted>>
  BY DEF Destroy, Pool!Finish
<1>4. ASSUME NEW x \in Descriptors, x # d, CloseOwed(x)
      PROVE  CloseOwed(x)'
  <2>1. \A v \in Workers : next_task[v].newsockfd = x /\ next_task[v] # nullptr =>
            next_task'[v] = next_task[v]
    BY <1>3, <1>4 DEF IInv, PoolInv
  <2> QED BY <1>3, <1>4, <2>1, WhoOwes DEF mainVars
<1> QED BY <1>2, <1>3, <1>4, WorkerShrinks
-----------------------------------------------------------------------------
(* The accept loop keeps WatchInv. *)

\* The steps of main() that close a number, or nothing, and go on.
LEMMA ClosingWatches ==
  ASSUME IInv, WatchInv,
         RegisterFails \/ AcceptNothing \/ ReadNothing \/ CloseCurrent
         \/ (\E e \in batch : DropFaulty(e)) \/ (\E w \in Workers : QueueTask(w))
  PROVE  WatchInv'
<1>1. CASE RegisterFails
  <2>1. Shrinks
    BY <1>1, SameShrinks DEF RegisterFails, WatchInv
  <2>2. \A d \in Descriptors : CloseOwed(d) => CloseOwed(d)'
    BY <1>1, OwedStays DEF RegisterFails, mainVars, poolVars
  <2> QED BY <1>1, <2>1, <2>2, WorkerShrinks DEF RegisterFails, historyVars
<1>2. CASE AcceptNothing
  <2>1. /\ mpc = "accept" /\ mpc' = NextEvent(batch) /\ UNCHANGED <<batch, cur, m_tasks, next_task>>
        /\ backlog = <<>> \/ unaccepted'
        /\ unaccepted => unaccepted'
    BY <1>2 DEF AcceptNothing, poolVars
  <2>2. Shrinks
    BY <1>2, SameShrinks DEF AcceptNothing, WatchInv
  <2>3. \A d \in Descriptors : CloseOwed(d) => CloseOwed(d)'
    BY <2>1, OwedStays
  <2> QED BY <2>1, <2>2, <2>3, ShrinkKeeps DEF NextEvent
<1>3. CASE ReadNothing
  <2>1. /\ mpc = "read" /\ mpc' = "close"
        /\ UNCHANGED <<batch, cur, m_tasks, next_task, unaccepted>>
    BY <1>3 DEF ReadNothing, poolVars, historyVars
  <2>2. Shrinks
    <3> DEFINE o == descriptor[cur.fd]
    <3>1. /\ conn' = [c \in Conns |-> IF c = o /\ conn[c].end = "rst"
                                      THEN [conn[c] EXCEPT !.end = "pipe"] ELSE conn[c]]
          /\ UNCHANGED <<descriptor, backlog, interest, edges, listen_edge>>
      BY <1>3 DEF ReadNothing
    <3> HIDE DEF o
    <3> QED BY <3>1, ResetShrinks DEF WatchInv
  <2>3. \A d \in Descriptors : CloseOwed(d) => CloseOwed(d)'
    BY <2>1, OwedStays
  <2>5. \A d \in Descriptors : cur.fd = d => CloseOwed(d)'
    BY <2>1, WhoOwes
  <2> QED BY <2>1, <2>2, <2>3, <2>5, ShrinkKeeps
<1>4. CASE CloseCurrent
  <2>1. /\ mpc = "close" /\ mpc' = NextEvent(batch)
        /\ UNCHANGED <<batch, cur, m_tasks, next_task, unaccepted>>
    BY <1>4 DEF CloseCurrent, poolVars, historyVars
  <2>2. cur.fd \in Descriptors
    BY DEF IInv, MainInv
  <2>3. Shrinks /\ \A d \in Descriptors : descriptor'[d] \in Conns => d # cur.fd
    BY <1>4, <2>2, CloseShrinks DEF CloseCurrent, WatchInv
  <2>4. \A d \in Descriptors : d # cur.fd /\ CloseOwed(d) => CloseOwed(d)'
    BY <2>1, OwedStays
  <2> QED BY <2>1, <2>3, <2>4, ShrinkKeeps DEF NextEvent
<1>5. ASSUME NEW e \in batch, DropFaulty(e)
      PROVE  WatchInv'
  <2>1. /\ mpc = "for" /\ e.bad /\ batch' = batch \ {e} /\ mpc' = NextEvent(batch')
        /\ UNCHANGED <<cur, m_tasks, next_task, unaccepted>>
    BY <1>5 DEF DropFaulty, poolVars, historyVars
  <2>2. e.fd \in Descriptors
    BY DEF IInv, MainInv, SafeEvent, Event
  <2>3. Shrinks /\ \A d \in Descriptors : descriptor'[d] \in Conns => d # e.fd
    BY <1>5, <2>2, CloseShrinks DEF DropFaulty, WatchInv
  <2>4. \A d \in Descriptors : CloseOwed(d) => CloseOwed(d)'
    BY <2>1, OwedStays
  <2>5. (\E f \in batch : f.of = Listener) => (\E f \in batch' : f.of = Listener)
    BY <2>1 DEF WatchInv, EventsInHand
  <2>6. \A d \in Descriptors : d # e.fd /\ (\E f \in batch : f.fd = d) => (\E f \in batch' : f.fd = d)
    BY <2>1
  <2> QED BY <2>1, <2>3, <2>4, <2>5, <2>6, ShrinkKeeps DEF NextEvent
<1>6. ASSUME NEW w \in Workers, QueueTask(w)
      PROVE  WatchInv'
  <2> DEFINE t == [id |-> request_id - 1, newsockfd |-> cur.fd, client_request |-> cur.request]
  <2>1. /\ mpc = "add_task" /\ mpc' = NextEvent(batch) /\ UNCHANGED <<batch, cur, next_task, unaccepted>>
        /\ m_tasks' = [m_tasks EXCEPT ![w] = Append(@, t)]
    BY <1>6 DEF QueueTask, Pool!AddTask, historyVars
  <2>2. Shrinks
    BY <1>6, SameShrinks DEF QueueTask, WatchInv
  <2>3. t.newsockfd = cur.fd
    OBVIOUS
  <2> HIDE DEF t
  <2>4. m_tasks[w] \in Seq(SafeTask) /\ Len(m_tasks[w]) \in Nat
        /\ DOMAIN m_tasks[w] = 1 .. Len(m_tasks[w])
    BY IdTypes
  <2> DEFINE new == Append(m_tasks[w], t)
  <2>7. /\ \A i \in DOMAIN m_tasks[w] : i \in DOMAIN new /\ new[i] = m_tasks[w][i]
        /\ \E i \in DOMAIN new : new[i] = t
    <3>1. DOMAIN new = 1 .. Len(m_tasks[w]) + 1 /\ new[Len(m_tasks[w]) + 1] = t
          /\ \A i \in 1 .. Len(m_tasks[w]) : new[i] = m_tasks[w][i]
      BY <2>4
    <3> QED BY <2>4, <3>1
  <2>8. m_tasks'[w] = new /\ \A v \in Workers \ {w} : m_tasks'[v] = m_tasks[v]
    BY <2>1 DEF IInv, PoolInv
  <2> HIDE DEF new
  <2>5. /\ \A v \in Workers : \A i \in DOMAIN m_tasks[v] :
               i \in DOMAIN m_tasks'[v] /\ m_tasks'[v][i] = m_tasks[v][i]
        /\ \E i \in DOMAIN m_tasks'[w] : m_tasks'[w][i] = t
    BY <2>7, <2>8
  <2>6. ASSUME NEW d \in Descriptors, CloseOwed(d)
        PROVE  CloseOwed(d)'
    <3>1. CASE cur.fd = d
      BY <2>3, <2>5, <3>1, WhoOwes
    <3>2. CASE cur.fd # d
      BY <2>1, <2>5, <2>6, <3>2, WhoOwes
    <3> QED BY <3>1, <3>2
  <2> QED BY <2>1, <2>2, <2>6, ShrinkKeeps DEF NextEvent
<1> QED BY <1>1, <1>2, <1>3, <1>4, <1>5, <1>6

\* What an event that epoll reports is about.
LEMMA ReadyEvents ==
  ASSUME IInv, Linked, NEW o \in ReadyItems
  PROVE  /\ EventOf(o).of = o
         /\ EventOf(o).fd \in Descriptors /\ descriptor[EventOf(o).fd] = o
         /\ o = Listener => EventOf(o).fd = sockfd /\ ~EventOf(o).bad
         /\ o # Listener => o \in Conns /\ EventAbout(o, EventOf(o).fd)
<1> DEFINE d == CHOOSE x \in Descriptors : descriptor[x] = o
<1>1. EventOf(o).of = o /\ EventOf(o).fd = d
  BY DEF EventOf
<1>2. o = Listener \/ (o \in edges /\ o \in Conns /\ Readable(o))
  BY DEF ReadyItems, IInv, SocketInv, SocketsTypeOK
<1>3. \E x \in Descriptors : descriptor[x] = o
  BY <1>2, Constant DEF IInv, SocketInv, ListenerStaysOpen
<1>4. d \in Descriptors /\ descriptor[d] = o
  BY <1>3
<1> HIDE DEF d
<1>5. o = Listener => d = sockfd /\ ~EventOf(o).bad
  BY <1>4, Constant DEF EventOf, IInv, SocketInv, ListenerStaysOpen, SafeDescriptors, Kept
<1>6. ASSUME o # Listener
      PROVE  EventAbout(o, d)
  BY <1>2, <1>4, <1>6 DEF EventAbout, Linked
<1> QED BY <1>1, <1>2, <1>4, <1>5, <1>6

\* epoll_wait reports what has happened since the last one, each number once.
LEMMA EpollWaitWatches ==
  ASSUME IInv, WatchInv, EpollWait
  PROVE  WatchInv'
<1>1. PICK got \in SUBSET ReadyItems :
        /\ batch' = {EventOf(o) : o \in got}
        /\ edges' = {c \in edges : Readable(c)} \ got
        /\ listen_edge' = (listen_edge /\ Listener \notin got)
  BY DEF EpollWait
<1>2. /\ mpc = "epoll_wait" /\ mpc' = "for" /\ batch = {}
      /\ UNCHANGED <<descriptor, backlog, conn, interest, cur, m_tasks, next_task, unaccepted>>
  BY DEF EpollWait, poolVars, historyVars, WatchInv, EventsInHand
<1>3. \A c \in Conns : Readable(c)' <=> Readable(c)
  BY <1>2 DEF Readable, Unread
<1>4. \A d \in Descriptors : CloseOwed(d) => CloseOwed(d)'
  BY <1>2, OwedStays
<1>5. Linked'
  BY <1>2 DEF WatchInv, Linked
<1>6. EventsInHand'
  <2>1. ASSUME NEW e \in batch'
        PROVE  IF e.of = Listener THEN e.fd = sockfd /\ ~e.bad ELSE EventAbout(e.of, e.fd)'
    <3>1. PICK o \in ReadyItems : e = EventOf(o)
      BY <1>1, <2>1
    <3>2. e.of = o
      BY <3>1, ReadyEvents DEF WatchInv
    <3>3. CASE o = Listener
      BY <3>1, <3>2, <3>3, ReadyEvents DEF WatchInv
    <3>4. CASE o # Listener
      <4>1. o \in Conns /\ EventAbout(o, e.fd)
        BY <3>1, <3>4, ReadyEvents DEF WatchInv
      <4>2. EventAbout(e.of, e.fd)'
        BY <1>2, <1>3, <3>2, <4>1 DEF EventAbout
      <4> QED BY <3>2, <3>4, <4>2
    <3> QED BY <3>3, <3>4
  <2>2. ASSUME NEW e \in batch', NEW f \in batch', e.fd = f.fd
        PROVE  e = f
    <3>1. PICK o \in ReadyItems : e = EventOf(o)
      BY <1>1, <2>2
    <3>2. PICK p \in ReadyItems : f = EventOf(p)
      BY <1>1, <2>2
    <3>3. o = p
      BY <2>2, <3>1, <3>2, ReadyEvents DEF WatchInv
    <3> QED BY <3>1, <3>2, <3>3
  <2> QED BY <1>2, <2>1, <2>2 DEF EventsInHand
<1>7. Registered'
  BY <1>2 DEF WatchInv, Registered
<1>8. Reported'
  <2>1. ASSUME NEW d \in Descriptors, NEW c \in Conns, descriptor'[d] = c, Readable(c)'
        PROVE  \/ c \in edges'
               \/ \E e \in batch' : e.fd = d
               \/ mpc' \in {"register", "read"} /\ cur'.fd = d
               \/ CloseOwed(d)'
    <3>1. descriptor[d] = c /\ Readable(c)
      BY <1>2, <1>3, <2>1
    <3>2. c \in edges \/ CloseOwed(d)
      BY <1>2, <2>1, <3>1 DEF WatchInv, Reported
    <3>3. CASE c \in edges /\ c \in got
      <4>1. EventOf(c) \in batch' /\ descriptor[EventOf(c).fd] = c /\ EventOf(c).fd \in Descriptors
        BY <1>1, <3>3, ReadyEvents DEF WatchInv
      <4>2. EventOf(c).fd = d
        BY <2>1, <3>1, <4>1 DEF WatchInv, Linked
      <4> QED BY <4>1, <4>2
    <3> QED BY <1>1, <1>4, <3>1, <3>2, <3>3
  <2> QED BY <2>1, ReportedThen
<1>9. ReadIsOwed'
  BY <1>2, <1>4 DEF WatchInv, ReadIsOwed
<1>10. QueueSeen'
  <2>1. Listener \in got => EventOf(Listener) \in batch' /\ EventOf(Listener).of = Listener
    BY <1>1, ReadyEvents DEF WatchInv
  <2> QED BY <1>1, <1>2, <2>1 DEF WatchInv, QueueSeen
<1> QED BY <1>5, <1>6, <1>7, <1>8, <1>9, <1>10 DEF WatchInv

\* main() takes an event up: what it was about is in hand now.
LEMMA TakeEventWatches ==
  ASSUME IInv, WatchInv, NEW e \in batch, TakeEvent(e)
  PROVE  WatchInv'
<1>1. /\ mpc = "for" /\ ~e.bad /\ batch' = batch \ {e}
      /\ mpc' = IF e.fd = sockfd THEN "accept" ELSE "read"
      /\ cur'.fd = e.fd /\ cur'.of = e.of
      /\ UNCHANGED <<descriptor, backlog, conn, interest, edges, listen_edge, m_tasks, next_task,
                     unaccepted>>
  BY DEF TakeEvent, socketVars, poolVars, historyVars
<1>2. \A c \in Conns : Readable(c)' <=> Readable(c)
  BY <1>1 DEF Readable, Unread
<1>3. \A d \in Descriptors : CloseOwed(d) => CloseOwed(d)'
  BY <1>1, OwedStays
<1>4. \A c \in Conns : \A d \in Descriptors : EventAbout(c, d) => EventAbout(c, d)'
  BY <1>1, <1>2 DEF EventAbout
<1>5. \A f \in batch : f.fd \in Descriptors /\ (f.of = Listener \/ f.of \in Conns)
  BY DEF IInv, MainInv, SafeEvent, Event
<1>6. Linked'
  BY <1>1 DEF WatchInv, Linked
<1>7. EventsInHand'
  <2>1. ASSUME NEW f \in batch'
        PROVE  IF f.of = Listener THEN f.fd = sockfd /\ ~f.bad ELSE EventAbout(f.of, f.fd)'
    BY <1>1, <1>4, <1>5 DEF WatchInv, EventsInHand
  <2>2. ASSUME mpc' = "read"
        PROVE  /\ cur'.of \in Conns /\ EventAbout(cur.of, cur.fd)'
               /\ \A f \in batch' : f.fd # cur'.fd
    <3>1. e.fd # sockfd /\ e.of \in Conns
      BY <1>1, <1>5, <2>2 DEF WatchInv, EventsInHand
    <3>2. PICK c \in Conns, d \in Descriptors : c = e.of /\ d = e.fd /\ EventAbout(c, d)
      BY <1>5, <3>1, Constant DEF WatchInv, EventsInHand
    <3>3. EventAbout(c, d)' /\ c = cur'.of /\ d = cur'.fd
      BY <1>1, <1>4, <3>2
    <3>4. EventAbout(cur.of, cur.fd)'
      BY <3>3 DEF EventAbout
    <3>5. \A f \in batch' : f.fd # cur'.fd
      BY <1>1 DEF WatchInv, EventsInHand
    <3> QED BY <3>3, <3>4, <3>5
  <2> QED BY <1>1, <2>1, <2>2 DEF WatchInv, EventsInHand
<1>8. Registered'
  BY <1>1 DEF WatchInv, Registered
<1>9. Reported'
  <2>1. ASSUME NEW d \in Descriptors, NEW c \in Conns, descriptor'[d] = c, Readable(c)'
        PROVE  \/ c \in edges'
               \/ \E f \in batch' : f.fd = d
               \/ mpc' \in {"register", "read"} /\ cur'.fd = d
               \/ CloseOwed(d)'
    <3>1. descriptor[d] = c /\ Readable(c)
      BY <1>1, <1>2, <2>1
    <3>2. d # sockfd
      BY <2>1, <3>1, Constant DEF IInv, SocketInv, ListenerStaysOpen
    <3>3. c \in edges \/ (\E f \in batch : f.fd = d) \/ CloseOwed(d)
      BY <1>1, <2>1, <3>1 DEF WatchInv, Reported
    <3> QED BY <1>1, <1>3, <3>2, <3>3
  <2> QED BY <2>1, ReportedThen
<1>10. ReadIsOwed'
  BY <1>1, <1>3 DEF WatchInv, ReadIsOwed
<1>11. QueueSeen'
  BY <1>1 DEF WatchInv, QueueSeen, EventsInHand
<1> QED BY <1>6, <1>7, <1>8, <1>9, <1>10, <1>11 DEF WatchInv

\* A connection that is accepted leaves the queue, gets a number that no other
\* has, and is about to be registered.
LEMMA AcceptWatches ==
  ASSUME IInv, WatchInv, Accept
  PROVE  WatchInv'
<1> DEFINE c == Head(backlog)
<1>1. PICK d \in Descriptors :
        /\ IsNextDescriptor(d)
        /\ descriptor' = [descriptor EXCEPT ![d] = c]
        /\ conn' = [conn EXCEPT ![c].phase = "open"]
        /\ backlog' = Tail(backlog)
        /\ cur' = [cur EXCEPT !.fd = d]
        /\ UNCHANGED <<interest, edges, listen_edge>>
  BY DEF Accept, AcceptConnection
<1>2. /\ mpc = "accept" /\ mpc' = "register" /\ backlog # <<>>
      /\ UNCHANGED <<batch, m_tasks, next_task, unaccepted>>
  BY DEF Accept, poolVars, historyVars
<1>3. /\ backlog \in Seq(Conns) /\ Len(backlog) \in Nat /\ DOMAIN backlog = 1 .. Len(backlog)
      /\ conn \in [Conns -> Connection]
      /\ descriptor \in [Descriptors -> Conns \cup Workers \cup {Free, Listener, Epoll}]
  BY DEF IInv, SocketInv, SocketsTypeOK
<1>4. /\ 1 \in DOMAIN backlog /\ c = backlog[1] /\ c \in Conns
      /\ DOMAIN backlog' = 1 .. Len(backlog) - 1
      /\ \A i \in DOMAIN backlog' : i + 1 \in DOMAIN backlog /\ backlog'[i] = backlog[i + 1]
  BY <1>1, <1>2, <1>3
<1>5. conn[c].phase = "pending" /\ conn[c].read = 0
  BY <1>4 DEF WatchInv, Linked
<1> HIDE DEF c
<1>6. /\ descriptor[d] = Free /\ descriptor'[d] = c
      /\ \A x \in Descriptors \ {d} : descriptor'[x] = descriptor[x]
  BY <1>1, <1>3 DEF IsNextDescriptor, FreeDescriptors
<1>7. \A x \in Descriptors : descriptor[x] # c
  BY <1>4, <1>5 DEF WatchInv, Linked
<1>8. /\ conn'[c].phase = "open" /\ conn'[c].read = 0
      /\ \A b \in Conns \ {c} : conn'[b] = conn[b]
      /\ \A b \in Conns : /\ conn'[b].read = conn[b].read /\ conn'[b].sent = conn[b].sent
                          /\ conn'[b].end = conn[b].end
  BY <1>1, <1>3, <1>4, <1>5 DEF Connection
<1>9. \A b \in Conns : Readable(b)' <=> Readable(b)
  BY <1>8 DEF Readable, Unread
<1>10. \A x \in Descriptors : CloseOwed(x) => CloseOwed(x)'
  BY <1>2, OwedStays
<1>11. Linked'
  <2>1. \A i \in DOMAIN backlog' : backlog'[i] # c /\ backlog'[i] \in Conns
    <3>1. \A i \in DOMAIN backlog' : i \in Nat /\ i + 1 # 1 /\ i + 1 \in DOMAIN backlog
                                     /\ backlog'[i] = backlog[i + 1]
      BY <1>3, <1>4
    <3>2. \A i \in DOMAIN backlog : backlog[i] \in Conns
      BY <1>3
    <3> QED BY <1>4, <3>1, <3>2 DEF WatchInv, Linked
  <2>2. ASSUME NEW i \in DOMAIN backlog', NEW j \in DOMAIN backlog', backlog'[i] = backlog'[j]
        PROVE  i = j
    <3>1. i + 1 = j + 1
      BY <1>4, <2>2 DEF WatchInv, Linked
    <3> QED BY <1>3, <1>4, <3>1
  <2>3. \A i \in DOMAIN backlog' : conn'[backlog'[i]].phase = "pending"
                                   /\ conn'[backlog'[i]].read = 0
    BY <1>4, <1>8, <2>1 DEF WatchInv, Linked
  <2>4. \A x \in Descriptors : descriptor'[x] \in Conns => conn'[descriptor'[x]].phase = "open"
    BY <1>6, <1>7, <1>8 DEF WatchInv, Linked
  <2>5. \A x, y \in Descriptors :
           descriptor'[x] \in Conns /\ descriptor'[y] = descriptor'[x] => x = y
    BY <1>6, <1>7 DEF WatchInv, Linked
  <2>6. \A b \in Conns : conn'[b].phase = "away" => conn'[b].read = 0
    BY <1>8 DEF WatchInv, Linked
  <2> QED BY <2>2, <2>3, <2>4, <2>5, <2>6 DEF Linked
<1>12. EventsInHand'
  <2>1. ASSUME NEW e \in batch'
        PROVE  IF e.of = Listener THEN e.fd = sockfd /\ ~e.bad ELSE EventAbout(e.of, e.fd)'
    <3>1. e \in batch /\ (e.of = Listener \/ e.of \in Conns)
      BY <1>2 DEF IInv, MainInv, SafeEvent, Event
    <3>2. CASE e.of = Listener
      BY <3>1, <3>2 DEF WatchInv, EventsInHand
    <3>3. CASE e.of # Listener
      <4>1. EventAbout(e.of, e.fd) /\ e.of \in Conns
        BY <3>1, <3>3 DEF WatchInv, EventsInHand
      <4>2. e.of # c
        BY <1>5, <4>1 DEF EventAbout
      <4>3. EventAbout(e.of, e.fd)'
        BY <1>6, <1>8, <1>9, <4>1, <4>2 DEF EventAbout
      <4> QED BY <3>3, <4>3
    <3> QED BY <3>2, <3>3
  <2> QED BY <1>2, <2>1 DEF WatchInv, EventsInHand
<1>13. Registered'
  <2>1. cur'.fd = d
    BY <1>1 DEF IInv, MainInv
  <2> QED BY <1>1, <1>2, <1>6, <2>1 DEF WatchInv, Registered
<1>14. Reported'
  <2>1. cur'.fd = d
    BY <1>1 DEF IInv, MainInv
  <2>2. ASSUME NEW x \in Descriptors, NEW b \in Conns, descriptor'[x] = b, Readable(b)'
        PROVE  \/ b \in edges'
               \/ \E e \in batch' : e.fd = x
               \/ mpc' \in {"register", "read"} /\ cur'.fd = x
               \/ CloseOwed(x)'
    <3>1. x # d => descriptor[x] = b /\ Readable(b)
      BY <1>6, <1>9, <2>2
    <3> QED BY <1>1, <1>2, <1>10, <2>1, <2>2, <3>1 DEF WatchInv, Reported
  <2> QED BY <2>2, ReportedThen
<1>15. ReadIsOwed'
  BY <1>6, <1>8, <1>10 DEF WatchInv, ReadIsOwed
<1>16. QueueSeen'
  BY <1>2 DEF QueueSeen
<1> QED BY <1>11, <1>12, <1>13, <1>14, <1>15, <1>16 DEF WatchInv

\* A connection that is registered is reported if it has sent anything.
LEMMA RegisterWatches ==
  ASSUME IInv, WatchInv, Register
  PROVE  WatchInv'
<1>1. PICK c \in Conns : descriptor[cur.fd] = c /\ Watch(c)
  BY DEF Register
<1>2. /\ mpc = "register" /\ mpc' = "accept"
      /\ interest' = interest \cup {c}
      /\ edges' = IF Readable(c) THEN edges \cup {c} ELSE edges
      /\ UNCHANGED <<descriptor, backlog, conn, listen_edge, batch, cur, m_tasks, next_task, unaccepted>>
  BY <1>1 DEF Register, Watch, poolVars, historyVars
<1>3. \A b \in Conns : Readable(b)' <=> Readable(b)
  BY <1>2 DEF Readable, Unread
<1>4. \A x \in Descriptors : CloseOwed(x) => CloseOwed(x)'
  BY <1>2, OwedStays
<1>5. Linked'
  BY <1>2 DEF WatchInv, Linked
<1>6. EventsInHand'
  <2>1. ASSUME NEW e \in batch'
        PROVE  IF e.of = Listener THEN e.fd = sockfd /\ ~e.bad ELSE EventAbout(e.of, e.fd)'
    <3>1. e \in batch /\ (e.of = Listener \/ e.of \in Conns)
      BY <1>2 DEF IInv, MainInv, SafeEvent, Event
    <3>2. e.of # Listener => EventAbout(e.of, e.fd)'
      BY <1>2, <1>3, <3>1 DEF WatchInv, EventsInHand, EventAbout
    <3> QED BY <3>1, <3>2 DEF WatchInv, EventsInHand
  <2> QED BY <1>2, <2>1 DEF WatchInv, EventsInHand
<1>7. Registered'
  BY <1>1, <1>2 DEF WatchInv, Registered
<1>8. Reported'
  <2>1. ASSUME NEW x \in Descriptors, NEW b \in Conns, descriptor'[x] = b, Readable(b)'
        PROVE  \/ b \in edges'
               \/ \E e \in batch' : e.fd = x
               \/ mpc' \in {"register", "read"} /\ cur'.fd = x
               \/ CloseOwed(x)'
    <3>1. descriptor[x] = b /\ Readable(b)
      BY <1>2, <1>3, <2>1
    <3> QED BY <1>1, <1>2, <1>4, <2>1, <3>1 DEF WatchInv, Reported
  <2> QED BY <2>1, ReportedThen
<1>9. ReadIsOwed'
  BY <1>2, <1>4 DEF WatchInv, ReadIsOwed
<1>10. QueueSeen'
  BY <1>2 DEF QueueSeen
<1> QED BY <1>5, <1>6, <1>7, <1>8, <1>9, <1>10 DEF WatchInv

\* After the one read of an event main() owes the number's close, itself or
\* through the task it is about to queue, whatever it has left unread.
LEMMA ReadRequestWatches ==
  ASSUME IInv, WatchInv, NEW c \in Conns, ReadRequest(c)
  PROVE  WatchInv'
<1> DEFINE n == IF Unread(c) < ReadMax THEN Unread(c) ELSE ReadMax
<1>1. /\ mpc = "read" /\ mpc' \in {"close", "add_task"}
      /\ descriptor[cur.fd] = c
      /\ conn' = [conn EXCEPT ![c].read = @ + n]
      /\ cur' = [cur EXCEPT !.request = c]
      /\ UNCHANGED <<descriptor, backlog, interest, edges, listen_edge, batch, m_tasks, next_task,
                     unaccepted>>
  BY DEF ReadRequest, AfterRead, poolVars, historyVars
<1> HIDE DEF n
<1>2. cur'.fd = cur.fd /\ cur.fd \in Descriptors
  BY <1>1 DEF IInv, MainInv
<1>3. /\ conn \in [Conns -> Connection]
      /\ \A b \in Conns : conn'[b].phase = conn[b].phase
      /\ \A b \in Conns \ {c} : conn'[b] = conn[b]
  BY <1>1 DEF IInv, SocketInv, SocketsTypeOK, Connection
<1>4. \A b \in Conns \ {c} : Readable(b)' <=> Readable(b)
  BY <1>3 DEF Readable, Unread
<1>5. \A x \in Descriptors : descriptor[x] = c => x = cur.fd
  BY <1>1, <1>2 DEF WatchInv, Linked
<1>6. \A x \in Descriptors : x = cur.fd => CloseOwed(x)'
  BY <1>1, <1>2, WhoOwes
<1>7. \A x \in Descriptors : CloseOwed(x) => CloseOwed(x)'
  BY <1>1, OwedStays
<1>8. conn[c].phase = "open"
  BY <1>1, <1>2 DEF WatchInv, Linked
<1>9. Linked'
  <2>1. \A i \in DOMAIN backlog : backlog[i] \in Conns /\ backlog[i] # c
    <3>1. backlog \in Seq(Conns)
      BY DEF IInv, SocketInv, SocketsTypeOK
    <3> QED BY <1>8, <3>1 DEF WatchInv, Linked
  <2>2. \A i \in DOMAIN backlog : conn'[backlog[i]] = conn[backlog[i]]
    BY <1>3, <2>1
  <2>3. \A b \in Conns : conn'[b].phase = "away" => conn'[b].read = 0
    BY <1>3, <1>8 DEF WatchInv, Linked
  <2>4. \A x \in Descriptors : descriptor[x] \in Conns => conn'[descriptor[x]].phase = "open"
    BY <1>3 DEF WatchInv, Linked
  <2>5. \A i, j \in DOMAIN backlog' : backlog'[i] = backlog'[j] => i = j
    BY <1>1 DEF WatchInv, Linked
  <2>6. \A i \in DOMAIN backlog' : conn'[backlog'[i]].phase = "pending"
                                   /\ conn'[backlog'[i]].read = 0
    <3>1. backlog' = backlog
      BY <1>1
    <3>2. \A i \in DOMAIN backlog : conn[backlog[i]].phase = "pending" /\ conn[backlog[i]].read = 0
      BY DEF WatchInv, Linked
    <3> QED BY <2>2, <3>1, <3>2
  <2>7. \A x \in Descriptors : descriptor'[x] \in Conns => conn'[descriptor'[x]].phase = "open"
    BY <1>1, <2>4
  <2>8. \A x, y \in Descriptors : descriptor'[x] \in Conns /\ descriptor'[x] = descriptor'[y] => x = y
    BY <1>1 DEF WatchInv, Linked
  <2> QED BY <2>3, <2>5, <2>6, <2>7, <2>8 DEF Linked
<1>10. EventsInHand'
  <2>1. ASSUME NEW e \in batch'
        PROVE  IF e.of = Listener THEN e.fd = sockfd /\ ~e.bad ELSE EventAbout(e.of, e.fd)'
    <3>1. e \in batch /\ (e.of = Listener \/ e.of \in Conns) /\ e.fd # cur.fd
      BY <1>1 DEF IInv, MainInv, SafeEvent, Event, WatchInv, EventsInHand
    <3>2. CASE e.of = Listener
      BY <3>1, <3>2 DEF WatchInv, EventsInHand
    <3>3. CASE e.of # Listener
      <4>1. EventAbout(e.of, e.fd)
        BY <3>1, <3>3 DEF WatchInv, EventsInHand
      <4>2. e.of # c
        BY <1>1, <1>2, <3>1, <4>1 DEF EventAbout
      <4>3. EventAbout(e.of, e.fd)'
        BY <1>1, <1>3, <1>4, <3>1, <3>3, <4>1, <4>2 DEF EventAbout
      <4> QED BY <3>3, <4>3
    <3> QED BY <3>2, <3>3
  <2> QED BY <1>1, <2>1 DEF WatchInv, EventsInHand
<1>11. Registered'
  BY <1>1 DEF WatchInv, Registered
<1>12. Reported'
  <2>1. ASSUME NEW x \in Descriptors, NEW b \in Conns, descriptor'[x] = b, Readable(b)'
        PROVE  \/ b \in edges'
               \/ \E e \in batch' : e.fd = x
               \/ mpc' \in {"register", "read"} /\ cur'.fd = x
               \/ CloseOwed(x)'
    <3>1. CASE b = c
      BY <1>1, <1>5, <1>6, <2>1, <3>1
    <3>2. CASE b # c
      <4>1. descriptor[x] = b /\ Readable(b) /\ x # cur.fd
        BY <1>1, <1>4, <2>1, <3>2
      <4> QED BY <1>1, <1>7, <2>1, <4>1 DEF WatchInv, Reported
    <3> QED BY <3>1, <3>2
  <2> QED BY <2>1, ReportedThen
<1>13. ReadIsOwed'
  <2>1. ASSUME NEW x \in Descriptors, descriptor'[x] \in Conns, conn'[descriptor'[x]].read > 0
        PROVE  CloseOwed(x)'
    <3>1. CASE descriptor[x] = c
      BY <1>5, <1>6, <3>1
    <3>2. CASE descriptor[x] # c
      BY <1>1, <1>3, <1>7, <2>1, <3>2 DEF WatchInv, ReadIsOwed
    <3> QED BY <3>1, <3>2
  <2> QED BY <2>1 DEF ReadIsOwed
<1>14. QueueSeen'
  BY <1>1 DEF WatchInv, QueueSeen
<1> QED BY <1>9, <1>10, <1>11, <1>12, <1>13, <1>14 DEF WatchInv
-----------------------------------------------------------------------------
(* The clients keep WatchInv. *)

\* A client that connects joins the queue and rouses the listening socket.
LEMMA ConnectWatches ==
  ASSUME IInv, WatchInv, NEW c \in Conns, Connect(c), UNCHANGED <<mainVars, poolVars>>
  PROVE  WatchInv'
<1>1. /\ conn[c].phase = "away"
      /\ conn' = [conn EXCEPT ![c].phase = "pending"]
      /\ backlog' = Append(backlog, c)
      /\ listen_edge' = TRUE
      /\ UNCHANGED <<descriptor, interest, edges>>
  BY DEF Connect
<1>2. UNCHANGED <<mpc, batch, cur, m_tasks, next_task>>
  BY DEF mainVars, poolVars
<1>3. /\ backlog \in Seq(Conns) /\ Len(backlog) \in Nat /\ DOMAIN backlog = 1 .. Len(backlog)
      /\ conn \in [Conns -> Connection]
  BY DEF IInv, SocketInv, SocketsTypeOK
<1>4. /\ DOMAIN backlog' = 1 .. Len(backlog) + 1
      /\ \A i \in DOMAIN backlog : backlog'[i] = backlog[i]
      /\ backlog'[Len(backlog) + 1] = c
  BY <1>1, <1>3
<1>5. /\ conn'[c].phase = "pending"
      /\ \A b \in Conns \ {c} : conn'[b] = conn[b]
      /\ \A b \in Conns : /\ conn'[b].read = conn[b].read /\ conn'[b].sent = conn[b].sent
                          /\ conn'[b].end = conn[b].end
  BY <1>1, <1>3 DEF Connection
<1>6. \A b \in Conns : Readable(b)' <=> Readable(b)
  BY <1>5 DEF Readable, Unread
<1>7. \A x \in Descriptors : CloseOwed(x) => CloseOwed(x)'
  BY <1>2, OwedStays
<1>8. \A x \in Descriptors : descriptor[x] # c
  BY <1>1 DEF WatchInv, Linked
<1>9. Linked'
  <2>1. \A i \in DOMAIN backlog : backlog[i] \in Conns /\ backlog[i] # c
    BY <1>1, <1>3 DEF WatchInv, Linked
  <2>2. \A i \in DOMAIN backlog' : i \in DOMAIN backlog \/ i = Len(backlog) + 1
    BY <1>3, <1>4
  <2>3. \A i, j \in DOMAIN backlog' : backlog'[i] = backlog'[j] => i = j
    BY <1>4, <2>1, <2>2 DEF WatchInv, Linked
  <2>4. conn[c].read = 0
    BY <1>1 DEF WatchInv, Linked
  <2>5. \A i \in DOMAIN backlog' : conn'[backlog'[i]].phase = "pending"
                                   /\ conn'[backlog'[i]].read = 0
    BY <1>4, <1>5, <2>1, <2>2, <2>4 DEF WatchInv, Linked
  <2>6. \A b \in Conns : conn'[b].phase = "away" => conn'[b].read = 0
    BY <1>5 DEF WatchInv, Linked
  <2> QED BY <1>1, <1>5, <1>8, <2>3, <2>5, <2>6 DEF WatchInv, Linked
<1>10. EventsInHand'
  <2>1. ASSUME NEW b \in Conns, NEW d, EventAbout(b, d)
        PROVE  EventAbout(b, d)'
    <3>1. b # c
      BY <1>1, <2>1 DEF EventAbout
    <3> QED BY <1>1, <1>5, <1>6, <2>1, <3>1 DEF EventAbout
  <2>2. ASSUME NEW e \in batch'
        PROVE  IF e.of = Listener THEN e.fd = sockfd /\ ~e.bad ELSE EventAbout(e.of, e.fd)'
    <3>1. e \in batch /\ (e.of = Listener \/ e.of \in Conns)
      BY <1>2 DEF IInv, MainInv, SafeEvent, Event
    <3> QED BY <2>1, <3>1 DEF WatchInv, EventsInHand
  <2>3. ASSUME mpc' = "read"
        PROVE  EventAbout(cur.of, cur.fd)'
    <3>1. PICK b \in Conns, d \in {cur.fd} : b = cur.of /\ EventAbout(b, d)
      BY <1>2, <2>3 DEF WatchInv, EventsInHand
    <3>2. EventAbout(b, d)' /\ b = cur'.of /\ d = cur'.fd
      BY <1>2, <2>1, <3>1
    <3> QED BY <3>2 DEF EventAbout
  <2> QED BY <1>2, <2>2, <2>3 DEF WatchInv, EventsInHand
<1>11. Registered'
  BY <1>1, <1>2 DEF WatchInv, Registered
<1>12. Reported'
  <2>1. ASSUME NEW x \in Descriptors, NEW b \in Conns, descriptor'[x] = b, Readable(b)'
        PROVE  \/ b \in edges'
               \/ \E e \in batch' : e.fd = x
               \/ mpc' \in {"register", "read"} /\ cur'.fd = x
               \/ CloseOwed(x)'
    <3>1. descriptor[x] = b /\ Readable(b)
      BY <1>1, <1>6, <2>1
    <3> QED BY <1>1, <1>2, <1>7, <2>1, <3>1 DEF WatchInv, Reported
  <2> QED BY <2>1, ReportedThen
<1>13. ReadIsOwed'
  BY <1>1, <1>5, <1>7, <1>8 DEF WatchInv, ReadIsOwed
<1>14. QueueSeen'
  BY <1>1 DEF QueueSeen
<1> QED BY <1>9, <1>10, <1>11, <1>12, <1>13, <1>14 DEF WatchInv

\* A segment, a FIN or a reset puts its connection in the ready list as soon
\* as it is registered.
LEMMA SignalWatches ==
  ASSUME IInv, WatchInv, NEW c \in Conns, Send(c) \/ \E end \in {"fin", "rst", "pipe"} : HangUp(c, end),
         UNCHANGED <<mainVars, poolVars>>, unaccepted' = (unaccepted /\ backlog' = backlog)
  PROVE  WatchInv'
<1>1. /\ edges' = IF c \in interest THEN edges \cup {c} ELSE edges
      /\ UNCHANGED <<descriptor, backlog, interest, listen_edge>>
  BY DEF Send, HangUp, Signal
<1>2. UNCHANGED <<mpc, batch, cur, m_tasks, next_task>> /\ (unaccepted => unaccepted')
  BY <1>1 DEF mainVars, poolVars
<1>3. conn \in [Conns -> Connection]
  BY DEF IInv, SocketInv, SocketsTypeOK
<1>4. /\ \A b \in Conns \ {c} : conn'[b] = conn[b]
      /\ \A b \in Conns : conn'[b].phase = conn[b].phase /\ conn'[b].read = conn[b].read
      /\ Readable(c) => Readable(c)'
  <2>1. CASE Send(c)
    <3>1. conn' = [conn EXCEPT ![c].sent = @ + 1]
      BY <2>1 DEF Send
    <3>2. conn[c].sent \in Nat /\ conn[c].read \in Nat
      BY <1>3 DEF Connection
    <3>3. conn'[c] = [conn[c] EXCEPT !.sent = @ + 1] /\ \A b \in Conns \ {c} : conn'[b] = conn[b]
      BY <1>3, <3>1
    <3>4. conn'[c].sent = conn[c].sent + 1 /\ conn'[c].read = conn[c].read
          /\ conn'[c].end = conn[c].end /\ conn'[c].phase = conn[c].phase
      BY <1>3, <3>3 DEF Connection
    <3>5. Readable(c) => Readable(c)'
      BY <3>2, <3>4 DEF Readable, Unread
    <3> QED BY <3>3, <3>4, <3>5
  <2>2. CASE \E end \in {"fin", "rst", "pipe"} : HangUp(c, end)
    <3>1. PICK end \in {"fin", "rst", "pipe"} : conn' = [conn EXCEPT ![c].end = end]
      BY <2>2 DEF HangUp
    <3>2. conn'[c] = [conn[c] EXCEPT !.end = end] /\ \A b \in Conns \ {c} : conn'[b] = conn[b]
      BY <1>3, <3>1
    <3>3. conn'[c].end # "open" /\ conn'[c].read = conn[c].read /\ conn'[c].phase = conn[c].phase
      BY <1>3, <3>2 DEF Connection
    <3> QED BY <3>2, <3>3 DEF Readable
  <2> QED BY <2>1, <2>2
<1>5. \A b \in Conns \ {c} : Readable(b)' <=> Readable(b)
  BY <1>4 DEF Readable, Unread
<1>6. \A x \in Descriptors : CloseOwed(x) => CloseOwed(x)'
  BY <1>2, OwedStays
<1>7. \A b \in Conns : Readable(b) => Readable(b)'
  BY <1>4, <1>5
<1>8. Linked'
  <2>1. \A i \in DOMAIN backlog : backlog[i] \in Conns
    BY DEF IInv, SocketInv, SocketsTypeOK
  <2>2. \A i, j \in DOMAIN backlog' : backlog'[i] = backlog'[j] => i = j
    BY <1>1 DEF WatchInv, Linked
  <2>3. \A i \in DOMAIN backlog' : conn'[backlog'[i]].phase = "pending"
                                   /\ conn'[backlog'[i]].read = 0
    BY <1>1, <1>4, <2>1 DEF WatchInv, Linked
  <2>4. \A b \in Conns : conn'[b].phase = "away" => conn'[b].read = 0
    BY <1>4 DEF WatchInv, Linked
  <2>5. \A x \in Descriptors : descriptor'[x] \in Conns => conn'[descriptor'[x]].phase = "open"
    BY <1>1, <1>4 DEF WatchInv, Linked
  <2>6. \A x, y \in Descriptors :
           descriptor'[x] \in Conns /\ descriptor'[y] = descriptor'[x] => x = y
    BY <1>1 DEF WatchInv, Linked
  <2> QED BY <2>2, <2>3, <2>4, <2>5, <2>6 DEF Linked
<1>9. EventsInHand'
  <2>1. ASSUME NEW b \in Conns, NEW d, EventAbout(b, d)
        PROVE  EventAbout(b, d)'
    BY <1>1, <1>4, <1>7, <2>1 DEF EventAbout
  <2>2. ASSUME NEW e \in batch'
        PROVE  IF e.of = Listener THEN e.fd = sockfd /\ ~e.bad ELSE EventAbout(e.of, e.fd)'
    <3>1. e \in batch /\ (e.of = Listener \/ e.of \in Conns)
      BY <1>2 DEF IInv, MainInv, SafeEvent, Event
    <3> QED BY <2>1, <3>1 DEF WatchInv, EventsInHand
  <2>3. ASSUME mpc' = "read"
        PROVE  EventAbout(cur.of, cur.fd)'
    <3>1. PICK b \in Conns, d \in {cur.fd} : b = cur.of /\ EventAbout(b, d)
      BY <1>2, <2>3 DEF WatchInv, EventsInHand
    <3>2. EventAbout(b, d)' /\ b = cur'.of /\ d = cur'.fd
      BY <1>2, <2>1, <3>1
    <3> QED BY <3>2 DEF EventAbout
  <2> QED BY <1>2, <2>2, <2>3 DEF WatchInv, EventsInHand
<1>10. Registered'
  BY <1>1, <1>2 DEF WatchInv, Registered
<1>11. Reported'
  <2>1. ASSUME NEW x \in Descriptors, NEW b \in Conns, descriptor'[x] = b, Readable(b)'
        PROVE  \/ b \in edges'
               \/ \E e \in batch' : e.fd = x
               \/ mpc' \in {"register", "read"} /\ cur'.fd = x
               \/ CloseOwed(x)'
    <3>1. CASE b = c
      BY <1>1, <1>2, <2>1, <3>1 DEF WatchInv, Registered
    <3>2. CASE b # c
      <4>1. descriptor[x] = b /\ Readable(b)
        BY <1>1, <1>5, <2>1, <3>2
      <4> QED BY <1>1, <1>2, <1>6, <2>1, <4>1 DEF WatchInv, Reported
    <3> QED BY <3>1, <3>2
  <2> QED BY <2>1, ReportedThen
<1>12. ReadIsOwed'
  BY <1>1, <1>4, <1>6 DEF WatchInv, ReadIsOwed
<1>13. QueueSeen'
  BY <1>1, <1>2 DEF WatchInv, QueueSeen
<1> QED BY <1>8, <1>9, <1>10, <1>11, <1>12, <1>13 DEF WatchInv
-----------------------------------------------------------------------------
\* At the start nothing is open but main()'s two numbers.
LEMMA WatchStart == Init => WatchInv /\ PollingIsIdle
<1> SUFFICES ASSUME Init
             PROVE  WatchInv /\ PollingIsIdle
  OBVIOUS
<1>1. /\ mpc = "epoll_wait" /\ batch = {} /\ backlog = <<>>
      /\ \A w \in Workers : next_task[w] = nullptr
      /\ \A c \in Conns : conn[c].phase = "away" /\ conn[c].read = 0
  BY DEF Init, SocketsInit, Pool!Init
<1>2. \A d \in Descriptors : descriptor[d] \notin Conns
  BY Constant DEF Init, SocketsInit
<1> QED BY <1>1, <1>2 DEF WatchInv, PollingIsIdle, Linked, EventsInHand, Registered, Reported,
                         ReadIsOwed, QueueSeen

\* Every step keeps WatchInv.
LEMMA WatchInductive == IInv /\ PollingIsIdle /\ WatchInv /\ [Next]_vars => WatchInv'
<1> SUFFICES ASSUME IInv, PollingIsIdle, WatchInv, [Next]_vars
             PROVE  WatchInv'
  OBVIOUS
<1>1. ASSUME NEW c \in Conns, ClientStep(c)
      PROVE  WatchInv'
  BY <1>1, ConnectWatches, SignalWatches DEF ClientStep, Client
<1>2. CASE Main
  BY <1>2, EpollWaitWatches, TakeEventWatches, AcceptWatches, RegisterWatches, ReadRequestWatches,
     ClosingWatches DEF Main
<1>3. ASSUME NEW w \in Workers, Worker(w)
      PROVE  WatchInv'
  BY <1>3, TakeTaskWatches, HandlingWatches, DestroyWatches DEF Worker
<1>4. CASE UNCHANGED vars
  <2>1. Shrinks
    BY <1>4, SameShrinks DEF vars, WatchInv
  <2>2. \A d \in Descriptors : CloseOwed(d) => CloseOwed(d)'
    BY <1>4, OwedStays DEF vars, mainVars, poolVars
  <2> QED BY <1>4, <2>1, <2>2, WorkerShrinks DEF vars, historyVars
<1> QED BY <1>1, <1>2, <1>3, <1>4 DEF Next

\* WatchInv holds in every reachable state.
LEMMA WatchReachable == Spec => [](IInv /\ WatchInv)
<1>1. IInv /\ PollingIsIdle /\ [Next]_vars => PollingIsIdle'
  BY PollingKept
<1>2. Spec => [](IInv /\ PollingIsIdle /\ WatchInv)
  BY <1>1, Start, WatchStart, Inductive, WatchInductive, PTL DEF Spec
<1> QED BY <1>2, PTL

\* Whatever has been read of, an open connection has somebody who will close
\* it (main.cpp:242, server.cpp:229).
THEOREM NoLeak == Spec => []ReadConnectionsGetClosed
<1>1. WatchInv => ReadConnectionsGetClosed
  BY DEF WatchInv, ReadIsOwed, ReadConnectionsGetClosed
<1> QED BY <1>1, WatchReachable, PTL

\* Edge-triggered epoll with one read per event loses no input of an open
\* connection (main.cpp:237).
THEOREM NoLostWakeUp == Spec => []NoStrandedConnection
<1>1. WatchInv => NoStrandedConnection
  BY DEF WatchInv, Reported, NoStrandedConnection
<1> QED BY <1>1, WatchReachable, PTL

\* The listening queue is only forgotten where accept() has failed with clients
\* in it, and until the next one connects (main.cpp:214).
THEOREM QueueIsWatched == Spec => []BacklogWatched
<1>1. WatchInv => BacklogWatched
  BY DEF WatchInv, QueueSeen, BacklogWatched
<1> QED BY <1>1, WatchReachable, PTL

\* main() waits in read() only on a number that has changed hands since the
\* event (main.cpp:219, :237).
THEOREM OnlyStaleEventsBlock == Spec => []BlocksOnlyOnStaleEvent
<1>1. IInv /\ WatchInv => BlocksOnlyOnStaleEvent
  BY DEF IInv, MainInv, WatchInv, EventsInHand, EventAbout, BlocksOnlyOnStaleEvent
<1> QED BY <1>1, WatchReachable, PTL
-----------------------------------------------------------------------------
(* Clients that send one request in one piece and wait, and what is then    *)
(* true until the first stray close or the first missing descriptor: every  *)
(* number in use is the one it was when it was handed over.                 *)

PoliteClients == Impatient = {} /\ Script = [c \in Conns |-> <<"ok">>]

ClientsInv ==
    \A c \in Conns : /\ conn[c].end = "open"
                     /\ conn[c].sent <= 1 /\ conn[c].read <= conn[c].sent

Unharmed == ~stray_close /\ ~starved
Held == Pool!Queued \cup Pool!Running

EventsCalm ==
    \A e \in batch : /\ ~e.bad
                     /\ e.of \in Conns => descriptor[e.fd] = e.of /\ conn[e.of].read = 0

LoopCalm ==
    /\ mpc = "register" => /\ descriptor[cur.fd] \in Conns
                           /\ conn[descriptor[cur.fd]].read = 0
    /\ mpc = "read" => /\ cur.of \in Conns /\ descriptor[cur.fd] = cur.of
                       /\ conn[cur.of].read = 0
    /\ mpc \in {"close", "add_task"} =>
           /\ cur.request \in Conns /\ descriptor[cur.fd] = cur.request
           /\ conn[cur.request].read > 0 /\ reply[cur.request] = <<>>
           /\ \A t \in Held : t.client_request # cur.request

TasksCalm ==
    /\ \A t \in Held : conn[t.client_request].read > 0
    /\ \A s, t \in Held : s.client_request = t.client_request => s.id = t.id
    /\ \A t \in Pool!Queued : /\ descriptor[t.newsockfd] = t.client_request
                              /\ reply[t.client_request] = <<>>

WorkerCalm(w) ==
    LET t == next_task[w]
    IN  /\ handler[w].intact
        /\ handler[w].pc = "read" => descriptor[handler[w].file] = w
        /\ handler[w].pc \in {"open", "read", "write", "close"} =>
               descriptor[t.newsockfd] = t.client_request
        /\ handler[w].pc \in {"open", "read", "write"} => reply[t.client_request] = <<>>
        /\ handler[w].pc \in {"close", "destroy"} => AnsweredRight(t.client_request)

AnswersCalm ==
    /\ \A c \in Conns : conn[c].read = 0 => reply[c] = <<>>
    /\ \A c \in Conns : reply[c] # <<>> => AnsweredRight(c)
    /\ \A t \in finished : AnsweredRight(t.client_request)

Calm ==
    /\ status = "up"
    /\ EventsCalm /\ LoopCalm /\ TasksCalm
    /\ \A w \in Workers : WorkerCalm(w)
    /\ AnswersCalm

PoliteInv == ClientsInv /\ (Unharmed => Calm)

\* The numbers that refer to something still do, but for those of o.
Loses(o) ==
    /\ \A d \in Descriptors : descriptor[d] \in Conns \cup Workers =>
           descriptor'[d] = descriptor[d] \/ descriptor[d] = o
    /\ \A c \in Conns : conn'[c].read = conn[c].read
-----------------------------------------------------------------------------
\* A client that is polite sends one segment and does not hang up.
LEMMA ClientsKept ==
  ASSUME PoliteClients, IInv, ClientsInv, [Next]_vars
  PROVE  ClientsInv'
<1> DEFINE Fine(r) == r.end = "open" /\ r.sent <= 1 /\ r.read <= r.sent
<1>1. conn \in [Conns -> Connection] /\ \A c \in Conns : Fine(conn[c])
  BY DEF IInv, SocketInv, SocketsTypeOK, ClientsInv
<1>2. SUFFICES ASSUME NEW c \in Conns
               PROVE  Fine(conn'[c])
  BY DEF ClientsInv
<1>3. ASSUME conn'[c] = conn[c] \/ (\E p \in {"pending", "open", "closed"} :
                                        conn'[c] = [conn[c] EXCEPT !.phase = p])
      PROVE  Fine(conn'[c])
  BY <1>1, <1>3 DEF Connection
<1>4. ASSUME NEW b \in Conns, ClientStep(b)
      PROVE  Fine(conn'[c])
  <2>1. CASE Connect(b)
    <3>1. conn' = [conn EXCEPT ![b].phase = "pending"]
      BY <2>1 DEF Connect
    <3> QED BY <1>1, <1>3, <3>1
  <2>2. CASE Send(b)
    <3>1. conn' = [conn EXCEPT ![b].sent = @ + 1] /\ conn[b].sent < Len(Script[b])
      BY <2>2 DEF Send
    <3>2. Len(Script[b]) = 1
      BY DEF PoliteClients
    <3>3. CASE c = b
      <4>1. conn'[c] = [conn[c] EXCEPT !.sent = @ + 1]
        BY <1>1, <3>1, <3>3
      <4> QED BY <1>1, <3>1, <3>2, <3>3, <4>1 DEF Connection
    <3>4. CASE c # b
      BY <1>1, <1>3, <3>1, <3>4
    <3> QED BY <3>3, <3>4
  <2>3. ~\E end \in {"fin", "rst", "pipe"} : HangUp(b, end)
    BY DEF HangUp, PoliteClients
  <2> QED BY <1>4, <2>1, <2>2, <2>3 DEF ClientStep, Client
<1>5. ASSUME NEW d \in Descriptors, Close(d)
      PROVE  Fine(conn'[c])
  BY <1>1, <1>3, <1>5 DEF Close
<1>6. ASSUME NEW o, conn' = [b \in Conns |-> IF b = o /\ conn[b].end = "rst"
                                             THEN [conn[b] EXCEPT !.end = "pipe"] ELSE conn[b]]
      PROVE  Fine(conn'[c])
  BY <1>1, <1>3, <1>6
<1>7. CASE Main
  <2>1. ASSUME NEW e \in batch, DropFaulty(e)
        PROVE  Fine(conn'[c])
    BY <1>5, <2>1 DEF DropFaulty, IInv, MainInv, SafeEvent, Event
  <2>2. CASE Accept
    <3>1. Head(backlog) \in Conns /\ conn' = [conn EXCEPT ![Head(backlog)].phase = "open"]
      BY <2>2 DEF Accept, AcceptConnection, IInv, SocketInv, SocketsTypeOK
    <3> QED BY <1>1, <1>3, <3>1
  <2>3. ASSUME NEW b \in Conns, ReadRequest(b)
        PROVE  Fine(conn'[c])
    <3> DEFINE n == IF Unread(b) < ReadMax THEN Unread(b) ELSE ReadMax
    <3>1. conn' = [conn EXCEPT ![b].read = @ + n] /\ Unread(b) > 0
      BY <2>3 DEF ReadRequest
    <3>2. conn[b].sent \in Nat /\ conn[b].read \in Nat
      BY <1>1 DEF Connection
    <3>3. n \in Nat /\ conn[b].read + n <= conn[b].sent
      BY <3>1, <3>2, ConnectionsAssumption DEF Unread
    <3> HIDE DEF n
    <3>4. CASE c = b
      <4>1. conn'[c] = [conn[c] EXCEPT !.read = @ + n]
        BY <1>1, <3>1, <3>4
      <4> QED BY <1>1, <3>3, <3>4, <4>1 DEF Connection
    <3>5. CASE c # b
      BY <1>1, <1>3, <3>1, <3>5
    <3> QED BY <3>4, <3>5
  <2>4. CASE ReadNothing
    BY <1>6, <2>4 DEF ReadNothing
  <2>5. CASE CloseCurrent
    BY <1>5, <2>5 DEF CloseCurrent, IInv, MainInv
  <2>6. CASE EpollWait \/ (\E e \in batch : TakeEvent(e)) \/ AcceptNothing \/ Register
             \/ RegisterFails \/ \E w \in Workers : QueueTask(w)
    BY <1>3, <2>6 DEF EpollWait, TakeEvent, AcceptNothing, Register, RegisterFails, QueueTask,
                      Watch, socketVars
  <2> QED BY <1>7, <2>1, <2>2, <2>3, <2>4, <2>5, <2>6 DEF Main
<1>8. ASSUME NEW w \in Workers, Worker(w)
      PROVE  Fine(conn'[c])
  <2>1. CASE TakeTask(w) \/ Nap(w) \/ OpenFile(w) \/ OpenNothing(w)
    BY <1>3, <2>1 DEF TakeTask, Nap, OpenFile, OpenNothing, OpenFor, socketVars
  <2>2. CASE ReadFile(w)
    BY <1>5, <2>2 DEF ReadFile, IInv, HandlerInv, SafeDescriptors
  <2>3. CASE WriteReply(w)
    BY <1>6, <2>3 DEF WriteReply
  <2>4. CASE CloseReply(w) \/ Destroy(w)
    <3>1. next_task[w].newsockfd \in Descriptors /\ Close(next_task[w].newsockfd)
      BY <2>4 DEF CloseReply, Destroy, IInv, HandlerInv, SafeTask, SafeDescriptors
    <3> QED BY <1>5, <3>1
  <2> QED BY <1>8, <2>1, <2>2, <2>3, <2>4 DEF Worker
<1>9. CASE UNCHANGED vars
  BY <1>3, <1>9 DEF vars, socketVars
<1> QED BY <1>4, <1>7, <1>8, <1>9 DEF Next

\* Harm that is done stays done.
LEMMA HarmStays ==
  ASSUME IInv, [Next]_vars, Unharmed'
  PROVE  Unharmed
<1>1. stray_close \in BOOLEAN /\ starved \in BOOLEAN
  BY DEF IInv, HistoryInv
<1>2. CASE \E c \in Conns : ClientStep(c)
  BY <1>2 DEF ClientStep, historyVars, Unharmed
<1>3. CASE Main
  BY <1>1, <1>3 DEF Main, EpollWait, DropFaulty, TakeEvent, Accept, AcceptNothing, Register,
                    RegisterFails, ReadRequest, ReadNothing, CloseCurrent, QueueTask,
                    historyVars, Unharmed
<1>4. ASSUME NEW w \in Workers, Worker(w)
      PROVE  Unharmed
  BY <1>1, <1>4 DEF Worker, TakeTask, Nap, OpenFile, OpenNothing, ReadFile, WriteReply,
                    CloseReply, Destroy, historyVars, Unharmed
<1>5. CASE UNCHANGED vars
  BY <1>5 DEF vars, historyVars, Unharmed
<1> QED BY <1>2, <1>3, <1>4, <1>5 DEF Next

\* What the tasks and the events in hand refer to.
LEMMA CalmTypes ==
  ASSUME IInv, Calm
  PROVE  /\ \A t \in Held : t \in SafeTask /\ t.client_request \in Conns
                            /\ t.newsockfd \in Descriptors /\ t.id \in Nat
         /\ \A w \in Workers : handler[w].pc # "idle" => next_task[w] \in Held
         /\ \A e \in batch : e.fd \in Descriptors /\ (e.of = Listener \/ e.of \in Conns)
         /\ cur.fd \in Descriptors
         /\ \A w \in Workers : handler[w].pc = "read" => handler[w].file \in Descriptors
         /\ \A c \in Conns : conn[c].read \in Nat /\ conn[c].sent \in Nat
<1>1. \A t \in SafeTask : /\ t.client_request \in Conns /\ t.newsockfd \in Descriptors
                          /\ t.id \in Nat
  BY DEF SafeTask, Task
<1>2. \A t \in Held : t \in SafeTask
  BY DEF Held, Pool!Queued, Pool!QueueOf, Pool!Running, IInv, PoolInv
<1>3. \A w \in Workers : handler[w].pc # "idle" => next_task[w] \in Held
  BY Constant DEF Held, Pool!Running, IInv, HandlerInv
<1>4. \A e \in batch : e.fd \in Descriptors /\ (e.of = Listener \/ e.of \in Conns)
  BY DEF IInv, MainInv, SafeEvent, Event
<1>5. cur.fd \in Descriptors
  BY DEF IInv, MainInv
<1>6. \A w \in Workers : handler[w].pc = "read" => handler[w].file \in Descriptors
  BY DEF IInv, HandlerInv, SafeDescriptors
<1>7. \A c \in Conns : conn[c].read \in Nat /\ conn[c].sent \in Nat
  BY DEF IInv, SocketInv, SocketsTypeOK, Connection
<1> QED BY <1>1, <1>2, <1>3, <1>4, <1>5, <1>6, <1>7

\* Events stay right: none is about a connection that has been read.
LEMMA EventsKept ==
  ASSUME IInv, Calm, NEW o, Loses(o), o \in Conns => conn[o].read > 0, batch' \subseteq batch
  PROVE  EventsCalm'
<1> SUFFICES ASSUME NEW e \in batch'
             PROVE  /\ ~e.bad
                    /\ e.of \in Conns => descriptor'[e.fd] = e.of /\ conn'[e.of].read = 0
  BY DEF EventsCalm
<1>1. e \in batch
  OBVIOUS
<1> QED BY <1>1, CalmTypes DEF Calm, EventsCalm, Loses

\* What main() has in hand stays right, if it is not what is closed.
LEMMA LoopKept ==
  ASSUME IInv, Calm, NEW o, Loses(o), o \in Conns => conn[o].read > 0, UNCHANGED <<mpc, cur>>,
         Held' \subseteq Held,
         mpc \in {"close", "add_task"} =>
             o # cur.request /\ reply'[cur.request] = reply[cur.request]
  PROVE  LoopCalm'
<1>1. mpc = "register" => /\ descriptor'[cur.fd] = descriptor[cur.fd]
                          /\ conn'[descriptor[cur.fd]].read = conn[descriptor[cur.fd]].read
  BY CalmTypes DEF Calm, LoopCalm, Loses
<1>2. mpc = "read" => /\ descriptor'[cur.fd] = descriptor[cur.fd]
                      /\ conn'[cur.of].read = conn[cur.of].read
  BY CalmTypes DEF Calm, LoopCalm, Loses
<1>3. mpc \in {"close", "add_task"} => /\ descriptor'[cur.fd] = descriptor[cur.fd]
                                       /\ conn'[cur.request].read = conn[cur.request].read
  BY CalmTypes DEF Calm, LoopCalm, Loses
<1> QED BY <1>1, <1>2, <1>3 DEF Calm, LoopCalm

\* Nor is what a queued task refers to.
LEMMA TasksKept ==
  ASSUME IInv, Calm, NEW o, Loses(o), Held' \subseteq Held, Pool!Queued' \subseteq Pool!Queued,
         \A t \in Pool!Queued' : t.client_request # o /\ reply'[t.client_request] = reply[t.client_request]
  PROVE  TasksCalm'
<1>1. \A t \in Held' : conn'[t.client_request].read > 0
  BY CalmTypes DEF Calm, TasksCalm, Loses
<1>2. \A s, t \in Held' : s.client_request = t.client_request => s.id = t.id
  BY DEF Calm, TasksCalm
<1>3. ASSUME NEW t \in Pool!Queued'
      PROVE  /\ descriptor'[t.newsockfd] = t.client_request
             /\ reply'[t.client_request] = <<>>
  <2>1. t \in Pool!Queued /\ t \in Held
    BY <1>3 DEF Held
  <2> QED BY <1>3, <2>1, CalmTypes DEF Calm, TasksCalm, Loses
<1> QED BY <1>1, <1>2, <1>3 DEF TasksCalm

\* A worker that does nothing keeps what it has.
LEMMA WorkerKept ==
  ASSUME IInv, Calm, NEW o, Loses(o), NEW w \in Workers, o # w,
         handler'[w] = handler[w], next_task'[w] = next_task[w],
         next_task[w] # nullptr => next_task[w].client_request # o
             /\ reply'[next_task[w].client_request] = reply[next_task[w].client_request]
  PROVE  WorkerCalm(w)'
<1> DEFINE t == next_task[w]
<1>1. WorkerCalm(w)
  BY DEF Calm
<1>2. handler[w].pc # "idle" =>
          /\ t \in Held /\ t.client_request \in Conns /\ t.newsockfd \in Descriptors
          /\ t # nullptr
  BY CalmTypes, Constant
<1>3. handler[w].pc = "read" => descriptor'[handler[w].file] = w
  BY <1>1, CalmTypes DEF WorkerCalm, Loses
<1>4. handler[w].pc \in {"open", "read", "write", "close"} =>
          descriptor'[t.newsockfd] = t.client_request
  BY <1>1, <1>2 DEF WorkerCalm, Loses
<1>5. handler[w].pc \in {"open", "read", "write"} => reply'[t.client_request] = <<>>
  BY <1>1, <1>2 DEF WorkerCalm
<1>6. handler[w].pc \in {"close", "destroy"} => AnsweredRight(t.client_request)'
  BY <1>1, <1>2 DEF WorkerCalm, AnsweredRight
<1> QED BY <1>1, <1>3, <1>4, <1>5, <1>6 DEF WorkerCalm

\* Answers stay what they are.
LEMMA AnswersKept ==
  ASSUME Calm, \A c \in Conns : conn'[c].read = conn[c].read, UNCHANGED <<reply, finished>>
  PROVE  AnswersCalm'
  BY DEF Calm, AnswersCalm, AnsweredRight

\* A step that gives numbers out, or closes nothing that is in use.
LEMMA NothingLost ==
  ASSUME IInv, Calm, Loses(Free), UNCHANGED <<reply, next_task, handler, finished, m_tasks>>
  PROVE  /\ TasksCalm' /\ (\A w \in Workers : WorkerCalm(w)') /\ AnswersCalm'
         /\ batch' \subseteq batch => EventsCalm'
         /\ UNCHANGED <<mpc, cur>> => LoopCalm'
<1>1. Free \notin Conns \cup Workers
  BY ConnectionsAssumption
<1>2. Held' = Held /\ Pool!Queued' = Pool!Queued
  BY DEF Held, Pool!Queued, Pool!QueueOf, Pool!Running
<1>3. \A t \in Held : t.client_request # Free
  BY <1>1, CalmTypes
<1>4. TasksCalm'
  BY <1>2, <1>3, TasksKept DEF Held
<1>5. ASSUME NEW w \in Workers
      PROVE  WorkerCalm(w)'
  <2>1. next_task[w] # nullptr => next_task[w] \in Held
    BY DEF Held, Pool!Running
  <2> QED BY <1>1, <1>3, <2>1, WorkerKept
<1>6. AnswersCalm'
  BY AnswersKept DEF Loses
<1>7. batch' \subseteq batch => EventsCalm'
  BY <1>1, EventsKept
<1>8. UNCHANGED <<mpc, cur>> => LoopCalm'
  <2>1. mpc \in {"close", "add_task"} => Free # cur.request
    BY <1>1 DEF Calm, LoopCalm
  <2> QED BY <1>1, <1>2, <2>1, LoopKept
<1> QED BY <1>4, <1>5, <1>6, <1>7, <1>8
-----------------------------------------------------------------------------
(* main() keeps calm. *)

\* A step that leaves descriptors alone and reads nothing loses nothing.
LEMMA SameLosesNothing ==
  ASSUME UNCHANGED descriptor, \A c \in Conns : conn'[c].read = conn[c].read
  PROVE  Loses(Free)
  BY DEF Loses

\* epoll_wait reports connections that have been sent to and not been read.
LEMMA EpollWaitCalm ==
  ASSUME IInv, WatchInv, ClientsInv, Calm, EpollWait
  PROVE  Calm'
<1>1. PICK got \in SUBSET ReadyItems : batch' = {EventOf(o) : o \in got}
  BY DEF EpollWait
<1>2. /\ mpc' = "for"
      /\ UNCHANGED <<descriptor, conn, status, handler, reply, next_task, finished, m_tasks>>
  BY DEF EpollWait, poolVars, historyVars
<1>3. TasksCalm' /\ (\A w \in Workers : WorkerCalm(w)') /\ AnswersCalm'
  BY <1>2, NothingLost, SameLosesNothing
<1>4. EventsCalm'
  <2>1. ASSUME NEW e \in batch'
        PROVE  ~e.bad /\ (e.of \in Conns => descriptor[e.fd] = e.of /\ conn[e.of].read = 0)
    <3>1. PICK o \in ReadyItems : e = EventOf(o)
      BY <1>1, <2>1
    <3>2. /\ e.of = o /\ descriptor[e.fd] = o
          /\ o = Listener => ~e.bad
          /\ o # Listener => o \in Conns
      BY <3>1, ReadyEvents DEF WatchInv
    <3>3. CASE o = Listener
      BY <3>2, <3>3, Constant
    <3>4. CASE o # Listener
      <4>1. o \in Conns /\ Readable(o) /\ conn[o].end = "open"
        BY <3>2, <3>4 DEF ReadyItems, ClientsInv
      <4>2. conn[o].read = 0
        BY <4>1, CalmTypes DEF Readable, Unread, ClientsInv
      <4>3. ~e.bad
        BY <3>1, <4>1 DEF EventOf, Broken
      <4> QED BY <3>2, <4>2, <4>3
    <3> QED BY <3>3, <3>4
  <2> QED BY <1>2, <2>1 DEF EventsCalm
<1>5. LoopCalm'
  BY <1>2 DEF LoopCalm
<1> QED BY <1>2, <1>3, <1>4, <1>5 DEF Calm

\* An event is taken up with its connection still under its number.
LEMMA TakeEventCalm ==
  ASSUME IInv, WatchInv, Calm, NEW e \in batch, TakeEvent(e)
  PROVE  Calm'
<1>1. /\ mpc' = IF e.fd = sockfd THEN "accept" ELSE "read"
      /\ batch' = batch \ {e}
      /\ cur' = [fd |-> e.fd, request |-> NoConn, of |-> e.of]
      /\ UNCHANGED <<descriptor, conn, status, handler, reply, next_task, finished, m_tasks>>
  BY DEF TakeEvent, poolVars, historyVars, socketVars
<1>2. /\ TasksCalm' /\ (\A w \in Workers : WorkerCalm(w)') /\ AnswersCalm'
      /\ EventsCalm'
  BY <1>1, NothingLost, SameLosesNothing
<1>3. LoopCalm'
  <2>1. CASE e.fd = sockfd
    BY <1>1, <2>1 DEF LoopCalm
  <2>2. CASE e.fd # sockfd
    <3>1. e.of \in Conns
      BY <2>2, CalmTypes DEF WatchInv, EventsInHand
    <3>2. descriptor[e.fd] = e.of /\ conn[e.of].read = 0
      BY <3>1 DEF Calm, EventsCalm
    <3> QED BY <1>1, <2>2, <3>1, <3>2 DEF LoopCalm
  <2> QED BY <2>1, <2>2
<1> QED BY <1>1, <1>2, <1>3 DEF Calm

\* No event is faulty, since nobody hangs up.
LEMMA NothingFaulty ==
  ASSUME Calm, NEW e \in batch
  PROVE  ~DropFaulty(e)
  BY DEF Calm, EventsCalm, DropFaulty

\* A connection that is accepted has not been read.
LEMMA AcceptCalm ==
  ASSUME IInv, WatchInv, Calm, Accept
  PROVE  Calm'
<1> DEFINE c == Head(backlog)
<1>1. PICK d \in Descriptors :
        /\ descriptor[d] = Free
        /\ descriptor' = [descriptor EXCEPT ![d] = c]
        /\ conn' = [conn EXCEPT ![c].phase = "open"]
        /\ cur' = [cur EXCEPT !.fd = d]
  BY DEF Accept, AcceptConnection, IsNextDescriptor, FreeDescriptors
<1>2. /\ mpc' = "register"
      /\ UNCHANGED <<status, batch, handler, reply, next_task, finished, m_tasks>>
  BY DEF Accept, poolVars, historyVars
<1>3. /\ c \in Conns /\ conn[c].read = 0
      /\ conn \in [Conns -> Connection]
      /\ descriptor \in [Descriptors -> Conns \cup Workers \cup {Free, Listener, Epoll}]
  <2>1. backlog \in Seq(Conns) /\ backlog # <<>>
    BY DEF IInv, SocketInv, SocketsTypeOK, Accept
  <2>2. 1 \in DOMAIN backlog /\ c = backlog[1] /\ c \in Conns
    BY <2>1
  <2> QED BY <2>2 DEF WatchInv, Linked, IInv, SocketInv, SocketsTypeOK
<1> HIDE DEF c
<1>4. \A b \in Conns : conn'[b].read = conn[b].read
  BY <1>1, <1>3 DEF Connection
<1>5. Loses(Free)
  BY <1>1, <1>3, <1>4 DEF Loses
<1>6. /\ TasksCalm' /\ (\A w \in Workers : WorkerCalm(w)') /\ AnswersCalm'
      /\ EventsCalm'
  BY <1>2, <1>5, NothingLost
<1>7. LoopCalm'
  <2>1. cur'.fd = d
    BY <1>1 DEF IInv, MainInv
  <2>2. descriptor'[d] = c
    BY <1>1, <1>3
  <2> QED BY <1>2, <1>3, <1>4, <2>1, <2>2 DEF LoopCalm
<1> QED BY <1>2, <1>6, <1>7 DEF Calm

\* main() leaves the accept loop, or comes back to it with a connection.
LEMMA AcceptLoopCalm ==
  ASSUME IInv, Calm, AcceptNothing \/ Register
  PROVE  Calm'
<1>1. /\ mpc' \in {"for", "epoll_wait", "accept"}
      /\ UNCHANGED <<descriptor, conn, status, batch, handler, reply, next_task, finished, m_tasks>>
  BY DEF AcceptNothing, Register, Watch, NextEvent, socketVars, poolVars, historyVars
<1>2. /\ TasksCalm' /\ (\A w \in Workers : WorkerCalm(w)') /\ AnswersCalm'
      /\ EventsCalm'
  BY <1>1, NothingLost, SameLosesNothing
<1>3. LoopCalm'
  BY <1>1 DEF LoopCalm
<1> QED BY <1>1, <1>2, <1>3 DEF Calm

\* epoll_ctl finds the connection that was accepted, and read the one that was
\* reported.
LEMMA NothingFails ==
  ASSUME IInv, WatchInv, ClientsInv, Calm
  PROVE  ~RegisterFails /\ ~ReadNothing
<1>1. ~RegisterFails
  BY DEF RegisterFails, Calm, LoopCalm
<1>2. ASSUME ReadNothing
      PROVE  FALSE
  <2>1. cur.of \in Conns /\ descriptor[cur.fd] = cur.of /\ cur.fd \in Descriptors
    BY <1>2, CalmTypes DEF ReadNothing, Calm, LoopCalm
  <2>2. conn[cur.of].end = "open"
    BY <2>1 DEF ClientsInv
  <2> QED BY <1>2, <2>1, <2>2 DEF ReadNothing
<1> QED BY <1>1, <1>2

\* All of one segment is that segment.
LEMMA WholeOfOne ==
  ASSUME NEW S, NEW s \in Seq(S), Len(s) = 1
  PROVE  SubSeq(s, 1, 1) = s
  OBVIOUS

\* The one segment is read whole and parses; its connection has no task yet.
LEMMA ReadRequestCalm ==
  ASSUME PoliteClients, IInv, WatchInv, ClientsInv, Calm, NEW c \in Conns, ReadRequest(c)
  PROVE  Calm'
<1> DEFINE n == IF Unread(c) < ReadMax THEN Unread(c) ELSE ReadMax
           got == SubSeq(Script[c], conn[c].read + 1, conn[c].read + n)
<1>1. /\ mpc = "read" /\ descriptor[cur.fd] = c /\ Unread(c) > 0
      /\ conn' = [conn EXCEPT ![c].read = @ + n]
      /\ status' = IF Parse(got) = "throws" THEN "abort" ELSE status
      /\ mpc' = AfterRead(Parse(got), Refused(c, cur.fd))
      /\ cur' = [cur EXCEPT !.request = c]
      /\ UNCHANGED <<descriptor, batch, handler, reply, next_task, finished, m_tasks>>
  BY DEF ReadRequest, poolVars, historyVars
<1>2. cur.of = c /\ conn[c].read = 0 /\ reply[c] = <<>>
  BY <1>1 DEF Calm, LoopCalm, AnswersCalm
<1>3. conn[c].sent = 1 /\ n = 1
  BY <1>1, <1>2, CalmTypes, ConnectionsAssumption DEF ClientsInv, Unread
<1>4. got = <<"ok">>
  <2>1. got = SubSeq(Script[c], 1, 1)
    BY <1>2, <1>3
  <2> DEFINE one == Script[c]
  <2>2. one = <<"ok">> /\ Len(one) = 1
    BY DEF PoliteClients
  <2>3. one \in Seq({"ok", "part", "rest", "throws"})
    BY ConnectionsAssumption
  <2> HIDE DEF got, one
  <2>4. SubSeq(one, 1, 1) = one
    BY <2>2, <2>3, WholeOfOne
  <2> QED BY <2>1, <2>2, <2>4 DEF one
<1> HIDE DEF n, got
<1>5. status' = "up"
  <2>1. Parse(<<"ok">>) = "ok"
    BY DEF Parse
  <2> QED BY <1>1, <1>4, <2>1 DEF Calm
<1>6. mpc' \in {"close", "add_task"}
  BY <1>1 DEF AfterRead
<1>7. /\ conn'[c].read = 1
      /\ \A b \in Conns \ {c} : conn'[b].read = conn[b].read
  <2>1. conn \in [Conns -> Connection]
    BY DEF IInv, SocketInv, SocketsTypeOK
  <2>2. conn'[c] = [conn[c] EXCEPT !.read = @ + 1]
    BY <1>1, <1>3, <2>1
  <2> QED BY <1>1, <1>2, <2>1, <2>2 DEF Connection
<1>8. Held' = Held /\ Pool!Queued' = Pool!Queued
  BY <1>1 DEF Held, Pool!Queued, Pool!QueueOf, Pool!Running
<1>9. \A t \in Held : t.client_request # c
  BY <1>2 DEF Calm, TasksCalm
<1>10. EventsCalm'
  <2>1. ASSUME NEW e \in batch, e.of \in Conns
        PROVE  e.of # c
    <3>1. e.fd # cur.fd /\ EventAbout(e.of, e.fd)
      BY <1>1, <2>1, Constant DEF WatchInv, EventsInHand
    <3> QED BY <1>1, <3>1, CalmTypes DEF EventAbout
  <2> QED BY <1>1, <1>7, <2>1 DEF Calm, EventsCalm
<1>11. LoopCalm'
  <2>1. cur'.fd = cur.fd /\ cur'.request = c
    BY <1>1 DEF IInv, MainInv
  <2> QED BY <1>1, <1>2, <1>6, <1>7, <1>8, <1>9, <2>1 DEF LoopCalm
<1>12. TasksCalm'
  BY <1>1, <1>7, <1>8, <1>9, CalmTypes DEF Calm, TasksCalm
<1>13. \A w \in Workers : WorkerCalm(w)'
  BY <1>1 DEF Calm, WorkerCalm, AnsweredRight
<1>14. AnswersCalm'
  BY <1>1, <1>7 DEF Calm, AnswersCalm, AnsweredRight
<1> QED BY <1>5, <1>10, <1>11, <1>12, <1>13, <1>14 DEF Calm

\* A close takes one number away.
LEMMA CloseLoses ==
  ASSUME IInv, NEW d \in Descriptors, Close(d)
  PROVE  Loses(descriptor[d])
<1>1. conn \in [Conns -> Connection]
      /\ descriptor \in [Descriptors -> Conns \cup Workers \cup {Free, Listener, Epoll}]
  BY DEF IInv, SocketInv, SocketsTypeOK
<1>2. descriptor' = [descriptor EXCEPT ![d] = Free]
  BY DEF Close
<1>3. \A c \in Conns : conn'[c] = conn[c] \/ conn'[c] = [conn[c] EXCEPT !.phase = "closed"]
  BY DEF Close
<1>4. \A c \in Conns : conn'[c].read = conn[c].read
  BY <1>1, <1>3 DEF Connection
<1> QED BY <1>1, <1>2, <1>4 DEF Loses

\* main() closes the connection it has just read, which no task knows.
LEMMA CloseCurrentCalm ==
  ASSUME IInv, Calm, CloseCurrent
  PROVE  Calm'
<1> DEFINE c == cur.request
<1>1. /\ mpc = "close" /\ mpc' \in {"for", "epoll_wait"} /\ Close(cur.fd)
      /\ UNCHANGED <<status, batch, handler, reply, next_task, finished, m_tasks>>
  BY DEF CloseCurrent, NextEvent, poolVars, historyVars
<1>2. /\ c \in Conns /\ descriptor[cur.fd] = c /\ conn[c].read > 0
      /\ \A t \in Held : t.client_request # c
  BY <1>1 DEF Calm, LoopCalm
<1>3. Loses(c)
  BY <1>1, <1>2, CloseLoses, CalmTypes
<1> HIDE DEF c
<1>4. Held' = Held /\ Pool!Queued' = Pool!Queued
  BY <1>1 DEF Held, Pool!Queued, Pool!QueueOf, Pool!Running
<1>5. EventsCalm'
  BY <1>1, <1>2, <1>3, EventsKept
<1>6. LoopCalm'
  BY <1>1 DEF LoopCalm
<1>7. TasksCalm'
  BY <1>1, <1>2, <1>3, <1>4, TasksKept DEF Held
<1>8. ASSUME NEW w \in Workers
      PROVE  WorkerCalm(w)'
  <2>1. next_task[w] # nullptr => next_task[w] \in Held
    BY DEF Held, Pool!Running
  <2>2. c # w
    BY <1>2, Constant
  <2> QED BY <1>1, <1>2, <1>3, <2>1, <2>2, WorkerKept
<1>9. AnswersCalm'
  BY <1>1, <1>3, AnswersKept DEF Loses
<1> QED BY <1>1, <1>5, <1>6, <1>7, <1>8, <1>9 DEF Calm

\* The task that is queued is the only one of its connection, whose number is
\* in it.
LEMMA QueueTaskCalm ==
  ASSUME IInv, Calm, NEW w \in Workers, QueueTask(w)
  PROVE  Calm'
<1> DEFINE t == [id |-> request_id - 1, newsockfd |-> cur.fd, client_request |-> cur.request]
<1>1. /\ mpc = "add_task" /\ mpc' \in {"for", "epoll_wait"}
      /\ m_tasks' = [m_tasks EXCEPT ![w] = Append(@, t)]
      /\ UNCHANGED <<descriptor, conn, status, batch, cur, handler, reply, next_task, finished>>
  BY DEF QueueTask, NextEvent, Pool!AddTask, socketVars, historyVars
<1>2. /\ t.client_request \in Conns /\ descriptor[t.newsockfd] = t.client_request
      /\ conn[t.client_request].read > 0 /\ reply[t.client_request] = <<>>
      /\ \A u \in Held : u.client_request # t.client_request
  BY <1>1 DEF Calm, LoopCalm
<1> HIDE DEF t
<1>3. Pool!Queued' \subseteq Pool!Queued \cup {t}
  <2>1. m_tasks \in [Workers -> Seq(SafeTask)]
    BY DEF IInv, PoolInv
  <2>2. ASSUME NEW v \in Workers, NEW i \in DOMAIN m_tasks'[v]
        PROVE  m_tasks'[v][i] = t \/ (i \in DOMAIN m_tasks[v] /\ m_tasks'[v][i] = m_tasks[v][i])
    BY <1>1, <2>1
  <2> QED BY <2>2 DEF Pool!Queued, Pool!QueueOf
<1>4. Held' \subseteq Held \cup {t}
  BY <1>1, <1>3 DEF Held, Pool!Running
<1>5. TasksCalm'
  <2>1. \A u \in Held' : conn'[u.client_request].read > 0
    BY <1>1, <1>2, <1>4 DEF Calm, TasksCalm
  <2>2. \A s, u \in Held' : s.client_request = u.client_request => s.id = u.id
    BY <1>2, <1>4 DEF Calm, TasksCalm
  <2>3. \A u \in Pool!Queued' : /\ descriptor'[u.newsockfd] = u.client_request
                                /\ reply'[u.client_request] = <<>>
    BY <1>1, <1>2, <1>3 DEF Calm, TasksCalm
  <2> QED BY <2>1, <2>2, <2>3 DEF TasksCalm
<1>6. EventsCalm'
  BY <1>1 DEF Calm, EventsCalm
<1>7. LoopCalm'
  BY <1>1 DEF LoopCalm
<1>8. \A v \in Workers : WorkerCalm(v)'
  BY <1>1 DEF Calm, WorkerCalm, AnsweredRight
<1>9. AnswersCalm'
  BY <1>1 DEF Calm, AnswersCalm, AnsweredRight
<1> QED BY <1>1, <1>5, <1>6, <1>7, <1>8, <1>9 DEF Calm
-----------------------------------------------------------------------------
(* The workers keep calm. *)

\* No other task has the client of the one that worker w has in hand.
LEMMA OtherClients ==
  ASSUME IInv, IdInv, Calm, NEW w \in Workers, next_task[w] # nullptr
  PROVE  /\ next_task[w] \in Held
         /\ \A t \in Pool!Queued : t.client_request # next_task[w].client_request
         /\ \A v \in Workers \ {w} : next_task[v] # nullptr =>
               next_task[v].client_request # next_task[w].client_request
<1>1. \A v \in Workers : next_task[v] # nullptr => next_task[v] \in Held
  BY DEF Held, Pool!Running
<1>2. \A s, t \in Held : s.client_request = t.client_request => s.id = t.id
  BY DEF Calm, TasksCalm
<1>3. ASSUME NEW t \in Pool!Queued
      PROVE  t.client_request # next_task[w].client_request
  <2>1. PICK v \in Workers : \E i \in DOMAIN m_tasks[v] : t = m_tasks[v][i]
    BY DEF Pool!Queued, Pool!QueueOf
  <2>2. next_task[w].id # t.id
    BY <2>1 DEF IdInv, OneTaskEach
  <2>3. t \in Held
    BY DEF Held
  <2> QED BY <1>1, <1>2, <2>2, <2>3
<1>4. ASSUME NEW v \in Workers \ {w}, next_task[v] # nullptr
      PROVE  next_task[v].client_request # next_task[w].client_request
  <2>1. next_task[v].id # next_task[w].id
    BY <1>4 DEF IdInv, OneTaskEach
  <2> QED BY <1>1, <1>2, <1>4, <2>1
<1> QED BY <1>1, <1>3, <1>4

\* What worker w does to its file or to the client of its task concerns
\* nobody else.
LEMMA OthersKept ==
  ASSUME IInv, IdInv, Calm, NEW w \in Workers, next_task[w] # nullptr,
         NEW o \in {Free, w, next_task[w].client_request}, Loses(o),
         UNCHANGED <<mainVars, m_tasks>>, next_task'[w] \in {next_task[w], nullptr},
         \A v \in Workers \ {w} : handler'[v] = handler[v] /\ next_task'[v] = next_task[v],
         \A b \in Conns : b # next_task[w].client_request => reply'[b] = reply[b]
  PROVE  /\ EventsCalm' /\ LoopCalm' /\ TasksCalm'
         /\ \A v \in Workers \ {w} : WorkerCalm(v)'
<1> DEFINE c == next_task[w].client_request
<1>1. /\ mpc' = mpc /\ batch' = batch /\ cur' = cur
      /\ Pool!Queued' = Pool!Queued /\ Pool!Running' \subseteq Pool!Running
  BY DEF mainVars, Pool!Queued, Pool!QueueOf, Pool!Running
<1>2. Held' \subseteq Held
  BY <1>1 DEF Held
<1>3. /\ next_task[w] \in Held /\ c \in Conns /\ conn[c].read > 0
      /\ \A t \in Pool!Queued : t.client_request # c
      /\ \A v \in Workers \ {w} : next_task[v] # nullptr => next_task[v].client_request # c
  BY OtherClients, CalmTypes DEF Calm, TasksCalm
<1>4. Free \notin Conns \cup Workers /\ Conns \cap Workers = {}
  BY ConnectionsAssumption
<1>5. \A b \in Conns : b # c => reply'[b] = reply[b] /\ b # o
  BY <1>4
<1> HIDE DEF c
<1>6. o \in Conns => conn[o].read > 0
  BY <1>3, <1>4 DEF c
<1>7. EventsCalm'
  BY <1>1, <1>6, EventsKept
<1>8. LoopCalm'
  <2>1. mpc \in {"close", "add_task"} => cur.request \in Conns /\ cur.request # c
    BY <1>3 DEF Calm, LoopCalm, c
  <2> QED BY <1>1, <1>2, <1>5, <1>6, <2>1, LoopKept
<1>9. TasksCalm'
  <2>1. \A t \in Pool!Queued : t.client_request \in Conns
    BY CalmTypes DEF Held
  <2> QED BY <1>1, <1>2, <1>3, <1>5, <2>1, TasksKept
<1>10. ASSUME NEW v \in Workers \ {w}
       PROVE  WorkerCalm(v)'
  <2>1. next_task[v] # nullptr =>
            next_task[v].client_request \in Conns /\ next_task[v].client_request # c
    BY <1>3, CalmTypes DEF Held, Pool!Running
  <2>2. o # v
    BY <1>3, <1>4 DEF c
  <2> QED BY <1>5, <2>1, <2>2, WorkerKept
<1> QED BY <1>7, <1>8, <1>9, <1>10

\* The task that is taken refers to its connection and is unanswered.
LEMMA TakeTaskCalm ==
  ASSUME IInv, PollingIsIdle, Calm, NEW w \in Workers, TakeTask(w)
  PROVE  Calm'
<1> DEFINE q == m_tasks[w]
<1>1. /\ q # <<>> /\ wpc[w] = "poll"
      /\ next_task' = [next_task EXCEPT ![w] = Head(q)]
      /\ m_tasks' = [m_tasks EXCEPT ![w] = Tail(q)]
      /\ handler' = [handler EXCEPT ![w].pc = "open"]
      /\ UNCHANGED <<descriptor, conn, status, mpc, cur, batch, reply, finished>>
  BY DEF TakeTask, Pool!Take, socketVars, mainVars, historyVars
<1>2. q \in Seq(SafeTask) /\ Len(q) \in Nat /\ DOMAIN q = 1 .. Len(q)
  BY IdTypes
<1>3. /\ 1 \in DOMAIN q /\ next_task'[w] = q[1]
      /\ DOMAIN m_tasks'[w] = 1 .. Len(q) - 1
      /\ \A i \in DOMAIN m_tasks'[w] : m_tasks'[w][i] = q[i + 1]
      /\ \A v \in Workers \ {w} : m_tasks'[v] = m_tasks[v] /\ next_task'[v] = next_task[v]
  BY <1>1, <1>2 DEF IInv, PoolInv
<1>4. q[1] \in Pool!Queued
  BY <1>3 DEF Pool!Queued, Pool!QueueOf
<1>5. Pool!Queued' \subseteq Pool!Queued
  <2>1. ASSUME NEW v \in Workers, NEW i \in DOMAIN m_tasks'[v]
        PROVE  \E j \in DOMAIN m_tasks[v] : m_tasks'[v][i] = m_tasks[v][j]
    <3>1. v = w => i + 1 \in DOMAIN q
      BY <1>2, <1>3
    <3> QED BY <1>3, <3>1
  <2> QED BY <2>1 DEF Pool!Queued, Pool!QueueOf
<1>6. Held' \subseteq Held
  BY <1>3, <1>4, <1>5 DEF Held, Pool!Running
<1>7. Loses(Free) /\ Free \notin Conns \cup Workers
  BY <1>1, SameLosesNothing, ConnectionsAssumption
<1> HIDE DEF q
<1>8. EventsCalm'
  BY <1>1, <1>7, EventsKept
<1>9. LoopCalm'
  <2>1. mpc \in {"close", "add_task"} => Free # cur.request
    BY <1>7 DEF Calm, LoopCalm
  <2> QED BY <1>1, <1>6, <1>7, <2>1, LoopKept
<1>10. TasksCalm'
  <2>1. \A t \in Pool!Queued' : t.client_request # Free
    BY <1>5, <1>7, CalmTypes DEF Held
  <2> QED BY <1>1, <1>5, <1>6, <1>7, <2>1, TasksKept
<1>11. \A v \in Workers \ {w} : handler'[v] = handler[v]
  BY <1>1 DEF IInv, HandlerInv
<1>12. ASSUME NEW v \in Workers \ {w}
       PROVE  WorkerCalm(v)'
  <2>1. next_task[v] # nullptr => next_task[v].client_request # Free
    BY <1>7, CalmTypes DEF Held, Pool!Running
  <2>2. Free # v
    BY <1>7
  <2> QED BY <1>1, <1>3, <1>7, <1>11, <2>1, <2>2, WorkerKept
<1>13. WorkerCalm(w)'
  <2>1. handler'[w].pc = "open" /\ handler'[w].intact = handler[w].intact
    BY <1>1 DEF IInv, HandlerInv, HandlerState
  <2>2. descriptor[q[1].newsockfd] = q[1].client_request /\ reply[q[1].client_request] = <<>>
    BY <1>4 DEF Calm, TasksCalm
  <2> QED BY <1>1, <1>3, <2>1, <2>2 DEF Calm, WorkerCalm
<1>14. AnswersCalm'
  BY <1>1, AnswersKept
<1> QED BY <1>1, <1>8, <1>9, <1>10, <1>12, <1>13, <1>14 DEF Calm

\* A nap changes nothing.
LEMMA NapCalm ==
  ASSUME IInv, Calm, NEW w \in Workers, Nap(w)
  PROVE  Calm'
<1>1. UNCHANGED <<descriptor, conn, status, mpc, cur, batch, handler, reply, next_task, finished,
                  m_tasks>>
  BY DEF Nap, Pool!Chill, Pool!Wake, socketVars, mainVars, historyVars
<1> QED BY <1>1, NothingLost, SameLosesNothing DEF Calm

\* What a worker inside the handler has in hand.
LEMMA HasTask ==
  ASSUME IInv, Calm, NEW w \in Workers, handler[w].pc # "idle"
  PROVE  /\ next_task[w] # nullptr /\ next_task[w] \in Held
         /\ next_task[w].client_request \in Conns /\ next_task[w].newsockfd \in Descriptors
  BY CalmTypes, Constant

\* The file gets a number of its own.
LEMMA OpenFileCalm ==
  ASSUME IInv, IdInv, Calm, NEW w \in Workers, OpenFile(w)
  PROVE  Calm'
<1> DEFINE t == next_task[w]
<1>1. PICK d \in Descriptors :
        /\ descriptor[d] = Free
        /\ descriptor' = [descriptor EXCEPT ![d] = w]
        /\ handler' = [handler EXCEPT ![w].pc = "read", ![w].file = d]
  BY DEF OpenFile, OpenFor, IsNextDescriptor, FreeDescriptors
<1>2. /\ handler[w].pc = "open"
      /\ UNCHANGED <<conn, status, mainVars, reply, next_task, finished, m_tasks>>
  BY DEF OpenFile, OpenFor, poolVars, historyVars
<1>3. /\ handler'[w].pc = "read" /\ handler'[w].file = d
      /\ handler'[w].intact = handler[w].intact
      /\ \A v \in Workers \ {w} : handler'[v] = handler[v]
  BY <1>1 DEF IInv, HandlerInv, HandlerState
<1>4. descriptor \in [Descriptors -> Conns \cup Workers \cup {Free, Listener, Epoll}]
  BY DEF IInv, SocketInv, SocketsTypeOK
<1>5. Loses(Free) /\ Free \notin Conns \cup Workers
  BY <1>1, <1>2, <1>4, ConnectionsAssumption DEF Loses
<1>6. t # nullptr /\ t \in Held /\ t.client_request \in Conns /\ t.newsockfd \in Descriptors
  BY <1>2, HasTask
<1>7. EventsCalm' /\ LoopCalm' /\ TasksCalm' /\ \A v \in Workers \ {w} : WorkerCalm(v)'
  BY <1>2, <1>3, <1>5, <1>6, OthersKept
<1>8. WorkerCalm(w)'
  <2>1. WorkerCalm(w)
    BY DEF Calm
  <2>2. descriptor'[t.newsockfd] = t.client_request
    BY <1>2, <1>5, <1>6, <2>1 DEF WorkerCalm, Loses
  <2>3. descriptor'[d] = w
    BY <1>1, <1>4
  <2> QED BY <1>2, <1>3, <2>1, <2>2, <2>3 DEF WorkerCalm
<1>9. AnswersCalm'
  BY <1>2, AnswersKept
<1> QED BY <1>2, <1>7, <1>8, <1>9 DEF Calm

\* The file is closed by the worker that opened it.
LEMMA ReadFileCalm ==
  ASSUME IInv, IdInv, Calm, NEW w \in Workers, ReadFile(w)
  PROVE  Calm'
<1> DEFINE t == next_task[w]
           d == handler[w].file
<1>1. WorkerCalm(w) /\ handler[w].pc = "read"
  BY DEF Calm, ReadFile
<1>2. d \in Descriptors /\ descriptor[d] = w
  BY <1>1, CalmTypes DEF WorkerCalm
<1>3. /\ Close(d)
      /\ \E next \in {"write"} :
             handler' = [handler EXCEPT ![w].pc = next, ![w].file = 0, ![w].intact = @ /\ TRUE]
      /\ UNCHANGED <<status, mainVars, reply, next_task, finished, m_tasks>>
  BY <1>2 DEF ReadFile, poolVars, historyVars
<1>4. Loses(w)
  BY <1>2, <1>3, CloseLoses
<1> HIDE DEF d
<1>5. /\ handler'[w].pc = "write" /\ handler'[w].intact = handler[w].intact
      /\ \A v \in Workers \ {w} : handler'[v] = handler[v]
  BY <1>3 DEF IInv, HandlerInv, HandlerState
<1>6. t # nullptr /\ t \in Held /\ t.client_request \in Conns /\ t.newsockfd \in Descriptors
  BY <1>1, HasTask
<1>7. EventsCalm' /\ LoopCalm' /\ TasksCalm' /\ \A v \in Workers \ {w} : WorkerCalm(v)'
  BY <1>3, <1>4, <1>5, <1>6, OthersKept
<1>8. WorkerCalm(w)'
  <2>1. t.client_request # w
    BY <1>6, Constant
  <2>2. descriptor'[t.newsockfd] = t.client_request
    BY <1>1, <1>4, <1>6, <2>1 DEF WorkerCalm, Loses
  <2> QED BY <1>1, <1>3, <1>5, <2>2 DEF WorkerCalm
<1>9. AnswersCalm'
  BY <1>3, <1>4, AnswersKept DEF Loses
<1> QED BY <1>3, <1>7, <1>8, <1>9 DEF Calm

\* The answer goes to the client that asked, and is its first.
LEMMA WriteReplyCalm ==
  ASSUME IInv, IdInv, ClientsInv, Calm, NEW w \in Workers, WriteReply(w)
  PROVE  Calm'
<1> DEFINE t == next_task[w]
           r == [id |-> t.id, origin |-> t.client_request, intact |-> handler[w].intact]
<1>1. WorkerCalm(w) /\ handler[w].pc = "write"
  BY DEF Calm, WriteReply
<1>2. t # nullptr /\ t \in Held /\ t.client_request \in Conns /\ t.newsockfd \in Descriptors
  BY <1>1, HasTask
<1> PICK c \in Conns : c = t.client_request
  BY <1>2
<1>3. /\ descriptor[t.newsockfd] = c /\ reply[c] = <<>> /\ handler[w].intact
      /\ conn[c].end = "open"
  BY <1>1, <1>2 DEF WorkerCalm, ClientsInv
<1>4. /\ handler' = [handler EXCEPT ![w].pc = "close"]
      /\ status' = status
      /\ conn' = [b \in Conns |-> IF b = c /\ conn[b].end = "rst" THEN [conn[b] EXCEPT !.end = "pipe"]
                                  ELSE conn[b]]
      /\ reply' = [b \in Conns |-> IF b = c /\ ~Broken(b) THEN Append(reply[b], r) ELSE reply[b]]
      /\ UNCHANGED <<descriptor, mainVars, next_task, finished, m_tasks>>
  BY <1>3 DEF WriteReply, poolVars
<1> HIDE DEF r
<1>5. \A b \in Conns : conn'[b].read = conn[b].read
  BY <1>3, <1>4
<1>6. /\ reply'[c] = Append(<<>>, r)
      /\ \A b \in Conns \ {c} : reply'[b] = reply[b]
  BY <1>2, <1>3, <1>4 DEF Broken
<1>7. AnsweredRight(c)'
  <2>1. Len(Append(<<>>, r)) = 1 /\ Append(<<>>, r)[1] = r
    OBVIOUS
  <2>2. r.origin = c /\ r.intact
    BY <1>3 DEF r
  <2> QED BY <1>6, <2>1, <2>2 DEF AnsweredRight
<1>8. Loses(Free)
  BY <1>4, <1>5, SameLosesNothing
<1>9. /\ handler'[w].pc = "close" /\ handler'[w].intact = handler[w].intact
      /\ \A v \in Workers \ {w} : handler'[v] = handler[v]
  BY <1>4 DEF IInv, HandlerInv, HandlerState
<1>10. EventsCalm' /\ LoopCalm' /\ TasksCalm' /\ \A v \in Workers \ {w} : WorkerCalm(v)'
  BY <1>2, <1>4, <1>6, <1>8, <1>9, OthersKept
<1>11. WorkerCalm(w)'
  BY <1>3, <1>4, <1>7, <1>9 DEF WorkerCalm
<1>12. AnswersCalm'
  <2>1. conn[c].read > 0
    BY <1>2 DEF Calm, TasksCalm
  <2>2. \A b \in Conns \ {c} : AnsweredRight(b)' <=> AnsweredRight(b)
    BY <1>6 DEF AnsweredRight
  <2>3. ASSUME NEW b \in Conns
        PROVE  /\ conn'[b].read = 0 => reply'[b] = <<>>
               /\ reply'[b] # <<>> => AnsweredRight(b)'
    BY <1>2, <1>5, <1>6, <1>7, <2>1, <2>2 DEF Calm, AnswersCalm
  <2>4. ASSUME NEW u \in finished
        PROVE  AnsweredRight(u.client_request)'
    <3>1. u.client_request \in Conns
      BY DEF IInv, PoolInv, Task
    <3> QED BY <1>7, <2>2, <3>1 DEF Calm, AnswersCalm
  <2> QED BY <1>4, <2>3, <2>4 DEF AnswersCalm
<1> QED BY <1>4, <1>10, <1>11, <1>12 DEF Calm

\* handle() closes the connection that it answered.
LEMMA CloseReplyCalm ==
  ASSUME IInv, IdInv, Calm, NEW w \in Workers, CloseReply(w)
  PROVE  Calm'
<1> DEFINE t == next_task[w]
<1>1. WorkerCalm(w) /\ handler[w].pc = "close"
  BY DEF Calm, CloseReply
<1>2. /\ Close(t.newsockfd)
      /\ handler' = [handler EXCEPT ![w].pc = "destroy"]
      /\ UNCHANGED <<status, mainVars, reply, next_task, finished, m_tasks>>
  BY DEF CloseReply, poolVars, historyVars
<1>3. t # nullptr /\ t \in Held /\ t.client_request \in Conns /\ t.newsockfd \in Descriptors
  BY <1>1, HasTask
<1>4. Loses(t.client_request)
  BY <1>1, <1>2, <1>3, CloseLoses DEF WorkerCalm
<1>5. /\ handler'[w].pc = "destroy" /\ handler'[w].intact = handler[w].intact
      /\ \A v \in Workers \ {w} : handler'[v] = handler[v]
  BY <1>2 DEF IInv, HandlerInv, HandlerState
<1>6. EventsCalm' /\ LoopCalm' /\ TasksCalm' /\ \A v \in Workers \ {w} : WorkerCalm(v)'
  BY <1>2, <1>3, <1>4, <1>5, OthersKept
<1>7. WorkerCalm(w)'
  BY <1>1, <1>2, <1>5 DEF WorkerCalm, AnsweredRight
<1>8. AnswersCalm'
  BY <1>2, <1>4, AnswersKept DEF Loses
<1> QED BY <1>2, <1>6, <1>7, <1>8 DEF Calm

\* The second close does nothing, unless it is stray.
LEMMA DestroyCalm ==
  ASSUME IInv, IdInv, Calm, NEW w \in Workers, Destroy(w), Unharmed'
  PROVE  Calm'
<1> DEFINE t == next_task[w]
<1>1. WorkerCalm(w) /\ handler[w].pc = "destroy"
  BY DEF Calm, Destroy
<1>2. /\ Close(t.newsockfd) /\ descriptor[t.newsockfd] = Free
      /\ handler' = [handler EXCEPT ![w].pc = "idle", ![w].intact = TRUE]
      /\ next_task' = [next_task EXCEPT ![w] = nullptr]
      /\ finished' = finished \cup {t}
      /\ UNCHANGED <<status, mainVars, reply, m_tasks>>
  BY DEF Destroy, Pool!Finish, Unharmed
<1>3. t # nullptr /\ t \in Held /\ t.client_request \in Conns /\ t.newsockfd \in Descriptors
  BY <1>1, HasTask
<1>4. Loses(Free)
  BY <1>2, <1>3, CloseLoses
<1>5. /\ handler'[w].pc = "idle" /\ handler'[w].intact
      /\ next_task'[w] = nullptr
      /\ \A v \in Workers \ {w} : handler'[v] = handler[v] /\ next_task'[v] = next_task[v]
  BY <1>2 DEF IInv, HandlerInv, HandlerState, PoolInv
<1>6. EventsCalm' /\ LoopCalm' /\ TasksCalm' /\ \A v \in Workers \ {w} : WorkerCalm(v)'
  BY <1>2, <1>3, <1>4, <1>5, OthersKept
<1>7. WorkerCalm(w)'
  BY <1>5 DEF WorkerCalm
<1>8. AnswersCalm'
  <2>1. AnsweredRight(t.client_request)
    BY <1>1 DEF WorkerCalm
  <2> QED BY <1>2, <1>4, <2>1 DEF Calm, AnswersCalm, AnsweredRight, Loses
<1> QED BY <1>2, <1>6, <1>7, <1>8 DEF Calm
-----------------------------------------------------------------------------
\* At the start nothing is in use but main()'s two numbers.
LEMMA PoliteStart ==
  ASSUME Init
  PROVE  PoliteInv
<1>1. /\ mpc = "epoll_wait" /\ batch = {} /\ status = "up" /\ finished = {}
      /\ \A w \in Workers : m_tasks[w] = <<>> /\ next_task[w] = nullptr
      /\ \A w \in Workers : handler[w].pc = "idle" /\ handler[w].intact
      /\ \A c \in Conns : reply[c] = <<>>
      /\ \A c \in Conns : conn[c].end = "open" /\ conn[c].sent = 0 /\ conn[c].read = 0
  BY DEF Init, SocketsInit, Pool!Init
<1>2. Held = {} /\ Pool!Queued = {}
  BY <1>1 DEF Held, Pool!Queued, Pool!QueueOf, Pool!Running
<1>3. EventsCalm /\ LoopCalm
  BY <1>1 DEF EventsCalm, LoopCalm
<1>4. TasksCalm
  BY <1>2 DEF TasksCalm
<1>5. \A w \in Workers : WorkerCalm(w)
  BY <1>1 DEF WorkerCalm
<1>6. AnswersCalm
  BY <1>1 DEF AnswersCalm
<1> QED BY <1>1, <1>3, <1>4, <1>5, <1>6 DEF PoliteInv, ClientsInv, Calm

\* Every step keeps calm, or harms.
LEMMA PoliteInductive ==
  ASSUME PoliteClients, IInv, IdInv, PollingIsIdle, WatchInv, PoliteInv, [Next]_vars
  PROVE  PoliteInv'
<1>1. ClientsInv' /\ ClientsInv
  BY ClientsKept DEF PoliteInv
<1> SUFFICES ASSUME Unharmed'
             PROVE  Calm'
  BY <1>1 DEF PoliteInv
<1>2. Calm
  BY HarmStays DEF PoliteInv
<1>3. ASSUME NEW c \in Conns, ClientStep(c)
      PROVE  Calm'
  <2>1. UNCHANGED <<descriptor, status, mpc, cur, batch, handler, reply, next_task, finished, m_tasks>>
    BY <1>3 DEF ClientStep, Client, Connect, Send, HangUp, mainVars, poolVars, historyVars
  <2>2. \A b \in Conns : conn'[b].read = conn[b].read
    <3>1. conn \in [Conns -> Connection]
      BY DEF IInv, SocketInv, SocketsTypeOK
    <3>2. \/ conn' = [conn EXCEPT ![c].phase = "pending"]
          \/ conn' = [conn EXCEPT ![c].sent = @ + 1]
          \/ \E end \in {"fin", "rst", "pipe"} : conn' = [conn EXCEPT ![c].end = end]
      BY <1>3 DEF ClientStep, Client, Connect, Send, HangUp
    <3> QED BY <3>1, <3>2 DEF Connection
  <2> QED BY <1>2, <2>1, <2>2, NothingLost, SameLosesNothing DEF Calm
<1>4. CASE Main
  <2>1. ~(\E e \in batch : DropFaulty(e)) /\ ~RegisterFails /\ ~ReadNothing
    BY <1>1, <1>2, NothingFaulty, NothingFails
  <2>2. CASE EpollWait
    BY <1>1, <1>2, <2>2, EpollWaitCalm
  <2>3. CASE \E e \in batch : TakeEvent(e)
    BY <1>2, <2>3, TakeEventCalm
  <2>4. CASE Accept \/ AcceptNothing \/ Register
    BY <1>2, <2>4, AcceptCalm, AcceptLoopCalm
  <2>5. CASE \E c \in Conns : ReadRequest(c)
    BY <1>1, <1>2, <2>5, ReadRequestCalm
  <2>6. CASE CloseCurrent \/ \E w \in Workers : QueueTask(w)
    BY <1>2, <2>6, CloseCurrentCalm, QueueTaskCalm
  <2> QED BY <1>4, <2>1, <2>2, <2>3, <2>4, <2>5, <2>6 DEF Main
<1>5. ASSUME NEW w \in Workers, Worker(w)
      PROVE  Calm'
  <2>1. ~OpenNothing(w)
    BY DEF OpenNothing, Unharmed
  <2> QED BY <1>1, <1>2, <1>5, <2>1, TakeTaskCalm, NapCalm, OpenFileCalm, ReadFileCalm,
          WriteReplyCalm, CloseReplyCalm, DestroyCalm DEF Worker
<1>6. CASE UNCHANGED vars
  <2>1. UNCHANGED <<descriptor, conn, status, mpc, cur, batch, handler, reply, next_task, finished,
                    m_tasks>>
    BY <1>6 DEF vars, socketVars, mainVars, poolVars, historyVars
  <2> QED BY <1>2, <2>1, NothingLost, SameLosesNothing DEF Calm
<1> QED BY <1>3, <1>4, <1>5, <1>6 DEF Next

\* Until a descriptor is missing, what ends the process, or sends an answer to
\* another client, garbles it or loses it, is the second close of
\* server::~server (server.cpp:238-241): for any number of connections and
\* workers whose clients send one request in one piece and wait.
THEOREM OnlyDoubleClose ==
  ASSUME PoliteClients
  PROVE  Spec => []OnlyDoubleCloseHarms
<1>1. Init => PoliteInv
  BY PoliteStart
<1>2. IInv /\ IdInv /\ PollingIsIdle /\ WatchInv /\ PoliteInv /\ [Next]_vars => PoliteInv'
  BY PoliteInductive
<1>3. IInv /\ PollingIsIdle /\ [Next]_vars => PollingIsIdle'
  BY PollingKept
<1>4. PoliteInv => OnlyDoubleCloseHarms
  BY DEF PoliteInv, Unharmed, Calm, AnswersCalm, OnlyDoubleCloseHarms
<1>5. Spec => [](IInv /\ IdInv /\ PollingIsIdle /\ WatchInv /\ PoliteInv)
  BY <1>1, <1>2, <1>3, Start, IdStart, WatchStart, Inductive, IdsInductive, WatchInductive, PTL
     DEF Spec
<1> QED BY <1>4, <1>5, PTL
-----------------------------------------------------------------------------
(* The pool inside the whole: main() and the handlers use thread::pool only *)
(* as WorkerPool says its caller does, so what WorkerPoolProofs proves of   *)
(* the pool alone holds of the pool in the running server.                  *)

ThePool == INSTANCE WorkerPoolProofs WITH Tasks <- Task, Hanging <- {}

\* A task that is done was given out before the next id is.
DoneBelowLimit == \A t \in finished : t.id < Limit

\* Only a worker's destructor adds to finished, and it adds a task it holds.
LEMMA DoneKept ==
  ASSUME IInv, IdInv, DoneBelowLimit, [Next]_vars
  PROVE  DoneBelowLimit'
<1>1. Limit \in Nat /\ Limit' \in Nat /\ Limit <= Limit'
  <2>1. request_id \in Nat \ {0}
    BY DEF IInv, MainInv
  <2>2. ASSUME UNCHANGED <<mpc, request_id>>
        PROVE  Limit \in Nat /\ Limit' \in Nat /\ Limit <= Limit'
    BY <2>1, <2>2 DEF Limit
  <2>3. CASE Main
    <3>1. ASSUME NEW c \in Conns, ReadRequest(c)
          PROVE  Limit \in Nat /\ Limit' \in Nat /\ Limit <= Limit'
      <4>1. PICK parsed \in {"ok", "error", "throws"}, refused \in BOOLEAN :
               mpc = "read" /\ request_id' = Counted(parsed) /\ mpc' = AfterRead(parsed, refused)
        BY <3>1 DEF ReadRequest, Parse, Refused
      <4>2. CASE parsed = "ok"
        <5>1. request_id' = request_id + 1
          BY <4>1, <4>2 DEF Counted
        <5>2. mpc = "read"
          BY <4>1
        <5> QED BY <2>1, <5>1, <5>2 DEF Limit
      <4>3. CASE parsed # "ok"
        <5>1. request_id' = request_id /\ mpc' # "add_task" /\ mpc # "add_task"
          BY <4>1, <4>3 DEF Counted, AfterRead
        <5> QED BY <2>1, <5>1 DEF Limit
      <4> QED BY <4>2, <4>3
    <3>2. CASE RegisterFails
      BY <2>2, <3>2 DEF RegisterFails, mainVars
    <3>3. CASE ~RegisterFails /\ ~\E c \in Conns : ReadRequest(c)
      <4>1. mpc' # "add_task" /\ request_id' = request_id
        BY <2>3, <3>3 DEF Main, EpollWait, DropFaulty, TakeEvent, Accept, AcceptNothing,
                          Register, ReadNothing, CloseCurrent, QueueTask, NextEvent
      <4> QED BY <2>1, <4>1 DEF Limit
    <3> QED BY <3>1, <3>2, <3>3
  <2>4. ASSUME NEW c \in Conns, ClientStep(c)
        PROVE  UNCHANGED <<mpc, request_id>>
    BY <2>4 DEF ClientStep, mainVars
  <2>5. ASSUME NEW w \in Workers, Worker(w)
        PROVE  UNCHANGED <<mpc, request_id>>
    BY <2>5 DEF Worker, TakeTask, Nap, OpenFile, OpenNothing, ReadFile, WriteReply, CloseReply,
                Destroy, mainVars
  <2>6. CASE UNCHANGED vars
    BY <2>2, <2>6 DEF vars, mainVars
  <2> QED BY <2>2, <2>3, <2>4, <2>5, <2>6 DEF Next
<1>2. \A n \in Nat : n < Limit => n < Limit'
  BY <1>1
<1>3. \A t \in finished : t.id \in Nat
  BY DEF IInv, PoolInv, Task
<1>4. CASE UNCHANGED finished
  BY <1>2, <1>3, <1>4 DEF DoneBelowLimit
<1>5. ASSUME NEW w \in Workers, Destroy(w)
      PROVE  DoneBelowLimit'
  <2>1. finished' = finished \cup {next_task[w]}
    BY <1>5 DEF Destroy, Pool!Finish
  <2>2. next_task[w] # nullptr
    BY <1>5, HandlerTask, Constant DEF Destroy
  <2>3. next_task[w].id \in Nat /\ next_task[w].id < Limit
    BY <2>2, IdTypes DEF IdInv, IdsBelowLimit
  <2> QED BY <1>2, <1>3, <2>1, <2>3 DEF DoneBelowLimit
<1>6. ASSUME NEW c \in Conns, ClientStep(c)
      PROVE  UNCHANGED finished
  BY <1>6 DEF ClientStep, poolVars
<1>7. ASSUME Main
      PROVE  UNCHANGED finished
  BY <1>7 DEF Main, EpollWait, DropFaulty, TakeEvent, Accept, AcceptNothing, Register,
              RegisterFails, ReadRequest, ReadNothing, CloseCurrent, QueueTask, Pool!AddTask,
              poolVars
<1>8. ASSUME NEW w \in Workers, Worker(w), ~Destroy(w)
      PROVE  UNCHANGED finished
  BY <1>8 DEF Worker, TakeTask, Pool!Take, Nap, Pool!Chill, Pool!Wake, OpenFile, OpenNothing,
              ReadFile, WriteReply, CloseReply, poolVars
<1>9. ASSUME UNCHANGED vars
      PROVE  UNCHANGED finished
  BY <1>9 DEF vars, poolVars
<1> QED BY <1>4, <1>5, <1>6, <1>7, <1>8, <1>9 DEF Next

\* The task main() queues is new to the pool: its id is not yet in use.
LEMMA QueuesANewTask ==
  ASSUME IInv, IdInv, DoneBelowLimit, NEW w \in Workers, QueueTask(w)
  PROVE  Pool!Next
<1> DEFINE t == [id |-> request_id - 1, newsockfd |-> cur.fd, client_request |-> cur.request]
<1>1. Pool!AddTask(w, t)
  BY DEF QueueTask
<1>2. t.id = Limit /\ Limit \in Nat
  BY IdTypes DEF QueueTask, Limit
<1>3. t \in Task
  BY <1>2 DEF QueueTask, Task, IInv, MainInv
<1> HIDE DEF t
<1>4. t \notin Pool!Queued
  BY <1>2, IdTypes DEF Pool!Queued, Pool!QueueOf, IdInv, IdsBelowLimit
<1>5. t \notin Pool!Running
  BY <1>2, IdTypes DEF Pool!Running, IdInv, IdsBelowLimit
<1>6. t \notin finished
  BY <1>2 DEF DoneBelowLimit
<1>7. t \in Task \ Pool!Known
  BY <1>3, <1>4, <1>5, <1>6 DEF Pool!Known
<1> QED BY <1>1, <1>7 DEF Pool!Next

\* Whatever happens in the server is a step of the pool or none at all.
LEMMA PoolStep ==
  ASSUME IInv, IdInv, DoneBelowLimit, [Next]_vars
  PROVE  [Pool!Next]_Pool!vars
<1>1. CASE UNCHANGED poolVars
  BY <1>1 DEF poolVars, Pool!vars
<1>2. ASSUME NEW w \in Workers, Pool!Work(w)
      PROVE  [Pool!Next]_Pool!vars
  BY <1>2 DEF Pool!Next
<1>3. ASSUME NEW c \in Conns, ClientStep(c)
      PROVE  [Pool!Next]_Pool!vars
  BY <1>1, <1>3 DEF ClientStep
<1>4. CASE Main
  <2>1. CASE \E w \in Workers : QueueTask(w)
    BY <2>1, QueuesANewTask
  <2>2. CASE ~\E w \in Workers : QueueTask(w)
    BY <1>1, <1>4, <2>2 DEF Main, EpollWait, DropFaulty, TakeEvent, Accept, AcceptNothing,
                            Register, RegisterFails, ReadRequest, ReadNothing, CloseCurrent
  <2> QED BY <2>1, <2>2
<1>5. ASSUME NEW w \in Workers, Worker(w)
      PROVE  [Pool!Next]_Pool!vars
  <2>1. CASE TakeTask(w) \/ Nap(w) \/ Destroy(w)
    BY <1>2, <2>1 DEF TakeTask, Nap, Destroy, Pool!Work
  <2>2. CASE OpenFile(w) \/ OpenNothing(w) \/ ReadFile(w) \/ WriteReply(w) \/ CloseReply(w)
    BY <1>1, <2>2 DEF OpenFile, OpenNothing, ReadFile, WriteReply, CloseReply
  <2> QED BY <1>5, <2>1, <2>2 DEF Worker
<1>6. CASE UNCHANGED vars
  BY <1>1, <1>6 DEF vars
<1> QED BY <1>3, <1>4, <1>5, <1>6 DEF Next

\* main() and the workers of the server keep to what the pool asks of its
\* caller: every task pool::add_task is given is a new one (main.cpp:288,
\* thread/pool.cpp:27), and nothing else touches queues and workers.
THEOREM ServerRunsThePool == Spec => Pool!Spec
<1>1. Init => Pool!Init /\ DoneBelowLimit
  BY DEF Init, Pool!Init, DoneBelowLimit
<1>2. Spec => [](IInv /\ IdInv)
  BY Start, IdStart, Inductive, IdsInductive, PTL DEF Spec
<1>3. Spec => [](IInv /\ IdInv /\ DoneBelowLimit)
  BY <1>1, <1>2, DoneKept, PTL DEF Spec
<1> QED BY <1>1, <1>3, PoolStep, PTL DEF Spec, Pool!Spec

\* So the pool of the running server is the one WorkerPoolProofs is about.
LEMMA ServerRunsThisPool == Spec => ThePool!Spec
<1>1. Pool!Init => ThePool!Init
  BY DEF Pool!Init, ThePool!Init
<1>2. [Pool!Next]_Pool!vars => [ThePool!Next]_ThePool!vars
  BY DEF Pool!Next, Pool!vars, Pool!Work, Pool!AddTask, Pool!Take, Pool!Chill, Pool!Wake,
         Pool!Finish, Pool!Known, Pool!Queued, Pool!QueueOf, Pool!Running,
         ThePool!Next, ThePool!vars, ThePool!Work, ThePool!AddTask, ThePool!Take, ThePool!Chill,
         ThePool!Wake, ThePool!Finish, ThePool!Known, ThePool!Queued, ThePool!QueueOf,
         ThePool!Running
<1> QED BY <1>1, <1>2, ServerRunsThePool, PTL DEF Pool!Spec, ThePool!Spec

\* In the running server, whatever the clients, the accept loop and the other
\* workers do, every request that gets a task is in one place only, one slot
\* of one queue, or one worker, or done: it is handled at most once.
THEOREM RequestsHandledOnce == Spec => []ThePool!ExactlyOnce
<1>1. ThePool!PoolAssumption
  BY TaskAssumption DEF ThePool!PoolAssumption
<1>2. ThePool!Spec => []ThePool!ExactlyOnce
  BY <1>1, ThePool!TasksRunExactlyOnce
<1> QED BY <1>2, ServerRunsThisPool, PTL

\* The running server implements TaskPool: handing a request to the pool is
\* Submit, a worker's taking it is Start, and the destructor that ends its
\* handling is Complete; everything else is a stutter.
THEOREM ServerKeepsThePromise == Spec => ThePool!KeepsPromise
<1>1. ThePool!PoolAssumption
  BY TaskAssumption DEF ThePool!PoolAssumption
<1>2. ThePool!Spec => ThePool!KeepsPromise
  BY <1>1, ThePool!PoolImplementsTaskPool
<1> QED BY <1>2, ServerRunsThisPool, PTL
=============================================================================
