---------------------------- MODULE Connections ----------------------------
(***************************************************************************)
(* The life of a connection: main.cpp's accept loop, which accepts, reads  *)
(* and parses on one thread and hands each request to the pool, and the    *)
(* pool's workers, which answer and close in server::handle and close once *)
(* more in server::~server.  The two sides share nothing but descriptor    *)
(* numbers, and the operating system reuses a number as soon as it is      *)
(* closed.  Composes Sockets (the operating system) and WorkerPool.        *)
(***************************************************************************)
EXTENDS Sockets

CONSTANTS
    MaxEvents,      \* MAX_EPOLL_EVENTS
    ReadMax,        \* segments one read of READ_SIZE - 1 bytes can return
    Served,         \* connections that ask for a host in domain_storage
    Address,        \* Address[c]: the address the client of c connects from
    Blacklist,      \* the domain's blacklist
    EmptyAddress,   \* the empty string
    NoConn,
    nullptr

ASSUME ConnectionsAssumption ==
    /\ MaxFd \in Nat /\ MaxFd > 2
    /\ MaxEvents \in Nat \ {0} /\ ReadMax \in Nat \ {0} /\ QueueSize \in Nat \ {0}
    /\ Script \in [Conns -> Seq({"ok", "part", "rest", "throws"})]
    /\ Conns \cap Workers = {}
    /\ {Free, Listener, Epoll} \cap (Conns \cup Workers) = {}
    /\ Free # Listener /\ Free # Epoll /\ Listener # Epoll
    /\ NoConn \notin Conns
    /\ EmptyAddress \notin Blacklist    \* domain::add_blacklist refuses it

\* thread::task: request id, socket number, and the request object, which the
\* model identifies with the connection it was read from
Task == [id : Nat, newsockfd : Descriptors, client_request : Conns]

ASSUME TaskAssumption == nullptr \notin Task

VARIABLES
    status,             \* "up", or what ended the process
    mpc,                \* where the loop of main() is
    batch,              \* events of this epoll_wait not yet handled
    cur,                \* the event in hand: its descriptor, its request
    request_id,
    client_ip_address,
    m_tasks, next_task, wpc, finished,  \* the pool
    handler,            \* handler[w]: where worker w is in server::handle
    reply,              \* history: reply[c], the responses written to c
    stray_close,        \* history: the destructor closed a live descriptor
    starved,            \* history: no descriptor was left for accept or open
    unaccepted          \* history: accept() failed with clients in the queue, and
                        \* none has connected since

Pool == INSTANCE WorkerPool WITH Tasks <- Task, Hanging <- {}

mainVars == <<mpc, batch, cur, request_id, client_ip_address>>
poolVars == <<m_tasks, next_task, wpc, finished>>
historyVars == <<reply, stray_close, starved, unaccepted>>
vars == <<socketVars, status, mainVars, poolVars, handler, historyVars>>

Event == [fd : Descriptors, bad : BOOLEAN, of : Conns \cup {Listener}]
HandlerState == [pc : {"idle", "open", "read", "write", "close", "destroy"},
                 file : Descriptors \cup {0}, intact : BOOLEAN]
Reply == [id : Nat, origin : Conns, intact : BOOLEAN]

TypeOK ==
    /\ SocketsTypeOK
    /\ status \in {"up", "exit", "abort", "sigpipe"}
    /\ mpc \in {"epoll_wait", "for", "accept", "register", "read", "close", "add_task"}
    /\ batch \subseteq Event
    /\ cur \in [fd : Descriptors, request : Conns \cup {NoConn}, of : Conns \cup {Listener}]
    /\ request_id \in Nat \ {0}
    /\ client_ip_address \in [Descriptors -> {EmptyAddress} \cup {Address[c] : c \in Conns}]
    /\ Pool!TypeOK
    /\ handler \in [Workers -> HandlerState]
    /\ reply \in [Conns -> Seq(Reply)]
    /\ stray_close \in BOOLEAN
    /\ starved \in BOOLEAN
    /\ unaccepted \in BOOLEAN

Init ==
    /\ SocketsInit
    /\ status = "up"
    /\ mpc = "epoll_wait"
    /\ batch = {}
    /\ cur = [fd |-> sockfd, request |-> NoConn, of |-> Listener]
    /\ request_id = 1
    /\ client_ip_address = [d \in Descriptors |-> EmptyAddress]
    /\ Pool!Init
    /\ handler = [w \in Workers |-> [pc |-> "idle", file |-> 0, intact |-> TRUE]]
    /\ reply = [c \in Conns |-> <<>>]
    /\ stray_close = FALSE
    /\ starved = FALSE
    /\ unaccepted = FALSE
-----------------------------------------------------------------------------
(* main()'s loop *)

\* the event epoll reports for a ready item, with the descriptor it was
\* registered under
EventOf(o) == [fd |-> CHOOSE d \in Descriptors : descriptor[d] = o,
               bad |-> o \in Conns /\ Broken(o), of |-> o]

\* what epoll_wait finds in the ready list and still has an event
ReadyItems == {c \in edges : Readable(c)} \cup
              (IF listen_edge /\ backlog # <<>> THEN {Listener} ELSE {})

EpollWait ==
    /\ mpc = "epoll_wait"
    /\ \E got \in SUBSET ReadyItems :
           /\ got # {}
           /\ Cardinality(got) <= MaxEvents
           /\ got # ReadyItems => Cardinality(got) = MaxEvents
           /\ batch' = {EventOf(o) : o \in got}
           /\ edges' = {c \in edges : Readable(c)} \ got
           /\ listen_edge' = (listen_edge /\ Listener \notin got)
    /\ mpc' = "for"
    /\ UNCHANGED <<descriptor, backlog, conn, interest, status, cur, request_id,
                   client_ip_address, poolVars, handler, historyVars>>

\* slip: "break" where the event loop has "continue"
LeaveBatch(left) == "epoll_wait"

\* where the loop goes when it is done with an event
NextEvent(left) == IF left = {} THEN "epoll_wait" ELSE "for"

\* EPOLLERR or EPOLLHUP
DropFaulty(e) ==
    /\ mpc = "for" /\ e \in batch /\ e.bad
    /\ batch' = batch \ {e}
    /\ mpc' = NextEvent(batch')
    /\ Close(e.fd)
    /\ UNCHANGED <<status, cur, request_id, client_ip_address, poolVars, handler, historyVars>>

\* slip: no case for the listening socket
ReadEveryEvent(e) ==
    /\ mpc = "for" /\ e \in batch /\ ~e.bad
    /\ batch' = batch \ {e}
    /\ mpc' = "read"
    /\ cur' = [fd |-> e.fd, request |-> NoConn, of |-> e.of]
    /\ UNCHANGED <<socketVars, status, request_id, client_ip_address, poolVars, handler,
                   historyVars>>

TakeEvent(e) ==
    /\ mpc = "for" /\ e \in batch /\ ~e.bad
    /\ batch' = batch \ {e}
    /\ mpc' = IF e.fd = sockfd THEN "accept" ELSE "read"
    /\ cur' = [fd |-> e.fd, request |-> NoConn, of |-> e.of]
    /\ UNCHANGED <<socketVars, status, request_id, client_ip_address, poolVars, handler,
                   historyVars>>

\* one turn of the accept loop; main.cpp:219 makes the listening socket, not
\* the accepted one, non-blocking
Accept ==
    /\ mpc = "accept"
    /\ backlog # <<>>
    /\ \E d \in Descriptors :
           /\ IsNextDescriptor(d)
           /\ AcceptConnection(d)
           /\ cur' = [cur EXCEPT !.fd = d]
    /\ mpc' = "register"
    /\ UNCHANGED <<status, batch, request_id, client_ip_address, poolVars, handler, historyVars>>

\* accept() returns -1: nothing is queued, or no descriptor is left
AcceptNothing ==
    /\ mpc = "accept"
    /\ backlog = <<>> \/ FreeDescriptors = {}
    /\ mpc' = NextEvent(batch)
    /\ starved' = (starved \/ backlog # <<>>)
    /\ unaccepted' = (unaccepted \/ backlog # <<>>)
    /\ UNCHANGED <<socketVars, status, batch, cur, request_id, client_ip_address, poolVars,
                   handler, reply, stray_close>>

\* inet_ntop writes into the buffer of an empty std::string, whose length
\* stays 0: the address that is stored is the empty string
RecordedAddress(c) == EmptyAddress

\* slip: one accept() per event
RegisterOne ==
    /\ mpc = "register"
    /\ \E c \in Conns : descriptor[cur.fd] = c /\ Watch(c)
    /\ mpc' = NextEvent(batch)
    /\ UNCHANGED <<status, batch, cur, request_id, client_ip_address, poolVars, handler,
                   historyVars>>

Register ==
    /\ mpc = "register"
    /\ \E c \in Conns :
           /\ descriptor[cur.fd] = c
           /\ Watch(c)
           /\ client_ip_address' = [client_ip_address EXCEPT ![cur.fd] = RecordedAddress(c)]
    /\ mpc' = "accept"
    /\ UNCHANGED <<status, batch, cur, request_id, poolVars, handler, historyVars>>

\* epoll_ctl fails on a descriptor a worker has closed in between: exit(1)
RegisterFails ==
    /\ mpc = "register"
    /\ descriptor[cur.fd] \notin Conns
    /\ status' = "exit"
    /\ UNCHANGED <<socketVars, mainVars, poolVars, handler, historyVars>>

\* request::request on what one read returned: a "part" needs the "rest", a
\* "rest" alone has no request line; some header values make std::stoi throw,
\* and nothing on this thread catches
Parse(segments) ==
    IF \E i \in DOMAIN segments : segments[i] = "throws" THEN "throws"
    ELSE IF segments[1] = "ok" \/ (segments[1] = "part" /\ Len(segments) > 1) THEN "ok"
    ELSE "error"

Refused(c, d) == c \notin Served \/ client_ip_address[d] \in Blacklist

\* slip: after a refused request the socket is read again
DrainAfterRead(parsed, refused) == IF parsed = "ok" /\ ~refused THEN "add_task" ELSE "read"

\* slip: request_id stays as it is
Uncounted(parsed) == request_id

\* where the loop goes with what it read: on to add_task or to a refusal's close
AfterRead(parsed, refused) == IF parsed = "ok" /\ ~refused THEN "add_task" ELSE "close"

\* only a request that parses is counted
Counted(parsed) == IF parsed = "ok" THEN request_id + 1 ELSE request_id

ReadRequest(c) ==
    /\ mpc = "read"
    /\ descriptor[cur.fd] = c
    /\ Unread(c) > 0
    /\ LET n == IF Unread(c) < ReadMax THEN Unread(c) ELSE ReadMax
           got == SubSeq(Script[c], conn[c].read + 1, conn[c].read + n)
           parsed == Parse(got)
       IN  /\ conn' = [conn EXCEPT ![c].read = @ + n]
           /\ status' = IF parsed = "throws" THEN "abort" ELSE status
           /\ request_id' = Counted(parsed)
           /\ mpc' = AfterRead(parsed, Refused(c, cur.fd))
           /\ cur' = [cur EXCEPT !.request = c]
    /\ UNCHANGED <<descriptor, backlog, interest, edges, listen_edge, batch, client_ip_address,
                   poolVars, handler, historyVars>>

\* read() returns -1 or 0, or the bytes of a worker's file, which do not parse
\* and which the worker then misses unless it seeks only afterwards.
\* On a connection with nothing to read and whose client has not hung up it
\* returns neither: the accepted socket is blocking, and the loop waits.
ReadNothing ==
    /\ mpc = "read"
    /\ \/ descriptor[cur.fd] \notin Conns
       \/ \E c \in Conns : descriptor[cur.fd] = c /\ Unread(c) = 0 /\ conn[c].end # "open"
    /\ conn' = [c \in Conns |->
                   IF c = descriptor[cur.fd] /\ conn[c].end = "rst"
                   THEN [conn[c] EXCEPT !.end = "pipe"] ELSE conn[c]]
    /\ \E moved \in BOOLEAN :
           handler' = [w \in Workers |->
                          IF w = descriptor[cur.fd] /\ moved
                          THEN [handler[w] EXCEPT !.intact = FALSE] ELSE handler[w]]
    /\ mpc' = "close"
    /\ UNCHANGED <<descriptor, backlog, interest, edges, listen_edge, status, batch, cur,
                   request_id, client_ip_address, poolVars, historyVars>>

\* slip: "continue" without close(newsockfd)
RefuseWithoutClose ==
    /\ mpc = "close"
    /\ mpc' = NextEvent(batch)
    /\ UNCHANGED <<socketVars, status, batch, cur, request_id, client_ip_address, poolVars,
                   handler, historyVars>>

\* slip: newsockfd is reset to 0 after the close
CloseAndReset ==
    /\ mpc = "close"
    /\ Close(cur.fd)
    /\ mpc' = NextEvent(batch)
    /\ cur' = [cur EXCEPT !.fd = 0]
    /\ UNCHANGED <<status, batch, request_id, client_ip_address, poolVars, handler,
                   historyVars>>

\* the close(newsockfd) of every refusal
CloseCurrent ==
    /\ mpc = "close"
    /\ Close(cur.fd)
    /\ mpc' = NextEvent(batch)
    /\ UNCHANGED <<status, batch, cur, request_id, client_ip_address, poolVars, handler,
                   historyVars>>

\* slip: no "continue" between add_task and a close(newsockfd)
QueueAndClose(w) ==
    /\ mpc = "add_task"
    /\ Pool!AddTask(w, [id |-> request_id - 1, newsockfd |-> cur.fd,
                        client_request |-> cur.request])
    /\ mpc' = "close"
    /\ UNCHANGED <<socketVars, status, batch, cur, request_id, client_ip_address, handler,
                   historyVars>>

\* pool::add_task with the worker it draws
QueueTask(w) ==
    /\ mpc = "add_task"
    /\ Pool!AddTask(w, [id |-> request_id - 1, newsockfd |-> cur.fd,
                        client_request |-> cur.request])
    /\ mpc' = NextEvent(batch)
    /\ UNCHANGED <<socketVars, status, batch, cur, request_id, client_ip_address, handler,
                   historyVars>>

Main ==
    \/ EpollWait
    \/ \E e \in batch : DropFaulty(e) \/ TakeEvent(e)
    \/ Accept \/ AcceptNothing
    \/ Register \/ RegisterFails
    \/ (\E c \in Conns : ReadRequest(c)) \/ ReadNothing
    \/ CloseCurrent
    \/ \E w \in Workers : QueueTask(w)
-----------------------------------------------------------------------------
(* a worker thread *)

TakeTask(w) ==
    /\ Pool!Take(w)
    /\ handler' = [handler EXCEPT ![w].pc = "open"]
    /\ UNCHANGED <<socketVars, status, mainVars, historyVars>>

Nap(w) ==
    /\ Pool!Chill(w) \/ Pool!Wake(w)
    /\ UNCHANGED <<socketVars, status, mainVars, handler, historyVars>>

\* The files a response needs are opened and closed one after the other, the
\* resource unless it is cached and in any case the log; one stands for all.
\* When no descriptor is left the resource's stream has no length, resize
\* throws, and handle() closes without an answer; a log line is just lost.
OpenFile(w) ==
    /\ handler[w].pc = "open"
    /\ \E d \in Descriptors :
           /\ IsNextDescriptor(d)
           /\ OpenFor(w, d)
           /\ handler' = [handler EXCEPT ![w].pc = "read", ![w].file = d]
    /\ UNCHANGED <<status, mainVars, poolVars, historyVars>>

OpenNothing(w) ==
    /\ handler[w].pc = "open"
    /\ FreeDescriptors = {}
    /\ \E next \in {"write", "close"} : handler' = [handler EXCEPT ![w].pc = next]
    /\ starved' = TRUE
    /\ UNCHANGED <<socketVars, status, mainVars, poolVars, reply, stray_close, unaccepted>>

\* the file is read and its stream closes the number it was given; if that
\* number is no longer the file, the read fails and the answer is garbled or,
\* when the length could not be had either, there is none
ReadFile(w) ==
    LET d == handler[w].file
        own == descriptor[d] = w
    IN  /\ handler[w].pc = "read"
        /\ Close(d)
        /\ \E next \in (IF own THEN {"write"} ELSE {"write", "close"}) :
               handler' = [handler EXCEPT ![w].pc = next, ![w].file = 0,
                                          ![w].intact = @ /\ own]
        /\ UNCHANGED <<status, mainVars, poolVars, historyVars>>

\* write(m_sockfd): to whatever connection has that number by now.  A write
\* to anything else, or the first one after a reset, fails and is ignored.  The
\* accepted socket is blocking: a client that does not read keeps the worker
\* here, which is this action not being taken.
WriteReply(w) ==
    LET t == next_task[w]
        o == descriptor[t.newsockfd]
    IN  /\ handler[w].pc = "write"
        /\ handler' = [handler EXCEPT ![w].pc = "close"]
        /\ status' = IF o \in Conns /\ conn[o].end = "pipe" THEN "sigpipe" ELSE status
        /\ conn' = [c \in Conns |->
                       IF c = o /\ conn[c].end = "rst" THEN [conn[c] EXCEPT !.end = "pipe"]
                       ELSE conn[c]]
        /\ reply' = [c \in Conns |->
                        IF c = o /\ ~Broken(c)
                        THEN Append(reply[c], [id |-> t.id, origin |-> t.client_request,
                                               intact |-> handler[w].intact])
                        ELSE reply[c]]
        /\ UNCHANGED <<descriptor, backlog, interest, edges, listen_edge, mainVars, poolVars,
                       stray_close, starved, unaccepted>>

\* close(m_sockfd) at the end of handle() and in its catch
CloseReply(w) ==
    /\ handler[w].pc = "close"
    /\ Close(next_task[w].newsockfd)
    /\ handler' = [handler EXCEPT ![w].pc = "destroy"]
    /\ UNCHANGED <<status, mainVars, poolVars, historyVars>>

\* server::~server closes m_sockfd again, and the worker's turn is over
Destroy(w) ==
    /\ handler[w].pc = "destroy"
    /\ Close(next_task[w].newsockfd)
    /\ stray_close' = (stray_close \/ descriptor[next_task[w].newsockfd] # Free)
    /\ handler' = [handler EXCEPT ![w].pc = "idle", ![w].intact = TRUE]
    /\ Pool!Finish(w)
    /\ UNCHANGED <<status, mainVars, reply, starved, unaccepted>>

Worker(w) ==
    \/ TakeTask(w) \/ Nap(w)
    \/ OpenFile(w) \/ OpenNothing(w) \/ ReadFile(w)
    \/ WriteReply(w) \/ CloseReply(w) \/ Destroy(w)
-----------------------------------------------------------------------------
\* a client that connects puts the listening socket in the ready list again
ClientStep(c) ==
    /\ Client(c)
    /\ unaccepted' = (unaccepted /\ backlog' = backlog)
    /\ UNCHANGED <<status, mainVars, poolVars, handler, reply, stray_close, starved>>

Next ==
    /\ status = "up"
    /\ \/ \E c \in Conns : ClientStep(c)
       \/ Main
       \/ \E w \in Workers : Worker(w)

Spec == Init /\ [][Next]_vars

\* the operating system schedules every thread; clients that connect send
\* what they have to send, and read what they are sent, so that a write ends
FairSpec ==
    /\ Spec
    /\ WF_vars(status = "up" /\ Main)
    /\ \A w \in Workers : WF_vars(status = "up" /\ Worker(w))
    /\ \A c \in Conns : WF_vars(status = "up" /\ Send(c) /\ ClientStep(c))
-----------------------------------------------------------------------------
\* The numbers main() keeps for the listening socket and for epoll are never
\* handed to close(), although close() is called by eleven threads on numbers
\* that may since have come to mean something else (main.cpp:202, :242, ...,
\* server.cpp:229, :240).
ListenerStaysOpen ==
    descriptor[sockfd] = Listener /\ descriptor[efd] = Epoll

\* Some thread still has to close descriptor d.
CloseOwed(d) ==
    \/ mpc \in {"close", "add_task"} /\ cur.fd = d
    \/ \E t \in Pool!Queued \cup Pool!Running : t.newsockfd = d

\* No descriptor leaks: once a byte of a connection has been read, and as long
\* as it is open, either the accept loop is about to close it or a task whose
\* server object closes it is queued or running.
ReadConnectionsGetClosed ==
    status = "up" =>
        \A d \in Descriptors :
            descriptor[d] \in Conns /\ conn[descriptor[d]].read > 0 => CloseOwed(d)

\* No wake-up is lost although epoll is edge-triggered and main() reads once
\* per event: input on an open connection is in the ready list, among the
\* events in hand, about to be registered or read, or its connection is
\* about to be closed.
NoStrandedConnection ==
    status = "up" =>
        \A d \in Descriptors, c \in Conns :
            descriptor[d] = c /\ Readable(c) =>
                \/ c \in edges
                \/ \E e \in batch : e.fd = d
                \/ mpc \in {"register", "read"} /\ cur.fd = d
                \/ CloseOwed(d)

\* A connection waits in the listening queue with no event on its way only
\* after accept() has failed with clients in the queue (main.cpp:214-217 leaves
\* the loop and edge-triggered epoll does not report the queue again) and only
\* until the next client connects; a worker's failed open() forgets nobody.
BacklogWatched ==
    status = "up" /\ backlog # <<>> =>
        \/ listen_edge
        \/ mpc \in {"accept", "register"}
        \/ \E e \in batch : e.of = Listener
        \/ unaccepted

\* The accept loop waits inside read() only for a connection other than the
\* one the event was about: one that got its number between epoll_wait and
\* read.
BlocksOnlyOnStaleEvent ==
    mpc = "read" =>
        \A c \in Conns : descriptor[cur.fd] = c /\ ~Readable(c) => cur.of # c

\* No request is answered twice, on its own connection or on another.
AnsweredAtMostOnce ==
    \A b, c \in Conns : \A i \in DOMAIN reply[b], j \in DOMAIN reply[c] :
        reply[b][i].id = reply[c][j].id => b = c /\ i = j

\* An answer goes to another client than the one that asked only when the
\* destructor's close has hit a number in use, or when some client sent more
\* after its first segment or hung up: only then main() closes a number that a
\* task will still be answered on (main.cpp:237-253, server.cpp:240).
ForeignAnswerHasCause ==
    \A b \in Conns : \A i \in DOMAIN reply[b] :
        reply[b][i].origin # b =>
            \/ stray_close
            \/ \E c \in Conns : conn[c].sent > 1 \/ conn[c].end # "open"

\* The process ends in epoll_ctl only where a close has hit the connection that
\* was just accepted (main.cpp:146), which needs the same cause; and on SIGPIPE
\* (server.cpp:228) only where two answers are written to one client that has
\* reset: it takes a second request, a stray close or a second client that left.
EndsWithCause ==
    /\ status = "exit" =>
           \/ stray_close
           \/ \E c \in Conns : conn[c].sent > 1 \/ conn[c].end # "open"
    /\ status = "sigpipe" =>
           \/ stray_close
           \/ \E c \in Conns : conn[c].sent > 1
           \/ \E b, c \in Conns : b # c /\ conn[b].end # "open" /\ conn[c].end # "open"

\* A worker runs its tasks in the order their requests were read.
RequestOrder ==
    \A w \in Workers :
        LET q == m_tasks[w]
        IN  /\ \A i, j \in DOMAIN q : i < j => q[i].id < q[j].id
            /\ \A i \in DOMAIN q : next_task[w] # nullptr => next_task[w].id < q[i].id

\* A task done its best for: its connection has one answer, its own, intact.
AnsweredRight(c) ==
    Len(reply[c]) = 1 /\ reply[c][1].origin = c /\ reply[c][1].intact

\* When every client sends one request in one piece and waits, and until a
\* descriptor is missing, what ends the process, sends an answer to another
\* client, garbles it or loses it is the second close of server::~server
\* (server.cpp:238-241) hitting a number that is in use again.
OnlyDoubleCloseHarms ==
    ~stray_close /\ ~starved =>
        /\ status = "up"
        /\ \A c \in Conns : reply[c] # <<>> => AnsweredRight(c)
        /\ \A t \in finished : AnsweredRight(t.client_request)

\* Under the same clients, every request sent for a host that is served is
\* answered in the end, or a stray close or a missing descriptor came first.
EventuallyAnswered ==
    \A c \in Served :
        conn[c].sent = Len(Script[c]) ~> (AnsweredRight(c) \/ stray_close \/ starved)

\* main.cpp:270 says of a request for a domain that is not served: "we close
\* the connection".  So its client never gets a response.
UnservedGetNoResponse ==
    \A c \in Conns \ Served : reply[c] = <<>>

\* main.cpp:278 says "If the client address is blacklisted, we close the
\* connection."  So no task is ever made for such a client.
BlacklistedGetNoTask ==
    \A t \in Pool!Known : Address[t.client_request] \notin Blacklist
=============================================================================
