CONSTANTS
    c1 = c1
    c2 = c2
    c3 = c3
    w1 = w1
    w2 = w2
    addr1 = addr1
    addr2 = addr2
    Free = Free
    Listener = Listener
    Epoll = Epoll
    NoConn = NoConn
    nullptr = nullptr
    EmptyAddress = EmptyAddress
    Workers = {w1, w2}
    Address <- MCAddress
    Blacklist = {addr1}
    MaxEvents = 2
    ReadMax = 2
    QueueSize = 2
    Conns = {c1, c2, c3}
    MaxFd = 4
    Script <- MCScript
    Impatient = {c1}
    Served = {c1, c2}
SPECIFICATION Spec
SYMMETRY MCSymmetry
INVARIANTS
    TypeOK
    ListenerStaysOpen
    NoStrandedConnection
    ReadConnectionsGetClosed
    BlocksOnlyOnStaleEvent
    AnsweredAtMostOnce
    ForeignAnswerHasCause
    
    RequestOrder
    BacklogWatched
CHECK_DEADLOCK FALSE
