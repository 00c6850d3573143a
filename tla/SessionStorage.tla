-------------------------- MODULE SessionStorage ---------------------------
(***************************************************************************)
(* session_storage.cpp.  A session has a mutex for its own values; the map *)
(* of sessions has none: set_value and get_value count, create and look a  *)
(* session up in steps, and create_session counts once more before         *)
(* operator[] puts a null pointer in, which is then assigned a new         *)
(* session.  Two threads in the map at once, one of them putting an entry  *)
(* in or assigning one, are a data race: their steps may still come one    *)
(* after the other, or the model stops with undefined TRUE, as it does     *)
(* where a null pointer is followed.                                       *)
(***************************************************************************)
EXTENDS Naturals

CONSTANTS
    Threads,
    Ids,            \* session identifiers
    Keys, Values,
    MaxSessions,    \* bound of the number of session objects
    NoValue,        \* the empty string
    nullptr,
    Absent          \* no entry in the map

VARIABLES
    m_storage,      \* m_storage[id]: the session object of id, nullptr or Absent
    m_session,      \* m_session[s][k]: value of key k in session object s
    made,           \* how many session objects there have been
    accessing,      \* accessing[t]: the call of set_value or get_value t is in
    undefined,      \* two threads raced, or a null pointer was followed
    freed,          \* the id whose session was used after its end, or nullptr
    last,           \* last[id][k]: the value that set_value stored last
    together        \* ids that two threads were about to insert at once

Sessions == 1 .. MaxSessions
Call == [op : {"set", "get"}, id : Ids, key : Keys, value : Values \cup {NoValue},
         pc : {"count", "create", "insert", "assign", "find", "session"},
         session : Sessions \cup {nullptr}]

\* what the constants have to be; Library assumes it
SessionConstants ==
    /\ MaxSessions \in Nat
    /\ nullptr \notin Sessions \cup Call \cup Ids
    /\ Absent \notin Sessions \cup {nullptr}

TypeOK ==
    /\ m_storage \in [Ids -> Sessions \cup {nullptr, Absent}]
    /\ m_session \in [Sessions -> [Keys -> Values \cup {NoValue}]]
    /\ made \in 0 .. MaxSessions
    /\ accessing \in [Threads -> Call \cup {nullptr}]
    /\ undefined \in BOOLEAN
    /\ freed \in Ids \cup {nullptr}
    /\ last \in [Ids -> [Keys -> Values \cup {NoValue}]]
    /\ together \in SUBSET Ids

Init ==
    /\ m_storage = [id \in Ids |-> Absent]
    /\ m_session = [s \in Sessions |-> [k \in Keys |-> NoValue]]
    /\ made = 0
    /\ accessing = [t \in Threads |-> nullptr]
    /\ undefined = FALSE
    /\ freed = nullptr
    /\ last = [id \in Ids |-> [k \in Keys |-> NoValue]]
    /\ together = {}

Running == ~undefined /\ freed = nullptr
Idle(t) == accessing[t] = nullptr
At(t, pc) == Running /\ ~Idle(t) /\ accessing[t].pc = pc
InMap(t) == ~Idle(t) /\ accessing[t].pc # "session"
IdOf(t) == accessing[t].id
GoTo(t, pc) == accessing' = [accessing EXCEPT ![t].pc = pc]

Start(t, op, id, k, v) ==
    /\ Running /\ Idle(t)
    /\ op = "get" => v = NoValue
    /\ accessing' = [accessing EXCEPT ![t] =
           [op |-> op, id |-> id, key |-> k, value |-> v, pc |-> "count", session |-> nullptr]]
    /\ UNCHANGED <<m_storage, m_session, made, undefined, freed, last, together>>

\* slip: a session that is not there is not created, as at() would want it
CountOnly(t) ==
    /\ At(t, "count")
    /\ GoTo(t, "find")
    /\ UNCHANGED <<m_storage, m_session, made, undefined, freed, last, together>>

\* set_value and get_value: m_storage.count(id)
Count(t) ==
    /\ At(t, "count")
    /\ GoTo(t, IF m_storage[IdOf(t)] = Absent THEN "create" ELSE "find")
    /\ UNCHANGED <<m_storage, m_session, made, undefined, freed, last, together>>

\* slip: the callers have counted already
CreateUnchecked(t) ==
    /\ At(t, "create")
    /\ GoTo(t, "insert")
    /\ UNCHANGED <<m_storage, m_session, made, undefined, freed, last, together>>

\* create_session: m_storage.count(id)
Create(t) ==
    /\ At(t, "create")
    /\ GoTo(t, IF m_storage[IdOf(t)] = Absent THEN "insert" ELSE "find")
    /\ UNCHANGED <<m_storage, m_session, made, undefined, freed, last, together>>

AnotherInserts(t) == \E u \in Threads \ {t} : At(u, "insert") /\ IdOf(u) = IdOf(t)

\* create_session: m_storage[id] makes an entry that is null
Insert(t) ==
    /\ At(t, "insert") /\ made < MaxSessions
    /\ m_storage' = [m_storage EXCEPT ![IdOf(t)] = IF @ = Absent THEN nullptr ELSE @]
    /\ together' = IF AnotherInserts(t) THEN together \cup {IdOf(t)} ELSE together
    /\ GoTo(t, "assign")
    /\ UNCHANGED <<m_session, made, undefined, freed, last>>

\* = std::unique_ptr<session>(new session); one that is there already ends
Assign(t) ==
    /\ At(t, "assign") /\ made < MaxSessions
    /\ made' = made + 1
    /\ m_storage' = [m_storage EXCEPT ![IdOf(t)] = made + 1]
    /\ GoTo(t, "find")
    /\ UNCHANGED <<m_session, undefined, freed, last, together>>

\* the insertion or assignment and another thread's access really overlap
Race(t) ==
    /\ \/ At(t, "insert") /\ \E u \in Threads \ {t} : InMap(u)
       \/ At(t, "assign") /\ \E u \in Threads \ {t} : InMap(u) /\ IdOf(u) = IdOf(t)
    /\ undefined' = TRUE
    /\ UNCHANGED <<m_storage, m_session, made, accessing, freed, last, together>>

\* m_storage[id]->, which makes an entry if need be
Find(t) ==
    /\ At(t, "find")
    /\ m_storage' = [m_storage EXCEPT ![IdOf(t)] = IF @ = Absent THEN nullptr ELSE @]
    /\ accessing' = [accessing EXCEPT ![t].session = m_storage'[IdOf(t)], ![t].pc = "session"]
    /\ UNCHANGED <<m_session, made, undefined, freed, last, together>>

\* session::set_value or session::get_value, under the session's mutex
InSession(t) ==
    LET a == accessing[t]
    IN  /\ At(t, "session")
        /\ IF a.session = nullptr
           THEN undefined' = TRUE /\ UNCHANGED <<m_session, freed, last>>
           ELSE IF a.session # m_storage[a.id]
           THEN freed' = a.id /\ UNCHANGED <<m_session, undefined, last>>
           ELSE /\ UNCHANGED <<undefined, freed>>
                /\ IF a.op = "set"
                   THEN /\ m_session' = [m_session EXCEPT ![a.session][a.key] = a.value]
                        /\ last' = [last EXCEPT ![a.id][a.key] = a.value]
                   ELSE UNCHANGED <<m_session, last>>
        /\ accessing' = [accessing EXCEPT ![t] = nullptr]
        /\ UNCHANGED <<m_storage, made, together>>

Step(t) ==
    Count(t) \/ Create(t) \/ Insert(t) \/ Assign(t) \/ Race(t) \/ Find(t) \/ InSession(t)
-----------------------------------------------------------------------------
\* What was stored in a session is there until something else is stored, and no
\* call uses a session that has ended, unless two threads had both found the id
\* missing in create_session and were about to insert it.
ValuesLostOnlyByDoubleInsert ==
    \A id \in Ids \ together :
        /\ freed # id
        /\ \A k \in Keys :
              last[id][k] = IF m_storage[id] \in {nullptr, Absent} THEN NoValue
                            ELSE m_session[m_storage[id]][k]

\* A call that has counted or created its id finds an entry, and follows a null
\* pointer only while another thread is between making that entry and assigning
\* it (session_storage.cpp:48).
SessionsAreThere ==
    \A t \in Threads :
        ~Idle(t) /\ accessing[t].pc = "find" =>
            /\ m_storage[IdOf(t)] # Absent
            /\ m_storage[IdOf(t)] = nullptr =>
                  \E u \in Threads \ {t} :
                      ~Idle(u) /\ accessing[u].pc = "assign" /\ IdOf(u) = IdOf(t)
=============================================================================
