---------------------------- MODULE FileResponse ----------------------------
(***************************************************************************)
(* How server.cpp answers a GET for a file: static_file_response and       *)
(* plain_file_response with the cache_storage all workers share, the 304   *)
(* decision, the 404 page, and the Last-Modified stamp, which goes through *)
(* localtime's one static buffer, is written in local time and read back   *)
(* as UTC.  Files change while requests are handled, and a client may come *)
(* back with the stamp it was given.                                       *)
(*                                                                         *)
(* Time is counted in seconds, as time_t is.  A cache operation is one     *)
(* step; two that overlap while one inserts into the std::map are a data   *)
(* race, and the model stops there with raced TRUE.                        *)
(***************************************************************************)
EXTENDS Integers, FiniteSets

CONSTANTS
    Workers,
    Keys,           \* <<host, path>> of the requests that are routed to a file
    Static,         \* those whose path begins with "/static/"
    Files,
    FileOf,         \* FileOf[k]: the file behind k, by location and route
    Page,           \* the domain's 404 page, one of Files
    TTL,            \* 3600
    Boot,           \* when the server is started
    Zone,           \* Zone[t]: how far local time is ahead of UTC at time t
    MaxTime,        \* bound of the clock
    MaxVersion,     \* bound of the number of contents all files ever have
    nullptr

Missing == 0        \* stands for the content of a file that is not there
Empty == -1         \* the content of an empty file
Versions == 1 .. MaxVersion
Time == Boot .. MaxTime
NoTime == -1        \* what file_modified returns when stat fails

ASSUME FileAssumption ==
    /\ TTL \in Nat /\ MaxTime \in Nat /\ MaxVersion \in Nat
    /\ Boot \in Nat \ {0} /\ Boot <= MaxTime
    /\ Zone \in [Time \cup {NoTime} -> Int]
    /\ Static \subseteq Keys
    /\ FileOf \in [Keys -> Files] /\ Page \in Files
    /\ nullptr \notin Files

VARIABLES
    clock,
    file,       \* file[f]: content, a fresh version for every edit, and mtime
    m_cache,    \* m_cache[k]: the cached data, its expiration and, as history, the
                \* time from reading the data to storing it; or nullptr
    server,     \* server[w]: the request worker w handles, or nullptr
    copy,       \* copy[k]: the last 200 a client got for k, or nullptr
    raced,
    replaced,   \* history: replaced[v], when content v stopped being its file's
    owner,      \* history: owner[v], the file whose content v is
    rushed      \* history: a file changed twice within a second

vars == <<clock, file, m_cache, server, copy, raced, replaced, owner, rushed>>

\* a 200 as a client keeps it; as history the time its stamp should give, and
\* whether its body came from the cache and its stamp from another thread's
\* call of localtime
Copy == [data : Versions, stamp : Int, modification_time : Time \cup {NoTime},
         cached : BOOLEAN, foreign : BOOLEAN]

CacheEntry == [data : Versions \cup {Empty}, expiration : Nat, lag : Nat]

\* read_at is history: when the file was read that is not stored yet, else Boot
Server == [pc : {"stat", "is_expired", "get_data", "read", "set", "stamp",
                 "page", "send"},
           key : Keys, held : Copy \cup {nullptr},
           data : Versions \cup {Empty, Missing}, read_at : Time, cached : BOOLEAN,
           modification_time : Time \cup {NoTime}, stamp : Int,
           seen : Versions \cup {Empty, Missing},
           code : {"200", "404", "304", "none"}]

TypeOK ==
    /\ clock \in Time
    /\ file \in [Files -> [content : Versions \cup {Empty, Missing}, mtime : Time]]
    /\ m_cache \in [Keys -> CacheEntry \cup {nullptr}]
    /\ server \in [Workers -> Server \cup {nullptr}]
    /\ copy \in [Static -> Copy \cup {nullptr}]
    /\ raced \in BOOLEAN
    /\ replaced \in [Versions -> 0 .. MaxTime + 1]
    /\ owner \in [Versions -> Files \cup {nullptr}]
    /\ rushed \in BOOLEAN

Init ==
    /\ clock = Boot
    /\ file = [f \in Files |-> [content |-> Missing, mtime |-> Boot]]
    /\ m_cache = [k \in Keys |-> nullptr]
    /\ server = [w \in Workers |-> nullptr]
    /\ copy = [k \in Static |-> nullptr]
    /\ raced = FALSE
    /\ replaced = [v \in Versions |-> MaxTime + 1]
    /\ owner = [v \in Versions |-> nullptr]
    /\ rushed = FALSE

codeVars == <<m_cache, server, copy, raced>>
-----------------------------------------------------------------------------
(* the world outside the server *)

Tick ==
    /\ clock < MaxTime
    /\ clock' = clock + 1
    /\ UNCHANGED <<file, codeVars, replaced, owner, rushed>>

\* somebody saves f: with new content, as an empty file, or not at all any more
Edit(f, content) ==
    /\ content \in Versions =>
           /\ owner[content] = nullptr
           /\ \A v \in Versions : v < content => owner[v] # nullptr
    /\ content \in {Empty, Missing} => file[f].content \in Versions
    /\ file' = [file EXCEPT ![f] = [content |-> content, mtime |-> clock]]
    /\ owner' = IF content \in Versions THEN [owner EXCEPT ![content] = f] ELSE owner
    /\ replaced' = IF file[f].content \in Versions
                   THEN [replaced EXCEPT ![file[f].content] = clock] ELSE replaced
    /\ rushed' = (rushed \/ (file[f].content # Missing /\ file[f].mtime = clock))
    /\ UNCHANGED <<clock, codeVars>>

world == <<clock, file, replaced, owner, rushed>>
At(w, pc) == server[w] # nullptr /\ server[w].pc = pc
Goto(w, pc) == server' = [server EXCEPT ![w].pc = pc]
-----------------------------------------------------------------------------
(* server::handle, for a path that is a file *)

File(w) == file[FileOf[server[w].key]]

\* A request, with the stamp of the copy its client holds or without.  A stamp
\* that timegm takes for its own error, -1, makes main() refuse the request.
Receive(w, k, held) ==
    /\ server[w] = nullptr
    /\ held # nullptr => k \in Static /\ held = copy[k] /\ held.stamp # -1
    /\ server' = [server EXCEPT ![w] =
           [pc |-> IF k \in Static THEN "stat" ELSE "is_expired", key |-> k, held |-> held,
            data |-> Missing, read_at |-> Boot, cached |-> FALSE,
            modification_time |-> NoTime, stamp |-> NoTime, seen |-> Missing, code |-> "none"]]
    /\ UNCHANGED <<world, m_cache, copy, raced>>

\* m_if_modified_since is 0 when the request has no such line; the date and
\* time that were written in local time are put together by timegm, as UTC
IfModifiedSince(w) == IF server[w].held = nullptr THEN 0 ELSE server[w].held.stamp

FileModified(w) == IF File(w).content = Missing THEN NoTime ELSE File(w).mtime

\* where static_file_response goes with the body, plain_file_response with the
\* body and the time; an empty body leaves the response to the 404 page
Respond(w, data) == IF data \in Versions THEN "stamp" ELSE "page"

\* file_modified: the first thing for a static file, the last for a plain one.
\* Nothing looks at the request's date after that; what the file contains is
\* kept, as history, with a 304.
StatFile(w) ==
    LET k == server[w].key
        mtime == FileModified(w)
        same == k \in Static /\ mtime <= IfModifiedSince(w)
    IN  /\ At(w, "stat")
        /\ server' = [server EXCEPT
               ![w].modification_time = mtime,
               ![w].held = IF same THEN @ ELSE nullptr,
               ![w].seen = IF same THEN File(w).content ELSE Missing,
               ![w].code = IF same THEN "304" ELSE "none",
               ![w].pc = IF same THEN "send"
                         ELSE IF k \in Static THEN "is_expired"
                         ELSE Respond(w, server[w].data)]
        /\ UNCHANGED <<world, m_cache, copy, raced>>

\* the body is there: a static file has been stat'ed already
HaveBody(w, data) == IF server[w].key \in Static THEN Respond(w, data) ELSE "stat"

IsExpired(w) ==
    LET entry == m_cache[server[w].key]
    IN  /\ At(w, "is_expired")
        /\ Goto(w, IF entry # nullptr /\ entry.expiration >= clock THEN "get_data" ELSE "read")
        /\ UNCHANGED <<world, m_cache, copy, raced>>

GetData(w) ==
    /\ At(w, "get_data")
    /\ LET data == m_cache[server[w].key].data
       IN server' = [server EXCEPT ![w].data = data, ![w].cached = TRUE,
                                   ![w].pc = HaveBody(w, data)]
    /\ UNCHANGED <<world, m_cache, copy, raced>>

\* slip: file_to_string gives the empty string for a missing file
ReadWithoutThrow(w) ==
    /\ At(w, "read")
    /\ server' = [server EXCEPT ![w].data = File(w).content, ![w].read_at = clock,
                                ![w].pc = "set"]
    /\ UNCHANGED <<world, m_cache, copy, raced>>

\* file_to_string throws when the file is missing, and handle() closes
ReadFile(w) ==
    /\ At(w, "read")
    /\ server' = IF File(w).content = Missing
                 THEN [server EXCEPT ![w].code = "none", ![w].pc = "send"]
                 ELSE [server EXCEPT ![w].data = File(w).content, ![w].read_at = clock,
                                     ![w].pc = "set"]
    /\ UNCHANGED <<world, m_cache, copy, raced>>

\* another worker may be inside the same map
MayRace(w) ==
    \E v \in Workers \ {w} : \E pc \in {"is_expired", "get_data", "set"} : At(v, pc)

\* slip: an entry that exists gets a new expiration and keeps its data
ProlongEntry(k, data, lag) ==
    [data |-> IF m_cache[k] = nullptr THEN data ELSE m_cache[k].data,
     expiration |-> clock + TTL, lag |-> lag]

\* create_cache or cache::update
Entry(k, data, lag) == [data |-> data, expiration |-> clock + TTL, lag |-> lag]

SetCache(w) ==
    LET k == server[w].key
        data == server[w].data
    IN  /\ At(w, "set")
        /\ m_cache' = [m_cache EXCEPT ![k] = Entry(k, data, clock - server[w].read_at)]
        /\ raced' \in {FALSE, m_cache[k] = nullptr /\ MayRace(w)}
        /\ server' = [server EXCEPT ![w].read_at = Boot, ![w].pc = HaveBody(w, data)]
        /\ UNCHANGED <<world, copy>>

\* the date and time a local clock shows at t, as the time they would be in UTC
LocalTime(t) == t + Zone[t]

\* what strftime may find in the buffer that localtime was asked to fill with t:
\* t, or the time another thread asked for since; main()'s log and the logs and
\* responses of the other workers do so at any moment (Log has them in detail)
Localtime(t) == {t} \cup {u \in Time \cup {NoTime} : u <= clock}

\* slip: response() is given the time the file has by then
StampOfLaterStat(w) ==
    /\ At(w, "stamp")
    /\ \E t \in Localtime(FileModified(w)) :
           server' = [server EXCEPT ![w].modification_time = FileModified(w),
                                    ![w].stamp = LocalTime(t), ![w].code = "200",
                                    ![w].pc = "send"]
    /\ UNCHANGED <<world, m_cache, copy, raced>>

\* response() writes format_unixtime of the time with "%c", which names no zone
Stamp(w) ==
    /\ At(w, "stamp")
    /\ \E t \in Localtime(server[w].modification_time) :
           server' = [server EXCEPT ![w].stamp = LocalTime(t), ![w].code = "200",
                                    ![w].pc = "send"]
    /\ UNCHANGED <<world, m_cache, copy, raced>>

\* file_not_found_response: without the page there is no response either
NotFoundPage(w) ==
    /\ At(w, "page")
    /\ server' = [server EXCEPT ![w].pc = "send",
                     ![w].code = IF file[Page].content = Missing THEN "none" ELSE "404"]
    /\ UNCHANGED <<world, m_cache, copy, raced>>

\* write, or the catch; the client keeps a 200
Send(w) ==
    LET s == server[w]
        got == [data |-> s.data, stamp |-> s.stamp,
                modification_time |-> s.modification_time, cached |-> s.cached,
                foreign |-> s.stamp # LocalTime(s.modification_time)]
    IN  /\ At(w, "send")
        /\ copy' = IF s.code = "200" /\ s.key \in Static THEN [copy EXCEPT ![s.key] = got]
                   ELSE copy
        /\ server' = [server EXCEPT ![w] = nullptr]
        /\ UNCHANGED <<world, m_cache, raced>>

Handle(w) ==
    \/ \E k \in Keys : \E held \in {nullptr} \cup {copy[j] : j \in Static} : Receive(w, k, held)
    \/ StatFile(w) \/ IsExpired(w) \/ GetData(w) \/ ReadFile(w) \/ SetCache(w)
    \/ Stamp(w) \/ NotFoundPage(w) \/ Send(w)

Next ==
    /\ ~raced
    /\ \/ Tick
       \/ \E f \in Files, content \in Versions \cup {Empty, Missing} : Edit(f, content)
       \/ \E w \in Workers : Handle(w)

Spec == Init /\ [][Next]_vars
-----------------------------------------------------------------------------
Sending(w, code) == At(w, "send") /\ server[w].code = code

\* the file was saved after the time of the copy, but no later than local clocks
\* showed then
SavedAgainWithinZone(s) ==
    /\ s.held.modification_time < s.modification_time
    /\ s.modification_time <= LocalTime(s.held.modification_time)

\* A client is told "304 Not Modified" of a file that is there although its
\* copy is not what the file contains only if that copy came from the cache,
\* was stamped with another thread's time, the file changed twice within a
\* second, or local time was ahead of UTC and the file changed again within
\* that offset after the time of the copy (utils.cpp:182, request.cpp:463).
\* (That static_file_response takes the time before the body is what keeps a
\* change in between from doing harm.)
WrongNotModifiedHasCause ==
    \A w \in Workers :
        Sending(w, "304") /\ server[w].held # nullptr /\ server[w].seen \in Versions =>
            \/ server[w].held.data = server[w].seen
            \/ server[w].held.cached
            \/ server[w].held.foreign
            \/ rushed
            \/ SavedAgainWithinZone(server[w])

\* No entry of the cache outlives what it caches by more than the hour plus
\* the time the worker that stored it took from reading the file to storing,
\* whichever of several workers stores last.
CacheAgeBounded ==
    \A k \in Keys :
        m_cache[k] # nullptr /\ m_cache[k].data \in Versions =>
            m_cache[k].expiration <= replaced[m_cache[k].data] + m_cache[k].lag + TTL

\* README.md:10 promises "200 and 404 responses": a static file that stat did
\* not find, and of which nothing was read or taken from the cache, is answered
\* 404.
MissingFileGets404 ==
    \A w \in Workers :
        /\ At(w, "send") /\ server[w].key \in Static
        /\ server[w].modification_time = NoTime /\ server[w].data = Missing
        => server[w].code = "404"
=============================================================================
