------------------------------ MODULE Routing ------------------------------
(***************************************************************************)
(* domain_storage.cpp, domain.cpp and the part of server::handle that      *)
(* decides what answers a request: the configuration is loaded once, and   *)
(* then worker threads look routes up in the tables of a domain, which     *)
(* they share without a lock and which a lookup of an unknown path changes *)
(* (get_path is m_paths[method][path]).                                    *)
(*                                                                         *)
(* A lookup is one step.  Two lookups that really overlap while one of     *)
(* them inserts are a data race; the model then stops, with raced TRUE,    *)
(* since nothing can be said of what a program does from there.            *)
(***************************************************************************)
EXTENDS Naturals, Sequences, FiniteSets

CONSTANTS
    Workers,        \* the pool's threads
    Prefixes,       \* names of domains
    DomainLists,    \* contents config/domains.wl may have: prefixes in order
    Hosts,          \* host names in the configuration and in requests
    Hostnames,      \* Hostnames[p]: config/<p>.hostnames
    Names,          \* paths in the configuration and in requests
    Starred,        \* those that end in "*"
    Covers,         \* Covers[k], k starred: names that begin with k less its "*"
    Rank,           \* Rank[n]: place of n in the order of std::map
    StaticNames,    \* names that begin with "/static/"
    Files,
    PathLines,      \* PathLines[p]: the lines of config/<p>.paths
    Unreadable,     \* domains one of whose five files is not there
    Malformed,      \* a line that does not have four parts
    Default,        \* the path object path::path() makes
    Absent,         \* no entry in the map
    NotFound, Static,
    nullptr

Methods == {"get", "post"}
Types == {"plain", "python", "binary"}
Path == [request : Names, method : Methods \cup {"unknown"},
         type : Types \cup {"unknown"}, file : Files]

VARIABLES
    domain_list,    \* config/domains.wl
    status,     \* "loading", "up", "exit" when the configuration is refused, or
                \* "abort" when a file of it is missing
    loaded,     \* how many domains have been loaded
    m_error,    \* domain_storage::m_error
    m_domains,  \* m_domains[h]: the domain that serves host h, or nullptr
    m_paths,    \* m_paths[p][m][n]: domain p's entry for method m and path n
    server,     \* server[w]: the server object of worker w, or nullptr: the
                \* request it handles, how far it is, the path it has found
    raced       \* two threads were in one domain's map and one inserted

vars == <<domain_list, status, loaded, m_error, m_domains, m_paths, server, raced>>

Server == [pc : {"get_path", "wildcard", "respond"}, host : Hosts, domain : Prefixes,
           method : Methods \cup {"unknown"}, name : Names,
           path : Path \cup {Default}]

ASSUME RoutingAssumption ==
    /\ DomainLists \subseteq Seq(Prefixes)
    /\ \A l \in DomainLists : \A i, j \in DOMAIN l : l[i] = l[j] => i = j
    /\ Hostnames \in [Prefixes -> SUBSET Hosts]
    /\ Starred \subseteq Names /\ StaticNames \subseteq Names
    /\ Covers \in [Starred -> SUBSET Names]
    /\ \A k \in Starred : k \in Covers[k]
    /\ Rank \in [Names -> Nat]
    /\ \A m, n \in Names : Rank[m] = Rank[n] => m = n
    /\ PathLines \in [Prefixes -> Seq(Path \cup {Malformed})]
    /\ Unreadable \subseteq Prefixes
    /\ Malformed \notin Path /\ Default \notin Path /\ Absent \notin Path
    /\ NotFound \notin Path /\ Static \notin Path
    /\ Default # Absent /\ NotFound # Static /\ nullptr \notin Prefixes \cup Server

TypeOK ==
    /\ domain_list \in DomainLists
    /\ status \in {"loading", "up", "exit", "abort"}
    /\ loaded \in 0 .. Len(domain_list)
    /\ m_error \in {0, 1}
    /\ m_domains \in [Hosts -> Prefixes \cup {nullptr}]
    /\ m_paths \in [Prefixes -> [Methods -> [Names -> Path \cup {Default, Absent}]]]
    /\ server \in [Workers -> Server \cup {nullptr}]
    /\ raced \in BOOLEAN

Init ==
    /\ domain_list \in DomainLists
    /\ status = "loading"
    /\ loaded = 0
    /\ m_error = 0
    /\ m_domains = [h \in Hosts |-> nullptr]
    /\ m_paths = [p \in Prefixes |-> [m \in Methods |-> [n \in Names |-> Absent]]]
    /\ server = [w \in Workers |-> nullptr]
    /\ raced = FALSE
-----------------------------------------------------------------------------
(* domain_storage::domain_storage, then main() *)

\* indices of the lines of p that are for method m and path n
LinesFor(p, m, n) ==
    {i \in DOMAIN PathLines[p] :
        PathLines[p][i] # Malformed /\ PathLines[p][i].method = m
                                    /\ PathLines[p][i].request = n}

\* process_paths and add_path: of several lines for one path the last one stays
Table(p) ==
    [m \in Methods |-> [n \in Names |->
        LET is == LinesFor(p, m, n)
        IN  IF is = {} THEN Absent
            ELSE PathLines[p][CHOOSE i \in is : \A j \in is : j <= i]]]

\* slip: the first domain that lists a host keeps it, as with map::insert
FirstKeepsHost(p) ==
    [h \in Hosts |-> IF h \in Hostnames[p] /\ m_domains[h] = nullptr THEN p ELSE m_domains[h]]

\* the domain is entered under each of its host names
EnterHosts(p) == [h \in Hosts |-> IF h \in Hostnames[p] THEN p ELSE m_domains[h]]

\* file_to_string throws, and nothing in main() catches that
AbortOnUnreadable ==
    /\ status' = "abort"
    /\ UNCHANGED <<loaded, m_error, m_domains, m_paths>>

RefuseMalformed ==
    /\ m_error' = 1
    /\ UNCHANGED <<status, loaded, m_domains, m_paths>>

\* all files of a domain are read before its lines are found to be malformed
LoadDomain ==
    /\ status = "loading" /\ m_error = 0
    /\ loaded < Len(domain_list)
    /\ LET p == domain_list[loaded + 1]
           malformed == \E i \in DOMAIN PathLines[p] : PathLines[p][i] = Malformed
       IN  \/ p \in Unreadable /\ AbortOnUnreadable
           \/ p \notin Unreadable /\ malformed /\ RefuseMalformed
           \/ /\ p \notin Unreadable /\ ~malformed
              /\ loaded' = loaded + 1
              /\ m_domains' = EnterHosts(p)
              /\ m_paths' = [m_paths EXCEPT ![p] = Table(p)]
              /\ UNCHANGED <<status, m_error>>
    /\ UNCHANGED <<domain_list, server, raced>>

StartUp ==
    /\ status = "loading"
    /\ m_error = 1 \/ loaded = Len(domain_list)
    /\ status' = IF m_error = 1 THEN "exit" ELSE "up"
    /\ UNCHANGED <<domain_list, loaded, m_error, m_domains, m_paths, server, raced>>
-----------------------------------------------------------------------------
(* server::handle on worker w *)

At(w, pcs) == server[w] # nullptr /\ server[w].pc \in pcs

\* main() found a domain for the host and a worker has taken the task; other
\* methods than GET and POST look nothing up
Receive(w, h, m, n) ==
    /\ status = "up"
    /\ server[w] = nullptr
    /\ m_domains[h] # nullptr
    /\ server' = [server EXCEPT ![w] =
                     [pc |-> IF m \in Methods THEN "get_path" ELSE "respond",
                      host |-> h, domain |-> m_domains[h], method |-> m, name |-> n,
                      path |-> Default]]
    /\ UNCHANGED <<domain_list, status, loaded, m_error, m_domains, m_paths, raced>>

Entry(w) == m_paths[server[w].domain][server[w].method][server[w].name]

\* another worker may be inside the same map while w inserts
MayRace(w) ==
    \E v \in Workers \ {w} : At(v, {"get_path", "wildcard"})
                             /\ server[v].domain = server[w].domain

Known(path) == path # Default /\ path.type \in Types

\* what m_paths[method][path] refers to; operator[] makes it if need be
Found(w) == IF Entry(w) = Absent THEN Default ELSE Entry(w)

\* only the first lookup of a path changes the map
Inserts(w) == Entry(w) = Absent

\* slip: the lookup leaves path() behind whatever it found
StoreDefault(w) ==
    m_paths' = [m_paths EXCEPT ![server[w].domain][server[w].method][server[w].name] = Default]

StoreFound(w) ==
    m_paths' = IF Inserts(w)
               THEN [m_paths EXCEPT
                        ![server[w].domain][server[w].method][server[w].name] = Found(w)]
               ELSE m_paths

GetPath(w) ==
    /\ status = "up"
    /\ At(w, {"get_path"})
    /\ StoreFound(w)
    /\ raced' \in {FALSE, Inserts(w) /\ MayRace(w)}
    /\ server' = [server EXCEPT ![w].path = Found(w),
                                ![w].pc = IF Known(Found(w)) THEN "respond" ELSE "wildcard"]
    /\ UNCHANGED <<domain_list, status, loaded, m_error, m_domains>>

\* slip: the wildcards of the other domains are not told apart from this one's
AnyStar(p, m, n) == {k \in Starred : n \in Covers[k]}

\* entries of p that end in "*" and begin like n
Candidates(p, m, n) == {k \in Starred : m_paths[p][m][k] # Absent /\ n \in Covers[k]}

\* slip: no "break", so the last entry that fits is kept
LastFits(k, ks) == k \in ks /\ \A j \in ks : Rank[j] <= Rank[k]

\* the one the loop of find_wildcard_path meets first
Foremost(k, ks) == k \in ks /\ \A j \in ks : Rank[k] <= Rank[j]

FindWildcard(w) ==
    LET p == server[w].domain
        m == server[w].method
        ks == Candidates(p, m, server[w].name)
    IN  /\ status = "up"
        /\ At(w, {"wildcard"})
        /\ \/ /\ ks = {}
              /\ server' = [server EXCEPT ![w].path = Default, ![w].pc = "respond"]
           \/ \E k \in Starred :
                  /\ Foremost(k, ks)
                  /\ server' = [server EXCEPT ![w].path = m_paths[p][m][k],
                                              ![w].pc = "respond"]
        /\ UNCHANGED <<domain_list, status, loaded, m_error, m_domains, m_paths, raced>>

\* what each method serves
Allowed(m) == IF m = "get" THEN Types ELSE IF m = "post" THEN {"python"} ELSE {}

\* which of the *_response functions handle() calls, and on what
Dispatch(m, n, path) ==
    IF m = "get" /\ n \in StaticNames THEN Static
    ELSE IF path # Default /\ path.type \in Allowed(m) THEN path
    ELSE NotFound

Answer(w) == Dispatch(server[w].method, server[w].name, server[w].path)

\* the answer is written and the worker is done
Respond(w) ==
    /\ status = "up"
    /\ At(w, {"respond"})
    /\ server' = [server EXCEPT ![w] = nullptr]
    /\ UNCHANGED <<domain_list, status, loaded, m_error, m_domains, m_paths, raced>>

Next ==
    /\ ~raced
    /\ \/ LoadDomain \/ StartUp
       \/ \E w \in Workers :
              \/ \E h \in Hosts, m \in Methods \cup {"unknown"}, n \in Names :
                     Receive(w, h, m, n)
              \/ GetPath(w) \/ FindWildcard(w) \/ Respond(w)

Spec == Init /\ [][Next]_vars
-----------------------------------------------------------------------------
Loaded == {domain_list[i] : i \in 1 .. loaded}
Settled(w) == At(w, {"respond"})

\* The wildcard the configuration, and nothing else, gives for path n.
ConfiguredStar(p, m, n) == {k \in Starred : Table(p)[m][k] # Absent /\ n \in Covers[k]}

\* What the configuration promises for a request: a line for that very path if
\* its type is known, else the first wildcard line that fits.
IsPromised(p, m, n, answer) ==
    LET exact == Table(p)[m][n]
        ks == ConfiguredStar(p, m, n)
    IN  IF m \notin Methods THEN answer = NotFound
        ELSE IF exact # Absent /\ exact.type \in Types THEN answer = Dispatch(m, n, exact)
        ELSE IF ks = {} THEN answer = Dispatch(m, n, Default)
        ELSE \E k \in ks : /\ \A j \in ks : Rank[k] <= Rank[j]
                          /\ answer = Dispatch(m, n, Table(p)[m][k])

\* Whatever is requested, the configured routes stay what they were: looking a
\* path up inserts entries but never replaces one.
RoutesStable ==
    \A p \in Loaded, m \in Methods, n \in Names :
        Table(p)[m][n] # Absent => m_paths[p][m][n] = Table(p)[m][n]

\* A request is routed by the last domain in domains.wl that lists its host.
RoutedByItsDomain ==
    \A w \in Workers : server[w] # nullptr =>
        \E i \in DOMAIN domain_list :
            /\ domain_list[i] = server[w].domain
            /\ server[w].host \in Hostnames[domain_list[i]]
            /\ \A j \in DOMAIN domain_list : j > i => server[w].host \notin Hostnames[domain_list[j]]

\* Whatever was requested before, a request is never answered with another
\* route than the one the configuration promises; at worst it is not found.
NeverMisrouted ==
    \A w \in Workers : Settled(w) =>
        \/ Answer(w) = NotFound
        \/ IsPromised(server[w].domain, server[w].method, server[w].name, Answer(w))

\* As long as nobody has asked for a path that ends in "*" and is not
\* configured, the entries that lookups leave behind change no answer.
PlainLeftoversHarmless ==
    \A w \in Workers :
        LET s == server[w]
        IN  Settled(w) =>
                \/ s.method \in Methods
                   /\ \E k \in Starred : m_paths[s.domain][s.method][k] = Default
                \/ IsPromised(s.domain, s.method, s.name, Answer(w))

\* server.cpp:172 says "If the path type is unknown, we might have a wildcard
\* type", and README.md:14 offers wildcard support: the wildcard lines of the
\* configuration answer what they cover, whatever was requested before.
WildcardsKeepWorking ==
    \A w \in Workers : Settled(w) =>
        IsPromised(server[w].domain, server[w].method, server[w].name, Answer(w))
=============================================================================
