--------------------------- MODULE RoutingProofs ---------------------------
(***************************************************************************)
(* Proofs about Routing: every reachable state is well typed, no lookup    *)
(* ever replaces a configured route, every request is routed by the domain *)
(* that its host belongs to, and never with an answer that is neither the  *)
(* promised one nor "not found".                                           *)
(***************************************************************************)
EXTENDS Routing, WellFoundedInduction, TLAPS

\* p is the last of the first n domains in l that list host h
LastLister(l, p, h, n) ==
    \E i \in 1 .. n :
        /\ l[i] = p
        /\ h \in Hostnames[p]
        /\ \A j \in 1 .. n : j > i => h \notin Hostnames[l[j]]

LoadInv ==
    /\ domain_list \in DomainLists
    /\ status \in {"loading", "up", "exit", "abort"}
    /\ loaded \in 0 .. Len(domain_list)
    /\ m_error \in {0, 1}
    /\ raced \in BOOLEAN
    /\ status = "up" => loaded = Len(domain_list)

DomainsInv ==
    /\ m_domains \in [Hosts -> Prefixes \cup {nullptr}]
    /\ \A h \in Hosts : m_domains[h] # nullptr => LastLister(domain_list, m_domains[h], h, loaded)

\* an entry is as configured, or what a lookup has left where there is no line
TablesInv ==
    /\ m_paths \in [Prefixes -> [Methods -> [Names -> Path \cup {Default, Absent}]]]
    /\ \A p \in Loaded, m \in Methods, n \in Names :
           \/ m_paths[p][m][n] = Table(p)[m][n]
           \/ m_paths[p][m][n] = Default /\ Table(p)[m][n] = Absent

\* no line for this very path, or none of a type that is known
NoExactLine(p, m, n) == Table(p)[m][n] = Absent \/ Table(p)[m][n].type \notin Types

\* the answer that s is about to give is promised, or it is "not found"
Justified(s) ==
    LET answer == Dispatch(s.method, s.name, s.path)
    IN  answer = NotFound \/ IsPromised(s.domain, s.method, s.name, answer)

ServerInv ==
    /\ server \in [Workers -> Server \cup {nullptr}]
    /\ \A w \in Workers : server[w] # nullptr =>
           /\ status = "up"
           /\ LastLister(domain_list, server[w].domain, server[w].host, loaded)
           /\ server[w].pc \in {"get_path", "wildcard"} => server[w].method \in Methods
           /\ server[w].pc = "wildcard" =>
                  NoExactLine(server[w].domain, server[w].method, server[w].name)
           /\ server[w].pc = "respond" => Justified(server[w])

IInv == LoadInv /\ DomainsInv /\ TablesInv /\ ServerInv
-----------------------------------------------------------------------------
(* Facts about the configuration. *)

\* The natural numbers are well ordered.
LEMMA LeastNumber ==
  ASSUME NEW S \in SUBSET Nat, S # {}
  PROVE  \E n \in S : \A m \in S : n <= m
<1> DEFINE less == {ss \in Nat \X Nat : ss[1] < ss[2]}
<1>1. IsWellFoundedOn(less, Nat)
  BY NatLessThanWellFounded DEF OpToRel
<1>2. \A m, n \in Nat : <<m, n>> \in less <=> m < n
  OBVIOUS
<1> HIDE DEF less
<1>3. PICK n \in S : \A m \in S : ~ (<<m, n>> \in less)
  BY <1>1, WFMin
<1>4. ASSUME NEW m \in S
      PROVE  n <= m
  <2>1. m \in Nat /\ n \in Nat /\ ~ (<<m, n>> \in less)
    BY <1>3
  <2>2. ~ (m < n)
    BY <1>2, <2>1
  <2> QED BY <2>1, <2>2
<1> QED BY <1>4

\* A non-empty set of positions in a list has a last one.
LEMMA LastPosition ==
  ASSUME NEW n \in Nat, NEW I \in SUBSET (1 .. n), I # {}
  PROVE  \E i \in I : \A j \in I : j <= i
<1> DEFINE D == {n - i : i \in I}
<1>1. D \in SUBSET Nat /\ D # {}
  <2>1. \A i \in I : n - i \in Nat
    OBVIOUS
  <2>2. D \in SUBSET Nat
    BY <2>1
  <2>3. D # {}
    OBVIOUS
  <2> QED BY <2>2, <2>3
<1>2. PICK d \in D : \A e \in D : d <= e
  BY <1>1, LeastNumber
<1>3. PICK i \in I : d = n - i
  BY <1>2
<1>4. ASSUME NEW j \in I
      PROVE  j <= i
  <2>1. n - j \in D
    OBVIOUS
  <2>2. n - i <= n - j
    BY <1>2, <1>3, <2>1
  <2> QED BY <1>3, <2>2
<1> QED BY <1>3, <1>4

\* Of some names one comes first in the order of std::map.
LEMMA FirstName ==
  ASSUME NEW K \in SUBSET Names, K # {}
  PROVE  \E k \in K : \A j \in K : Rank[k] <= Rank[j]
<1> DEFINE R == {Rank[k] : k \in K}
<1>1. R \in SUBSET Nat /\ R # {}
  BY RoutingAssumption
<1>2. PICK r \in R : \A q \in R : r <= q
  BY <1>1, LeastNumber
<1> QED BY <1>2

\* The table of a domain holds lines of its file.
LEMMA TableType ==
  ASSUME NEW p \in Prefixes
  PROVE  Table(p) \in [Methods -> [Names -> Path \cup {Absent}]]
<1>1. ASSUME NEW m \in Methods, NEW n \in Names, LinesFor(p, m, n) # {}
      PROVE  PathLines[p][CHOOSE i \in LinesFor(p, m, n) :
                              \A j \in LinesFor(p, m, n) : j <= i] \in Path
  <2>1. PathLines[p] \in Seq(Path \cup {Malformed})
    BY RoutingAssumption
  <2>2. LinesFor(p, m, n) \in SUBSET (1 .. Len(PathLines[p])) /\ Len(PathLines[p]) \in Nat
    BY <2>1 DEF LinesFor
  <2>3. \E i \in LinesFor(p, m, n) : \A j \in LinesFor(p, m, n) : j <= i
    BY <1>1, <2>2, LastPosition
  <2>4. \A i \in LinesFor(p, m, n) : PathLines[p][i] \in Path
    BY <2>1 DEF LinesFor
  <2> QED BY <2>3, <2>4
<1> QED BY <1>1 DEF Table

\* Only the domains of the list are loaded.
LEMMA LoadedPrefixes == LoadInv => Loaded \subseteq Prefixes
  BY RoutingAssumption DEF LoadInv, Loaded

\* A domain that lists a host is loaded.
LEMMA ListerIsLoaded ==
  ASSUME NEW p, NEW h, LastLister(domain_list, p, h, loaded)
  PROVE  p \in Loaded
  BY DEF LastLister, Loaded

\* Before anything is loaded IInv holds.
LEMMA Start == Init => IInv
<1> SUFFICES ASSUME Init
             PROVE  IInv
  OBVIOUS
<1>1. LoadInv
  <2>1. domain_list \in DomainLists /\ status = "loading" /\ loaded = 0 /\ m_error = 0
    BY DEF Init
  <2>2. raced \in BOOLEAN
    BY Zenon DEF Init
  <2>3. Len(domain_list) \in Nat
    BY <2>1, RoutingAssumption
  <2> QED BY <2>1, <2>2, <2>3 DEF LoadInv
<1>2. DomainsInv
  BY DEF Init, DomainsInv
<1>3. TablesInv
  BY DEF Init, TablesInv, Loaded
<1>4. ServerInv
  BY DEF Init, ServerInv
<1> QED BY <1>1, <1>2, <1>3, <1>4 DEF IInv
-----------------------------------------------------------------------------
\* Loading a domain, or refusing it, keeps IInv.
LEMMA LoadDomainKeeps ==
  ASSUME IInv, LoadDomain
  PROVE  IInv'
<1> DEFINE p == domain_list[loaded + 1]
<1>1. ServerInv'
  <2>1. \A w \in Workers : server[w] = nullptr
    BY DEF LoadDomain, IInv, ServerInv
  <2>2. server' = server
    BY DEF LoadDomain
  <2> QED BY <2>1, <2>2 DEF IInv, ServerInv
<1>2. CASE AbortOnUnreadable \/ RefuseMalformed
  <2>1. UNCHANGED <<domain_list, server, raced, loaded, m_domains, m_paths>>
    BY <1>2 DEF LoadDomain, AbortOnUnreadable, RefuseMalformed
  <2>2. status' \in {"loading", "abort"} /\ m_error' \in {0, 1}
    BY <1>2 DEF LoadDomain, AbortOnUnreadable, RefuseMalformed, IInv, LoadInv
  <2>3. LoadInv'
    BY <2>1, <2>2 DEF IInv, LoadInv
  <2>4. DomainsInv'
    BY <2>1 DEF IInv, DomainsInv, LastLister
  <2>5. TablesInv'
    BY <2>1 DEF IInv, TablesInv, Loaded
  <2> QED BY <1>1, <2>3, <2>4, <2>5 DEF IInv
<1>3. CASE /\ loaded' = loaded + 1 /\ m_domains' = EnterHosts(p)
           /\ m_paths' = [m_paths EXCEPT ![p] = Table(p)] /\ UNCHANGED <<status, m_error>>
  <2>1. status = "loading" /\ loaded < Len(domain_list)
        /\ UNCHANGED <<domain_list, status, server, raced>>
    BY <1>3 DEF LoadDomain
  <2>2. domain_list \in Seq(Prefixes) /\ loaded \in Nat /\ loaded + 1 \in 1 .. Len(domain_list)
    BY <2>1, RoutingAssumption DEF IInv, LoadInv
  <2>3. p \in Prefixes
    BY <2>2
  <2>4. LoadInv'
    BY <1>3, <2>1, <2>2 DEF IInv, LoadInv
  <2> HIDE DEF p
  <2>5. DomainsInv'
    <3>1. m_domains' \in [Hosts -> Prefixes \cup {nullptr}]
      BY <1>3, <2>3 DEF EnterHosts, IInv, DomainsInv
    <3>2. ASSUME NEW h \in Hosts, m_domains'[h] # nullptr
          PROVE  LastLister(domain_list, m_domains'[h], h, loaded')
      <4>1. CASE h \in Hostnames[p]
        <5>1. m_domains'[h] = p
          BY <1>3, <4>1 DEF EnterHosts
        <5>2. domain_list[loaded + 1] = p
          BY DEF p
        <5> QED BY <1>3, <2>1, <2>2, <4>1, <5>1, <5>2 DEF LastLister
      <4>2. CASE h \notin Hostnames[p]
        <5>1. m_domains'[h] = m_domains[h]
          BY <1>3, <4>2 DEF EnterHosts
        <5>2. LastLister(domain_list, m_domains[h], h, loaded)
          BY <3>2, <5>1 DEF IInv, DomainsInv
        <5>3. domain_list[loaded + 1] = p
          BY DEF p
        <5>4. \A j \in 1 .. loaded + 1 : j \in 1 .. loaded \/ j = loaded + 1
          BY <2>2
        <5>5. 1 .. loaded \subseteq 1 .. loaded + 1
          BY <2>2
        <5> QED BY <1>3, <2>1, <4>2, <5>1, <5>2, <5>3, <5>4, <5>5 DEF LastLister
      <4> QED BY <4>1, <4>2
    <3> QED BY <2>1, <3>1, <3>2 DEF DomainsInv
  <2>6. TablesInv'
    <3>1. m_paths' \in [Prefixes -> [Methods -> [Names -> Path \cup {Default, Absent}]]]
      <4>1. Table(p) \in [Methods -> [Names -> Path \cup {Default, Absent}]]
        BY <2>3, TableType
      <4> QED BY <1>3, <2>3, <4>1 DEF IInv, TablesInv
    <3>2. \A q \in Loaded' : q \in Loaded \/ q = p
      BY <1>3, <2>1, <2>2 DEF Loaded, p
    <3>3. m_paths'[p] = Table(p) /\ \A q \in Prefixes \ {p} : m_paths'[q] = m_paths[q]
      BY <1>3, <2>3 DEF IInv, TablesInv
    <3>4. Loaded \subseteq Prefixes
      BY LoadedPrefixes DEF IInv
    <3>5. ASSUME NEW q \in Loaded', NEW m \in Methods, NEW n \in Names
          PROVE  \/ m_paths'[q][m][n] = Table(q)[m][n]
                 \/ m_paths'[q][m][n] = Default /\ Table(q)[m][n] = Absent
      <4>1. CASE q = p
        BY <3>3, <4>1
      <4>2. CASE q # p
        <5>1. q \in Loaded /\ m_paths'[q] = m_paths[q]
          BY <3>2, <3>3, <3>4, <4>2
        <5> QED BY <5>1 DEF IInv, TablesInv
      <4> QED BY <4>1, <4>2
    <3> QED BY <3>1, <3>5 DEF TablesInv
  <2> QED BY <1>1, <2>4, <2>5, <2>6 DEF IInv
<1> QED BY <1>2, <1>3, Zenon DEF LoadDomain

\* main() goes on to its loop, or exits.
LEMMA StartUpKeeps ==
  ASSUME IInv, StartUp
  PROVE  IInv'
<1>1. UNCHANGED <<domain_list, loaded, m_error, m_domains, m_paths, server, raced>>
      /\ status = "loading"
  BY DEF StartUp
<1>2. LoadInv'
  BY DEF StartUp, IInv, LoadInv
<1>3. DomainsInv'
  BY <1>1 DEF IInv, DomainsInv, LastLister
<1>4. TablesInv'
  BY <1>1 DEF IInv, TablesInv, Loaded
<1>5. \A w \in Workers : server[w] = nullptr
  BY <1>1 DEF IInv, ServerInv
<1>6. ServerInv'
  BY <1>1, <1>5 DEF IInv, ServerInv
<1> QED BY <1>2, <1>3, <1>4, <1>6 DEF IInv
-----------------------------------------------------------------------------
(* server::handle.  The steps of a request leave the configuration and the *)
(* hosts alone.                                                            *)

\* What no step of a request changes.
LEMMA HandleKeepsHosts ==
  ASSUME IInv, UNCHANGED <<domain_list, status, loaded, m_error, m_domains>>,
         raced' \in BOOLEAN
  PROVE  LoadInv' /\ DomainsInv'
  BY DEF IInv, LoadInv, DomainsInv

\* A worker's request, and the entry it looks up.
LEMMA RequestType ==
  ASSUME IInv, NEW w \in Workers, At(w, {"get_path", "wildcard"})
  PROVE  /\ server[w] \in Server
         /\ server[w].domain \in Prefixes /\ server[w].domain \in Loaded
         /\ server[w].method \in Methods /\ server[w].name \in Names
<1>1. server[w] # nullptr /\ server[w].pc \in {"get_path", "wildcard"}
  BY DEF At
<1>2. server[w] \in Server
  BY <1>1 DEF IInv, ServerInv
<1>3. server[w].domain \in Prefixes /\ server[w].name \in Names
  BY <1>2 DEF Server
<1>4. server[w].method \in Methods /\ LastLister(domain_list, server[w].domain, server[w].host, loaded)
  BY <1>1 DEF IInv, ServerInv
<1> QED BY <1>2, <1>3, <1>4, ListerIsLoaded

\* A step of one request leaves the others as they are.
LEMMA ServerUpdate ==
  ASSUME IInv, NEW w \in Workers, server[w] # nullptr, NEW s \in Server,
         server' = [server EXCEPT ![w] = s],
         UNCHANGED <<domain_list, status, loaded>>,
         s.domain = server[w].domain, s.host = server[w].host, s.method = server[w].method,
         s.pc \in {"wildcard", "respond"}, server[w].method \in Methods,
         s.pc = "wildcard" => NoExactLine(s.domain, s.method, s.name),
         s.pc = "respond" => Justified(s)
  PROVE  ServerInv'
<1>1. server' \in [Workers -> Server \cup {nullptr}]
  BY DEF IInv, ServerInv
<1>2. server'[w] = s /\ \A v \in Workers \ {w} : server'[v] = server[v]
  BY DEF IInv, ServerInv
<1>3. LastLister(domain_list, s.domain, s.host, loaded) /\ status = "up"
  BY DEF IInv, ServerInv
<1> QED BY <1>1, <1>2, <1>3 DEF IInv, ServerInv

\* A line for the path itself whose type is known is what is promised.
LEMMA ExactJustified ==
  ASSUME NEW s \in Server, s.method \in Methods,
         s.path = Table(s.domain)[s.method][s.name], s.path # Absent, s.path.type \in Types
  PROVE  Justified(s)
  BY DEF Justified, IsPromised

\* Nothing found is answered with "not found", or as a static file, which
\* every path below "/static/" is promised.
LEMMA DefaultJustified ==
  ASSUME NEW s \in Server, s.method \in Methods, s.path = Default
  PROVE  Justified(s)
<1>1. CASE s.method = "get" /\ s.name \in StaticNames
  <2>1. \A path : Dispatch(s.method, s.name, path) = Static
    BY <1>1 DEF Dispatch
  <2> DEFINE ks == ConfiguredStar(s.domain, s.method, s.name)
  <2>2. ks \in SUBSET Names
    BY RoutingAssumption DEF ConfiguredStar
  <2>3. ks # {} => \E k \in ks : \A j \in ks : Rank[k] <= Rank[j]
    BY <2>2, FirstName
  <2> HIDE DEF ks
  <2>4. IsPromised(s.domain, s.method, s.name, Static)
    BY <2>1, <2>3 DEF IsPromised, ks
  <2> QED BY <2>1, <2>4 DEF Justified
<1>2. CASE ~ (s.method = "get" /\ s.name \in StaticNames)
  BY <1>2 DEF Justified, Dispatch
<1> QED BY <1>1, <1>2

\* The first wildcard line that covers the path is what is promised to a
\* request without a line of its own.
LEMMA WildcardJustified ==
  ASSUME NEW s \in Server, s.method \in Methods, NoExactLine(s.domain, s.method, s.name),
         NEW k \in ConfiguredStar(s.domain, s.method, s.name),
         \A j \in ConfiguredStar(s.domain, s.method, s.name) : Rank[k] <= Rank[j],
         s.path = Table(s.domain)[s.method][k]
  PROVE  Justified(s)
<1> DEFINE exact == Table(s.domain)[s.method][s.name]
<1> DEFINE answer == Dispatch(s.method, s.name, s.path)
<1>1. ~ (exact # Absent /\ exact.type \in Types)
  BY DEF NoExactLine
<1> HIDE DEF exact
<1>2. IsPromised(s.domain, s.method, s.name, answer)
  BY <1>1 DEF IsPromised, exact
<1> QED BY <1>2 DEF Justified

\* A request is given the domain its host belongs to.
LEMMA ReceiveKeeps ==
  ASSUME IInv, NEW w \in Workers, NEW h \in Hosts, NEW m \in Methods \cup {"unknown"},
         NEW n \in Names, Receive(w, h, m, n)
  PROVE  IInv'
<1> DEFINE s == [pc |-> IF m \in Methods THEN "get_path" ELSE "respond",
                 host |-> h, domain |-> m_domains[h], method |-> m, name |-> n,
                 path |-> Default]
<1>1. /\ status = "up" /\ m_domains[h] # nullptr /\ server' = [server EXCEPT ![w] = s]
      /\ UNCHANGED <<domain_list, status, loaded, m_error, m_domains, m_paths, raced>>
  BY DEF Receive
<1>2. m_domains[h] \in Prefixes /\ LastLister(domain_list, m_domains[h], h, loaded)
  BY <1>1 DEF IInv, DomainsInv
<1>3. s \in Server
  BY <1>2 DEF Server
<1>4. s.pc = "respond" => Justified(s)
  BY RoutingAssumption DEF Justified, Dispatch, Methods
<1>5. /\ s.pc \in {"get_path", "respond"} /\ s.domain = m_domains[h] /\ s.host = h
      /\ s.pc = "get_path" => s.method \in Methods
  OBVIOUS
<1> HIDE DEF s
<1>6. server'[w] = s /\ \A v \in Workers \ {w} : server'[v] = server[v]
  BY <1>1 DEF IInv, ServerInv
<1>7. server' \in [Workers -> Server \cup {nullptr}]
  BY <1>1, <1>3 DEF IInv, ServerInv
<1>8. ServerInv'
  BY <1>1, <1>2, <1>4, <1>5, <1>6, <1>7 DEF IInv, ServerInv
<1>9. LoadInv' /\ DomainsInv'
  BY <1>1, HandleKeepsHosts DEF IInv, LoadInv
<1>10. TablesInv'
  BY <1>1 DEF IInv, TablesInv, Loaded
<1> QED BY <1>8, <1>9, <1>10 DEF IInv

\* A lookup adds an entry only where the configuration has none.
LEMMA GetPathKeeps ==
  ASSUME IInv, NEW w \in Workers, GetPath(w)
  PROVE  IInv'
<1> DEFINE p == server[w].domain
<1> DEFINE m == server[w].method
<1> DEFINE n == server[w].name
<1>1. /\ StoreFound(w) /\ At(w, {"get_path"})
      /\ server' = [server EXCEPT ![w].path = Found(w),
                                  ![w].pc = IF Known(Found(w)) THEN "respond" ELSE "wildcard"]
      /\ UNCHANGED <<domain_list, status, loaded, m_error, m_domains>>
  BY DEF GetPath
<1>2. raced' \in BOOLEAN
  BY Zenon DEF GetPath, Inserts, MayRace
<1>3. server[w] \in Server /\ p \in Prefixes /\ p \in Loaded /\ m \in Methods /\ n \in Names
  BY <1>1, RequestType DEF At
<1>4. \/ Entry(w) = Table(p)[m][n]
      \/ Entry(w) = Default /\ Table(p)[m][n] = Absent
  BY <1>3 DEF Entry, IInv, TablesInv
<1>5. Table(p)[m][n] \in Path \cup {Absent}
  BY <1>3, TableType
<1>6. TablesInv'
  <2>1. CASE Entry(w) = Absent
    <3>1. Table(p)[m][n] = Absent
      BY <1>4, <2>1
    <3>2. m_paths' = [m_paths EXCEPT ![p][m][n] = Default]
      BY <1>1, <2>1 DEF StoreFound, Inserts, Found
    <3> HIDE DEF p, m, n
    <3>3. m_paths' \in [Prefixes -> [Methods -> [Names -> Path \cup {Default, Absent}]]]
      BY <1>3, <3>2 DEF IInv, TablesInv
    <3>4. m_paths'[p][m][n] = Default
      BY <1>3, <3>2 DEF IInv, TablesInv
    <3>5. \A q \in Prefixes, l \in Methods, k \in Names :
             q # p \/ l # m \/ k # n => m_paths'[q][l][k] = m_paths[q][l][k]
      BY <1>3, <3>2 DEF IInv, TablesInv
    <3>6. Loaded' = Loaded /\ Loaded \subseteq Prefixes
      BY <1>1, LoadedPrefixes DEF Loaded, IInv
    <3> QED BY <3>1, <3>3, <3>4, <3>5, <3>6 DEF IInv, TablesInv
  <2>2. CASE Entry(w) # Absent
    <3>1. m_paths' = m_paths
      BY <1>1, <2>2 DEF StoreFound, Inserts
    <3> QED BY <1>1, <3>1 DEF IInv, TablesInv, Loaded
  <2> QED BY <2>1, <2>2
<1>7. ServerInv'
  <2> DEFINE s == [server[w] EXCEPT !.path = Found(w),
                                    !.pc = IF Known(Found(w)) THEN "respond" ELSE "wildcard"]
  <2>1. Found(w) \in Path \cup {Default}
    BY <1>4, <1>5 DEF Found
  <2>2. /\ s \in Server /\ s.domain = p /\ s.host = server[w].host /\ s.method = m
        /\ s.name = n /\ s.path = Found(w)
        /\ s.pc = IF Known(Found(w)) THEN "respond" ELSE "wildcard"
    BY <1>3, <2>1 DEF Server
  <2>3. server' = [server EXCEPT ![w] = s]
    BY <1>1 DEF IInv, ServerInv
  <2>4. Known(Found(w)) => /\ Found(w) = Table(p)[m][n] /\ Found(w) # Absent
                           /\ Found(w).type \in Types
    BY <1>4 DEF Found, Known
  <2>5. ~ Known(Found(w)) => NoExactLine(p, m, n)
    BY <1>4, <1>5, RoutingAssumption DEF Found, Known, NoExactLine
  <2> HIDE DEF s, p, m, n
  <2>6. s.pc = "respond" => Justified(s)
    BY <1>3, <2>2, <2>4, ExactJustified
  <2>7. s.pc = "wildcard" => NoExactLine(s.domain, s.method, s.name)
    BY <2>2, <2>5
  <2>8. server[w] # nullptr
    BY <1>1 DEF At
  <2>9. s.domain = server[w].domain /\ s.method = server[w].method
        /\ server[w].method \in Methods
    BY <1>3, <2>2 DEF p, m
  <2> QED BY <1>1, <2>2, <2>3, <2>6, <2>7, <2>8, <2>9, ServerUpdate
<1>8. LoadInv' /\ DomainsInv'
  BY <1>1, <1>2, HandleKeepsHosts
<1> QED BY <1>6, <1>7, <1>8 DEF IInv

\* The wildcard that is found first is the configured one, or a leftover that
\* answers nothing.
LEMMA FindWildcardKeeps ==
  ASSUME IInv, NEW w \in Workers, FindWildcard(w)
  PROVE  IInv'
<1> DEFINE p == server[w].domain
<1> DEFINE m == server[w].method
<1> DEFINE n == server[w].name
<1> DEFINE ks == Candidates(p, m, n)
<1>1. /\ At(w, {"wildcard"})
      /\ UNCHANGED <<domain_list, status, loaded, m_error, m_domains, m_paths, raced>>
  BY DEF FindWildcard
<1>2. server[w] \in Server /\ p \in Prefixes /\ p \in Loaded /\ m \in Methods /\ n \in Names
  BY <1>1, RequestType DEF At
<1>3. PICK path : /\ server' = [server EXCEPT ![w].path = path, ![w].pc = "respond"]
                  /\ \/ path = Default
                     \/ \E k \in Starred : Foremost(k, ks) /\ path = m_paths[p][m][k]
  BY DEF FindWildcard
<1> DEFINE s == [server[w] EXCEPT !.path = path, !.pc = "respond"]
<1>4. \A k \in Starred : \/ m_paths[p][m][k] = Table(p)[m][k]
                         \/ m_paths[p][m][k] = Default /\ Table(p)[m][k] = Absent
  BY <1>2, RoutingAssumption DEF IInv, TablesInv
<1>5. path = Default
      \/ \E k \in ConfiguredStar(p, m, n) :
            /\ \A j \in ConfiguredStar(p, m, n) : Rank[k] <= Rank[j]
            /\ path = Table(p)[m][k]
  <2>1. ASSUME NEW k \in Starred, Foremost(k, ks), path = m_paths[p][m][k], path # Default
        PROVE  /\ k \in ConfiguredStar(p, m, n) /\ path = Table(p)[m][k]
               /\ \A j \in ConfiguredStar(p, m, n) : Rank[k] <= Rank[j]
    <3>1. k \in ks /\ \A j \in ks : Rank[k] <= Rank[j]
      BY <2>1 DEF Foremost
    <3>2. path = Table(p)[m][k]
      BY <1>4, <2>1
    <3>3. k \in ConfiguredStar(p, m, n)
      BY <2>1, <3>1, <3>2 DEF Candidates, ConfiguredStar
    <3>4. \A j \in ConfiguredStar(p, m, n) : j \in ks
      BY <1>4 DEF Candidates, ConfiguredStar
    <3> QED BY <3>1, <3>2, <3>3, <3>4
  <2> QED BY <1>3, <2>1
<1>6. path \in Path \cup {Default}
  <2>1. \A k \in ConfiguredStar(p, m, n) : Table(p)[m][k] \in Path
    BY <1>2, TableType, RoutingAssumption DEF ConfiguredStar
  <2> QED BY <1>5, <2>1
<1>7. /\ s \in Server /\ s.domain = p /\ s.host = server[w].host /\ s.method = m
      /\ s.name = n /\ s.path = path /\ s.pc = "respond"
  BY <1>2, <1>6 DEF Server
<1>8. server' = [server EXCEPT ![w] = s] /\ server[w] # nullptr
  BY <1>1, <1>3 DEF At, IInv, ServerInv
<1>9. NoExactLine(p, m, n)
  BY <1>1 DEF At, IInv, ServerInv
<1>10. s.domain = server[w].domain /\ s.method = server[w].method
       /\ server[w].method \in Methods
  BY <1>2, <1>7
<1> HIDE DEF s, p, m, n, ks
<1>11. Justified(s)
  BY <1>2, <1>5, <1>7, <1>9, DefaultJustified, WildcardJustified
<1>12. ServerInv'
  BY <1>1, <1>7, <1>8, <1>10, <1>11, ServerUpdate
<1>13. LoadInv' /\ DomainsInv'
  BY <1>1, HandleKeepsHosts DEF IInv, LoadInv
<1>14. TablesInv'
  BY <1>1 DEF IInv, TablesInv, Loaded
<1> QED BY <1>12, <1>13, <1>14 DEF IInv

\* A worker that has answered is free again.
LEMMA RespondKeeps ==
  ASSUME IInv, NEW w \in Workers, Respond(w)
  PROVE  IInv'
<1>1. /\ server' = [server EXCEPT ![w] = nullptr]
      /\ UNCHANGED <<domain_list, status, loaded, m_error, m_domains, m_paths, raced>>
  BY DEF Respond
<1>2. ServerInv'
  <2>1. server' \in [Workers -> Server \cup {nullptr}] /\ server'[w] = nullptr
        /\ \A v \in Workers \ {w} : server'[v] = server[v]
    BY <1>1 DEF IInv, ServerInv
  <2> QED BY <1>1, <2>1 DEF IInv, ServerInv
<1>3. LoadInv' /\ DomainsInv'
  BY <1>1, HandleKeepsHosts DEF IInv, LoadInv
<1>4. TablesInv'
  BY <1>1 DEF IInv, TablesInv, Loaded
<1> QED BY <1>2, <1>3, <1>4 DEF IInv
-----------------------------------------------------------------------------
\* IInv is inductive: loading and handling requests keep it.
LEMMA Inductive == IInv /\ [Next]_vars => IInv'
<1> SUFFICES ASSUME IInv, [Next]_vars
             PROVE  IInv'
  OBVIOUS
<1>1. CASE UNCHANGED vars
  <2>1. UNCHANGED <<domain_list, status, loaded, m_error, m_domains, m_paths, server, raced>>
    BY <1>1 DEF vars
  <2>2. LoadInv' /\ DomainsInv'
    BY <2>1, HandleKeepsHosts DEF IInv, LoadInv
  <2>3. TablesInv' /\ ServerInv'
    BY <2>1 DEF IInv, TablesInv, ServerInv, Loaded
  <2> QED BY <2>2, <2>3 DEF IInv
<1>2. CASE Next
  BY <1>2, LoadDomainKeeps, StartUpKeeps, ReceiveKeeps, GetPathKeeps, FindWildcardKeeps,
     RespondKeeps DEF Next
<1> QED BY <1>1, <1>2

\* IInv holds in every reachable state.
LEMMA Reachable == Spec => []IInv
  BY Start, Inductive, PTL DEF Spec

\* The hosts, the tables and every worker's request are what their classes
\* allow.
THEOREM TypeCorrect == Spec => []TypeOK
<1>1. IInv => TypeOK
  BY DEF IInv, LoadInv, DomainsInv, TablesInv, ServerInv, TypeOK
<1> QED BY <1>1, Reachable, PTL

\* A configured route stays what the configuration says, whatever is looked
\* up (get_path is m_paths[method][path], domain.cpp).
THEOREM ConfiguredRoutesStable == Spec => []RoutesStable
<1>1. IInv => RoutesStable
  BY DEF IInv, TablesInv, RoutesStable
<1> QED BY <1>1, Reachable, PTL

\* A request is routed by the last domain in domains.wl that lists its host.
THEOREM RightDomain == Spec => []RoutedByItsDomain
<1>1. IInv => RoutedByItsDomain
  <2> SUFFICES ASSUME IInv, NEW w \in Workers, server[w] # nullptr
               PROVE  \E i \in DOMAIN domain_list :
                         /\ domain_list[i] = server[w].domain
                         /\ server[w].host \in Hostnames[domain_list[i]]
                         /\ \A j \in DOMAIN domain_list :
                                j > i => server[w].host \notin Hostnames[domain_list[j]]
    BY DEF RoutedByItsDomain
  <2>1. LastLister(domain_list, server[w].domain, server[w].host, Len(domain_list))
    BY DEF IInv, ServerInv, LoadInv
  <2>2. DOMAIN domain_list = 1 .. Len(domain_list)
    BY RoutingAssumption DEF IInv, LoadInv
  <2> QED BY <2>1, <2>2 DEF LastLister
<1> QED BY <1>1, Reachable, PTL

\* Whatever was requested before, the answer to a request is the one the
\* configuration promises, or "not found".
THEOREM NoWrongAnswer == Spec => []NeverMisrouted
<1>1. IInv => NeverMisrouted
  BY DEF IInv, ServerInv, Justified, NeverMisrouted, Settled, At, Answer
<1> QED BY <1>1, Reachable, PTL
-----------------------------------------------------------------------------
(* The leftovers of lookups: what they cannot do as long as none of them   *)
(* ends in "*".                                                            *)

Promised(s) == IsPromised(s.domain, s.method, s.name, Dispatch(s.method, s.name, s.path))

StarLeft(tables, p, m) == m \in Methods /\ \E k \in Starred : tables[p][m][k] = Default

LeftoversInv ==
    \A w \in Workers : server[w] # nullptr /\ server[w].pc = "respond" =>
        StarLeft(m_paths, server[w].domain, server[w].method) \/ Promised(server[w])

\* Without a line of its own and without a wildcard line that covers it, a
\* request is promised what a path that is not found is.
LEMMA NothingPromised ==
  ASSUME NEW s \in Server, s.method \in Methods, NoExactLine(s.domain, s.method, s.name),
         ConfiguredStar(s.domain, s.method, s.name) = {}, s.path = Default
  PROVE  Promised(s)
  BY DEF Promised, IsPromised, NoExactLine

\* A line for the path itself is what is promised.
LEMMA ExactPromised ==
  ASSUME NEW s \in Server, s.method \in Methods,
         s.path = Table(s.domain)[s.method][s.name], s.path # Absent, s.path.type \in Types
  PROVE  Promised(s)
  BY DEF Promised, IsPromised

\* The first wildcard line that covers the path is what is promised.
LEMMA WildcardPromised ==
  ASSUME NEW s \in Server, s.method \in Methods, NoExactLine(s.domain, s.method, s.name),
         NEW k \in ConfiguredStar(s.domain, s.method, s.name),
         \A j \in ConfiguredStar(s.domain, s.method, s.name) : Rank[k] <= Rank[j],
         s.path = Table(s.domain)[s.method][k]
  PROVE  Promised(s)
<1> DEFINE exact == Table(s.domain)[s.method][s.name]
<1>1. ~ (exact # Absent /\ exact.type \in Types)
  BY DEF NoExactLine
<1> HIDE DEF exact
<1> QED BY <1>1 DEF Promised, IsPromised, exact

\* A lookup takes no leftover away: it writes only where nothing is.
LEMMA LookupKeepsLeftovers ==
  ASSUME IInv, NEW w \in Workers, GetPath(w)
  PROVE  \A p \in Prefixes, m \in Methods, n \in Names :
            m_paths[p][m][n] = Default => m_paths'[p][m][n] = Default
<1>1. At(w, {"get_path"}) /\ StoreFound(w)
  BY DEF GetPath
<1>2. /\ server[w].domain \in Prefixes /\ server[w].method \in Methods
      /\ server[w].name \in Names
  BY <1>1, RequestType DEF At
<1>3. CASE Entry(w) = Absent
  <2>1. m_paths' = [m_paths EXCEPT
                       ![server[w].domain][server[w].method][server[w].name] = Default]
    BY <1>1, <1>3 DEF StoreFound, Inserts, Found
  <2> QED BY <1>2, <2>1 DEF IInv, TablesInv
<1>4. CASE Entry(w) # Absent
  BY <1>1, <1>4 DEF StoreFound, Inserts
<1> QED BY <1>3, <1>4

\* A worker's step keeps LeftoversInv if it keeps the leftovers and the worker
\* itself, when it is about to answer, has a leftover star or what is promised.
LEMMA LeftoversUpdate ==
  ASSUME IInv, LeftoversInv, NEW w \in Workers, server' \in [Workers -> Server \cup {nullptr}],
         \A v \in Workers \ {w} : server'[v] = server[v],
         \A p \in Prefixes, m \in Methods, n \in Names :
            m_paths[p][m][n] = Default => m_paths'[p][m][n] = Default,
         server'[w] # nullptr /\ server'[w].pc = "respond" =>
            StarLeft(m_paths', server'[w].domain, server'[w].method) \/ Promised(server'[w])
  PROVE  LeftoversInv'
<1>1. \A m : \A p \in Prefixes : StarLeft(m_paths, p, m) => StarLeft(m_paths', p, m)
  BY RoutingAssumption DEF StarLeft
<1>2. ASSUME NEW v \in Workers \ {w}, server[v] # nullptr, server[v].pc = "respond"
      PROVE  StarLeft(m_paths', server[v].domain, server[v].method) \/ Promised(server[v])
  <2>1. server[v] \in Server /\ server[v].domain \in Prefixes
    BY <1>2 DEF IInv, ServerInv, Server
  <2>2. StarLeft(m_paths, server[v].domain, server[v].method) \/ Promised(server[v])
    BY <1>2 DEF LeftoversInv
  <2> QED BY <1>1, <2>1, <2>2
<1> QED BY <1>2 DEF LeftoversInv

\* A lookup that finds a line goes on to the answer that is promised.
LEMMA GetPathKeepsLeftovers ==
  ASSUME IInv, LeftoversInv, NEW w \in Workers, GetPath(w)
  PROVE  LeftoversInv'
<1> DEFINE p == server[w].domain
<1> DEFINE m == server[w].method
<1> DEFINE n == server[w].name
<1> DEFINE s == [server[w] EXCEPT !.path = Found(w),
                                  !.pc = IF Known(Found(w)) THEN "respond" ELSE "wildcard"]
<1>1. /\ At(w, {"get_path"})
      /\ server' = [server EXCEPT ![w].path = Found(w),
                                  ![w].pc = IF Known(Found(w)) THEN "respond" ELSE "wildcard"]
  BY DEF GetPath
<1>2. server[w] \in Server /\ p \in Prefixes /\ p \in Loaded /\ m \in Methods /\ n \in Names
  BY <1>1, RequestType DEF At
<1>3. \/ Entry(w) = Table(p)[m][n]
      \/ Entry(w) = Default /\ Table(p)[m][n] = Absent
  BY <1>2 DEF Entry, IInv, TablesInv
<1>4. Known(Found(w)) => /\ Found(w) = Table(p)[m][n] /\ Found(w) # Absent
                         /\ Found(w).type \in Types
  BY <1>3 DEF Found, Known
<1>5. Table(p)[m][n] \in Path \cup {Absent}
  BY <1>2, TableType
<1>6. Found(w) \in Path \cup {Default}
  BY <1>3, <1>5 DEF Found
<1>7. /\ s \in Server /\ s.domain = p /\ s.method = m /\ s.name = n /\ s.path = Found(w)
      /\ s.pc = "respond" => Known(Found(w))
  BY <1>2, <1>6 DEF Server
<1>8. /\ server' \in [Workers -> Server \cup {nullptr}] /\ server'[w] = s
      /\ \A v \in Workers \ {w} : server'[v] = server[v]
  BY <1>1, <1>7 DEF IInv, ServerInv
<1> HIDE DEF s, p, m, n
<1>9. s.pc = "respond" => Promised(s)
  BY <1>2, <1>4, <1>7, ExactPromised
<1> QED BY <1>8, <1>9, LookupKeepsLeftovers, LeftoversUpdate

\* The first entry that covers the path is a leftover star or promised, and
\* if there is none then nothing is promised.
LEMMA FindWildcardKeepsLeftovers ==
  ASSUME IInv, LeftoversInv, NEW w \in Workers, FindWildcard(w)
  PROVE  LeftoversInv'
<1> DEFINE p == server[w].domain
<1> DEFINE m == server[w].method
<1> DEFINE n == server[w].name
<1> DEFINE ks == Candidates(p, m, n)
<1>1. At(w, {"wildcard"}) /\ m_paths' = m_paths
  BY DEF FindWildcard
<1>2. server[w] \in Server /\ p \in Prefixes /\ p \in Loaded /\ m \in Methods /\ n \in Names
  BY <1>1, RequestType DEF At
<1>3. PICK path : /\ server' = [server EXCEPT ![w].path = path, ![w].pc = "respond"]
                  /\ \/ ks = {} /\ path = Default
                     \/ \E k \in Starred : Foremost(k, ks) /\ path = m_paths[p][m][k]
  BY DEF FindWildcard
<1> DEFINE s == [server[w] EXCEPT !.path = path, !.pc = "respond"]
<1>4. \A k \in Starred : \/ m_paths[p][m][k] = Table(p)[m][k]
                         \/ m_paths[p][m][k] = Default /\ Table(p)[m][k] = Absent
  BY <1>2, RoutingAssumption DEF IInv, TablesInv
<1>5. \A k \in ConfiguredStar(p, m, n) : k \in ks /\ m_paths[p][m][k] = Table(p)[m][k]
  BY <1>4 DEF Candidates, ConfiguredStar
<1>6. \A k \in ks : k \in Starred /\ m_paths[p][m][k] # Absent /\ n \in Covers[k]
  BY DEF Candidates
<1>7. path \in Path \cup {Default}
  <2>1. ASSUME NEW k \in Starred, Foremost(k, ks), path = m_paths[p][m][k]
        PROVE  path \in Path \cup {Default}
    <3>1. k \in ks
      BY <2>1 DEF Foremost
    <3>2. m_paths[p][m][k] \in Path \cup {Default, Absent}
      BY <1>2, RoutingAssumption DEF IInv, TablesInv
    <3> QED BY <1>6, <2>1, <3>1, <3>2
  <2> QED BY <1>3, <2>1
<1>8. /\ s \in Server /\ s.domain = p /\ s.method = m /\ s.name = n /\ s.path = path
      /\ s.pc = "respond"
  BY <1>2, <1>7 DEF Server
<1>9. /\ server' \in [Workers -> Server \cup {nullptr}] /\ server'[w] = s
      /\ \A v \in Workers \ {w} : server'[v] = server[v]
  BY <1>3, <1>8 DEF IInv, ServerInv
<1>10. NoExactLine(p, m, n)
  BY <1>1 DEF At, IInv, ServerInv
<1> HIDE DEF s, p, m, n, ks
<1>11. CASE ks = {} /\ path = Default
  <2>1. ConfiguredStar(p, m, n) = {}
    BY <1>5, <1>11
  <2>2. Promised(s)
    BY <1>2, <1>8, <1>10, <1>11, <2>1, NothingPromised
  <2> QED BY <1>1, <1>9, <2>2, LeftoversUpdate
<1>12. ASSUME NEW k \in Starred, Foremost(k, ks), path = m_paths[p][m][k]
       PROVE  LeftoversInv'
  <2>1. k \in ks /\ \A j \in ks : Rank[k] <= Rank[j]
    BY <1>12 DEF Foremost
  <2>2. CASE m_paths[p][m][k] = Default
    <3>1. StarLeft(m_paths', p, m)
      BY <1>1, <1>2, <2>2 DEF StarLeft
    <3> QED BY <1>1, <1>8, <1>9, <3>1, LeftoversUpdate
  <2>3. CASE m_paths[p][m][k] # Default
    <3>1. path = Table(p)[m][k] /\ k \in ConfiguredStar(p, m, n)
      BY <1>4, <1>6, <1>12, <2>1, <2>3 DEF ConfiguredStar
    <3>2. \A j \in ConfiguredStar(p, m, n) : Rank[k] <= Rank[j]
      BY <1>5, <2>1
    <3>3. Promised(s)
      BY <1>2, <1>8, <1>10, <3>1, <3>2, WildcardPromised
    <3> QED BY <1>1, <1>9, <3>3, LeftoversUpdate
  <2> QED BY <2>2, <2>3
<1> QED BY <1>3, <1>11, <1>12

\* A request of another method is promised "not found".
LEMMA ReceiveKeepsLeftovers ==
  ASSUME IInv, LeftoversInv, NEW w \in Workers, NEW h \in Hosts,
         NEW m \in Methods \cup {"unknown"}, NEW n \in Names, Receive(w, h, m, n)
  PROVE  LeftoversInv'
<1> DEFINE s == [pc |-> IF m \in Methods THEN "get_path" ELSE "respond",
                 host |-> h, domain |-> m_domains[h], method |-> m, name |-> n,
                 path |-> Default]
<1>1. /\ m_domains[h] # nullptr /\ server' = [server EXCEPT ![w] = s] /\ m_paths' = m_paths
  BY DEF Receive
<1>2. m_domains[h] \in Prefixes
  BY <1>1 DEF IInv, DomainsInv
<1>3. s \in Server
  BY <1>2 DEF Server
<1>4. s.pc = "respond" => Promised(s)
  BY RoutingAssumption DEF Promised, IsPromised, Dispatch, Methods
<1> HIDE DEF s
<1>5. /\ server' \in [Workers -> Server \cup {nullptr}] /\ server'[w] = s
      /\ \A v \in Workers \ {w} : server'[v] = server[v]
  BY <1>1, <1>3 DEF IInv, ServerInv
<1> QED BY <1>1, <1>4, <1>5, LeftoversUpdate

\* Every step keeps LeftoversInv.
LEMMA LeftoversInductive == IInv /\ LeftoversInv /\ [Next]_vars => LeftoversInv'
<1> SUFFICES ASSUME IInv, LeftoversInv, [Next]_vars
             PROVE  LeftoversInv'
  OBVIOUS
<1>1. CASE UNCHANGED vars
  BY <1>1 DEF vars, LeftoversInv
<1>2. CASE LoadDomain \/ StartUp
  <2>1. \A w \in Workers : server[w] = nullptr
    BY <1>2 DEF LoadDomain, StartUp, IInv, ServerInv
  <2>2. server' = server
    BY <1>2 DEF LoadDomain, StartUp
  <2> QED BY <2>1, <2>2 DEF LeftoversInv
<1>3. ASSUME NEW w \in Workers, Respond(w)
      PROVE  LeftoversInv'
  <2>1. server' = [server EXCEPT ![w] = nullptr] /\ m_paths' = m_paths
    BY <1>3 DEF Respond
  <2>2. /\ server' \in [Workers -> Server \cup {nullptr}] /\ server'[w] = nullptr
        /\ \A v \in Workers \ {w} : server'[v] = server[v]
    BY <2>1 DEF IInv, ServerInv
  <2> QED BY <2>1, <2>2, LeftoversUpdate
<1>4. CASE Next
  BY <1>2, <1>3, <1>4, ReceiveKeepsLeftovers, GetPathKeepsLeftovers,
     FindWildcardKeepsLeftovers DEF Next
<1> QED BY <1>1, <1>4

\* What lookups of unknown paths leave behind changes no answer, as long as
\* none of it ends in a star (domain::find_wildcard_path).
THEOREM LeftoversHarmless == Spec => []PlainLeftoversHarmless
<1>1. Init => LeftoversInv
  BY DEF Init, LeftoversInv
<1>2. LeftoversInv => PlainLeftoversHarmless
  BY DEF LeftoversInv, PlainLeftoversHarmless, StarLeft, Promised, Settled, At, Answer
<1> QED BY <1>1, <1>2, LeftoversInductive, Reachable, PTL DEF Spec
=============================================================================
