------------------------- MODULE FileResponseProofs -------------------------
(***************************************************************************)
(* Proofs about FileResponse: every reachable state is well typed, the     *)
(* cache's content is never older than the hour and what a worker took,    *)
(* and a wrong 304 has one of the causes that are named.                   *)
(***************************************************************************)
EXTENDS FileResponse, TLAPS

WorldInv ==
    /\ clock \in Time
    /\ file \in [Files -> [content : Versions \cup {Empty, Missing}, mtime : Time]]
    /\ \A f \in Files : file[f].mtime <= clock
    /\ raced \in BOOLEAN /\ rushed \in BOOLEAN

\* what a file contains has not been replaced, and is no other file's
OwnerInv ==
    /\ replaced \in [Versions -> 0 .. MaxTime + 1]
    /\ owner \in [Versions -> Files \cup {nullptr}]
    /\ \A v \in Versions : owner[v] = nullptr => replaced[v] = MaxTime + 1
    /\ \A f \in Files : file[f].content \in Versions =>
           owner[file[f].content] = f /\ replaced[file[f].content] = MaxTime + 1

CacheInv ==
    /\ m_cache \in [Keys -> CacheEntry \cup {nullptr}]
    /\ \A k \in Keys : m_cache[k] # nullptr =>
           /\ m_cache[k].expiration <= clock + TTL
           /\ m_cache[k].data \in Versions =>
                  m_cache[k].expiration <= replaced[m_cache[k].data] + m_cache[k].lag + TTL

\* content v goes with time t: it is in f, since t or later, or f has changed
\* after t; two changes within a second are the exception
Fits(f, v, t) ==
    \/ rushed
    \/ file[f].content = v /\ t <= file[f].mtime
    \/ t < file[f].mtime

CopyFits(k, c) ==
    /\ c.cached \/ c.foreign \/ Fits(FileOf[k], c.data, c.modification_time)
    /\ c.foreign \/ c.stamp = LocalTime(c.modification_time)

CopyInv ==
    /\ copy \in [Static -> Copy \cup {nullptr}]
    /\ \A k \in Static : copy[k] # nullptr => CopyFits(k, copy[k])

Sent200(s) == s.pc = "send" /\ s.code = "200"

\* what is true of a request, s, as long as it is handled
Sound(s) ==
    /\ s.read_at <= clock
    /\ s.held # nullptr => s.key \in Static /\ CopyFits(s.key, s.held)
    /\ s.pc = "get_data" => m_cache[s.key] \in CacheEntry
    /\ s.pc \in {"is_expired", "get_data", "read"} /\ s.key \in Static =>
           s.modification_time <= file[FileOf[s.key]].mtime
    /\ s.pc = "set" =>
           s.data # Missing /\ (s.data \in Versions => s.read_at <= replaced[s.data])
    /\ s.pc = "stamp" \/ Sent200(s) => s.data \in Versions
    /\ (s.pc \in {"set", "stamp"} \/ Sent200(s))
       /\ s.key \in Static /\ ~s.cached /\ s.data \in Versions =>
           Fits(FileOf[s.key], s.data, s.modification_time)
    /\ s.pc = "send" /\ s.code = "304" /\ s.held # nullptr /\ s.seen \in Versions =>
           \/ s.held.data = s.seen \/ s.held.cached \/ s.held.foreign \/ rushed
           \/ SavedAgainWithinZone(s)

ServerInv ==
    /\ server \in [Workers -> Server \cup {nullptr}]
    /\ \A w \in Workers : server[w] # nullptr => Sound(server[w])

IInv == WorldInv /\ OwnerInv /\ CacheInv /\ CopyInv /\ ServerInv

\* The constants as numbers.
LEMMA Numbers ==
    /\ TTL \in Nat /\ MaxTime \in Nat /\ MaxVersion \in Nat
    /\ Boot \in Time /\ \A t \in Time : t \in Nat /\ t <= MaxTime
    /\ \A t \in Time \cup {NoTime} : t \in Int /\ LocalTime(t) \in Int
    /\ Missing \notin Versions /\ Empty \notin Versions /\ Missing # Empty
    /\ NoTime = -1
  BY FileAssumption DEF Time, LocalTime, Versions, Missing, Empty, NoTime

\* Times of files as numbers.
LEMMA Times ==
  ASSUME IInv
  PROVE  /\ clock \in Nat /\ clock <= MaxTime
         /\ \A f \in Files : file[f].mtime \in Nat /\ file[f].mtime <= clock
<1>1. ASSUME NEW f \in Files
      PROVE  file[f].mtime \in Nat /\ file[f].mtime <= clock
  <2>1. file[f].mtime \in Time
    BY DEF IInv, WorldInv
  <2> QED BY <2>1, Numbers DEF IInv, WorldInv
<1>2. clock \in Nat /\ clock <= MaxTime
  BY Numbers DEF IInv, WorldInv
<1> QED BY <1>1, <1>2

\* The server is started before anything else.
LEMMA BootFirst ==
  ASSUME IInv
  PROVE  Boot <= clock
  BY FileAssumption DEF IInv, WorldInv, Time

\* Before any request and any edit IInv holds.
LEMMA Start == Init => IInv
<1> SUFFICES ASSUME Init
             PROVE  IInv
  OBVIOUS
<1>1. clock = Boot /\ file = [f \in Files |-> [content |-> Missing, mtime |-> Boot]]
  BY DEF Init
<1>2. raced \in BOOLEAN /\ rushed \in BOOLEAN
  BY Zenon DEF Init
<1>3. Boot \in Time /\ Boot <= Boot /\ MaxTime + 1 \in 0 .. MaxTime + 1
  BY Numbers DEF Time
<1>4. WorldInv
  BY <1>1, <1>2, <1>3 DEF WorldInv
<1>5. OwnerInv
  BY <1>1, <1>3, Numbers DEF Init, OwnerInv
<1>6. CacheInv
  BY DEF Init, CacheInv
<1>7. CopyInv
  BY DEF Init, CopyInv
<1>8. ServerInv
  BY DEF Init, ServerInv
<1> QED BY <1>4, <1>5, <1>6, <1>7, <1>8 DEF IInv
-----------------------------------------------------------------------------
(* The world outside the server. *)

\* The clock's ticks keep IInv.
LEMMA TickKeeps ==
  ASSUME IInv, Tick
  PROVE  IInv'
<1>1. /\ clock < MaxTime /\ clock' = clock + 1
      /\ UNCHANGED <<file, m_cache, server, copy, raced, replaced, owner, rushed>>
  BY DEF Tick, codeVars
<1>2. clock \in Nat /\ clock' \in Time /\ clock <= clock'
  <2>1. MaxTime \in Nat /\ clock \in Nat /\ Boot \in Nat
    BY Numbers, Times, FileAssumption
  <2>2. Boot <= clock
    BY <2>1 DEF IInv, WorldInv, Time
  <2> QED BY <1>1, <2>1, <2>2 DEF Time
<1>3. WorldInv'
  <2>1. \A f \in Files : file[f].mtime \in Nat /\ file[f].mtime <= clock'
    <3>1. \A f \in Files : file[f].mtime \in Nat /\ file[f].mtime <= clock
      BY Times
    <3> QED BY <1>1, <1>2, <3>1
  <2> QED BY <1>1, <1>2, <2>1 DEF IInv, WorldInv
<1>4. OwnerInv'
  BY <1>1 DEF IInv, OwnerInv
<1>5. CacheInv'
  <2>1. ASSUME NEW k \in Keys, m_cache[k] # nullptr
        PROVE  m_cache[k].expiration <= clock' + TTL
    BY <1>1, <1>2, <2>1, Numbers DEF IInv, CacheInv, CacheEntry
  <2> QED BY <1>1, <2>1 DEF IInv, CacheInv
<1>6. CopyInv'
  BY <1>1 DEF IInv, CopyInv, CopyFits, Fits, LocalTime
<1>7. ServerInv'
  <2>1. ASSUME NEW w \in Workers, server[w] # nullptr
        PROVE  server[w].read_at <= clock'
    <3>1. server[w] \in Server /\ server[w].read_at <= clock
      BY <2>1 DEF IInv, ServerInv, Sound
    <3>2. server[w].read_at \in Nat
      BY <3>1, Numbers DEF Server
    <3> QED BY <1>1, <1>2, <3>1, <3>2
  <2>2. ASSUME NEW w \in Workers, server[w] # nullptr
        PROVE  Sound(server[w])'
    BY <1>1, <2>1, <2>2 DEF IInv, ServerInv, Sound, CopyFits, Fits, Sent200,
       SavedAgainWithinZone, LocalTime
  <2> QED BY <1>1, <2>2 DEF IInv, ServerInv
<1> QED BY <1>3, <1>4, <1>5, <1>6, <1>7 DEF IInv

\* A file's time never goes back.
LEMMA EditTimes ==
  ASSUME IInv, NEW f \in Files, NEW content \in Versions \cup {Empty, Missing}, Edit(f, content)
  PROVE  /\ file' \in [Files -> [content : Versions \cup {Empty, Missing}, mtime : Time]]
         /\ file'[f] = [content |-> content, mtime |-> clock]
         /\ \A g \in Files \ {f} : file'[g] = file[g]
         /\ \A g \in Files : file[g].mtime <= file'[g].mtime
<1>1. file' = [file EXCEPT ![f] = [content |-> content, mtime |-> clock]]
  BY DEF Edit
<1>2. file'[f] = [content |-> content, mtime |-> clock] /\ \A g \in Files \ {f} : file'[g] = file[g]
  BY <1>1 DEF IInv, WorldInv
<1>3. file' \in [Files -> [content : Versions \cup {Empty, Missing}, mtime : Time]]
  BY <1>1 DEF IInv, WorldInv
<1>4. \A g \in Files : file[g].mtime \in Nat /\ file[g].mtime <= clock
  BY Times
<1> QED BY <1>2, <1>3, <1>4

\* Content that goes with a time still does when files change, except after
\* two changes within a second.
LEMMA EditFits ==
  ASSUME IInv, NEW f \in Files, NEW content \in Versions \cup {Empty, Missing}, Edit(f, content),
         NEW g \in Files, NEW v \in Versions, NEW t \in Time \cup {NoTime}, Fits(g, v, t)
  PROVE  Fits(g, v, t)'
<1>1. /\ rushed' = (rushed \/ (file[f].content # Missing /\ file[f].mtime = clock))
      /\ file'[f] = [content |-> content, mtime |-> clock]
      /\ \A h \in Files \ {f} : file'[h] = file[h]
  BY EditTimes DEF Edit
<1>2. file[f].mtime \in Nat /\ clock \in Nat /\ file[f].mtime <= clock /\ t \in Int
  BY Times, Numbers
<1>3. CASE rushed
  BY <1>1, <1>3 DEF Fits
<1>4. CASE g # f
  BY <1>1, <1>4 DEF Fits
<1>5. CASE g = f /\ t < file[f].mtime
  BY <1>1, <1>2, <1>5 DEF Fits
<1>6. CASE g = f /\ file[f].content = v /\ t <= file[f].mtime
  <2>1. file[f].content # Missing
    BY <1>6, Numbers
  <2>2. CASE file[f].mtime = clock
    <3>1. rushed'
      BY <1>1, <2>1, <2>2, Zenon
    <3> QED BY <3>1 DEF Fits
  <2>3. CASE file[f].mtime # clock
    <3>1. t < clock
      BY <1>2, <1>6, <2>3
    <3> QED BY <1>1, <1>6, <3>1 DEF Fits
  <2> QED BY <2>2, <2>3
<1> QED BY <1>3, <1>4, <1>5, <1>6 DEF Fits

\* When content is replaced, the time of that is now, and what was in no file
\* is in f alone.
LEMMA EditOwners ==
  ASSUME IInv, NEW f \in Files, NEW content \in Versions \cup {Empty, Missing}, Edit(f, content)
  PROVE  /\ OwnerInv'
         /\ \A v \in Versions : replaced'[v] = replaced[v] \/ replaced'[v] = clock
<1> DEFINE old == file[f].content
<1>0. file'[f].content = content /\ \A g \in Files \ {f} : file'[g] = file[g]
  <2>1. file'[f] = [content |-> content, mtime |-> clock]
    BY EditTimes
  <2> QED BY <2>1, EditTimes
<1>1. /\ content \in Versions => owner[content] = nullptr
      /\ owner' = IF content \in Versions THEN [owner EXCEPT ![content] = f] ELSE owner
      /\ replaced' = IF old \in Versions THEN [replaced EXCEPT ![old] = clock] ELSE replaced
  BY DEF Edit
<1>2. clock \in 0 .. MaxTime + 1
  BY Numbers DEF IInv, WorldInv, Time
<1>3. replaced' \in [Versions -> 0 .. MaxTime + 1]
  BY <1>1, <1>2 DEF IInv, OwnerInv
<1>4. owner' \in [Versions -> Files \cup {nullptr}]
  BY <1>1 DEF IInv, OwnerInv
<1>5. \A v \in Versions : replaced'[v] = IF v = old THEN clock ELSE replaced[v]
  BY <1>1 DEF IInv, OwnerInv
<1>6. \A v \in Versions : owner'[v] = IF v = content THEN f ELSE owner[v]
  BY <1>1 DEF IInv, OwnerInv
<1>7. old \in Versions => owner[old] = f
  BY DEF IInv, OwnerInv
<1>8. \A v \in Versions : owner'[v] = nullptr => replaced'[v] = MaxTime + 1
  BY <1>5, <1>6, <1>7, FileAssumption DEF IInv, OwnerInv
<1>9. ASSUME NEW g \in Files, file'[g].content \in Versions
      PROVE  owner'[file'[g].content] = g /\ replaced'[file'[g].content] = MaxTime + 1
  <2>1. CASE g = f
    <3>1. file'[g].content = content
      BY <1>0, <2>1
    <3>2. owner[content] = nullptr
      BY <1>1, <1>9, <3>1
    <3>3. content # old
      BY <1>7, <1>9, <3>1, <3>2, FileAssumption
    <3> QED BY <1>5, <1>6, <1>9, <2>1, <3>1, <3>2, <3>3 DEF IInv, OwnerInv
  <2>2. CASE g # f
    <3>1. file'[g] = file[g]
      BY <1>0, <2>2
    <3>2. owner[file[g].content] = g /\ replaced[file[g].content] = MaxTime + 1
      BY <1>9, <3>1 DEF IInv, OwnerInv
    <3>3. file[g].content # old
      BY <1>7, <1>9, <2>2, <3>1, <3>2
    <3>4. file[g].content # content
      BY <1>1, <1>9, <3>1, <3>2, FileAssumption
    <3> QED BY <1>5, <1>6, <1>9, <3>1, <3>2, <3>3, <3>4
  <2> QED BY <2>1, <2>2
<1> QED BY <1>3, <1>4, <1>5, <1>8, <1>9 DEF OwnerInv

\* The edits of files keep IInv.
LEMMA EditKeeps ==
  ASSUME IInv, NEW f \in Files, NEW content \in Versions \cup {Empty, Missing}, Edit(f, content)
  PROVE  IInv'
<1>1. /\ UNCHANGED <<clock, m_cache, server, copy, raced>>
      /\ rushed' = (rushed \/ (file[f].content # Missing /\ file[f].mtime = clock))
  BY DEF Edit, codeVars
<1>2. rushed' \in BOOLEAN
  BY <1>1, Zenon
<1>3. WorldInv'
  <2>1. file' \in [Files -> [content : Versions \cup {Empty, Missing}, mtime : Time]]
    BY EditTimes
  <2>2. ASSUME NEW g \in Files
        PROVE  file'[g].mtime <= clock
    <3> clock \in Nat
      BY Times
    <3>1. CASE g = f
      <4>1. file'[g] = [content |-> content, mtime |-> clock]
        BY <3>1, EditTimes
      <4> QED BY <4>1
    <3>2. CASE g # f
      <4>1. file'[g] = file[g]
        BY <3>2, EditTimes
      <4> QED BY <4>1, Times
    <3> QED BY <3>1, <3>2
  <2> QED BY <1>1, <1>2, <2>1, <2>2 DEF IInv, WorldInv
<1>4. OwnerInv' /\ \A v \in Versions : replaced'[v] = replaced[v] \/ replaced'[v] = clock
  BY EditOwners
<1>5. CacheInv'
  <2>1. ASSUME NEW k \in Keys, m_cache[k] # nullptr, m_cache[k].data \in Versions
        PROVE  m_cache[k].expiration <= replaced'[m_cache[k].data] + m_cache[k].lag + TTL
    <3>1. /\ m_cache[k].expiration \in Nat /\ m_cache[k].lag \in Nat
          /\ m_cache[k].expiration <= clock + TTL
          /\ m_cache[k].expiration <= replaced[m_cache[k].data] + m_cache[k].lag + TTL
      BY <2>1 DEF IInv, CacheInv, CacheEntry
    <3>2. clock \in Nat /\ TTL \in Nat
      BY Times, Numbers
    <3>3. replaced'[m_cache[k].data] = replaced[m_cache[k].data] \/ replaced'[m_cache[k].data] = clock
      BY <1>4, <2>1
    <3> QED BY <3>1, <3>2, <3>3
  <2> QED BY <1>1, <2>1 DEF IInv, CacheInv
<1>6. ASSUME NEW k \in Static, NEW c \in Copy, CopyFits(k, c)
      PROVE  CopyFits(k, c)'
  <2>1. FileOf[k] \in Files /\ c.data \in Versions /\ c.modification_time \in Time \cup {NoTime}
    BY FileAssumption DEF Copy
  <2> QED BY <1>6, <2>1, EditFits DEF CopyFits, LocalTime
<1>7. CopyInv'
  BY <1>1, <1>6 DEF IInv, CopyInv
<1>8. ServerInv'
  <2>1. ASSUME NEW s \in Server, s.key \in Static, s.data \in Versions,
               Fits(FileOf[s.key], s.data, s.modification_time)
        PROVE  Fits(FileOf[s.key], s.data, s.modification_time)'
    <3>1. FileOf[s.key] \in Files /\ s.modification_time \in Time \cup {NoTime}
      BY <2>1, FileAssumption DEF Server
    <3> QED BY <2>1, <3>1, EditFits
  <2>2. ASSUME NEW s \in Server, s.key \in Static, s.modification_time <= file[FileOf[s.key]].mtime
        PROVE  s.modification_time <= file'[FileOf[s.key]].mtime
    <3>1. FileOf[s.key] \in Files /\ s.modification_time \in Int
      BY <2>2, FileAssumption, Numbers DEF Server
    <3>2. \A g \in Files : file[g].mtime <= file'[g].mtime
      BY EditTimes
    <3>3. \A g \in Files : file[g].mtime \in Nat
      BY Times
    <3>4. \A g \in Files : file'[g].mtime \in Nat
      <4>1. \A g \in Files : file'[g].mtime \in Time
        <5>1. file' \in [Files -> [content : Versions \cup {Empty, Missing}, mtime : Time]]
          BY EditTimes
        <5> QED BY <5>1
      <4> QED BY <4>1, Numbers
    <3> QED BY <2>2, <3>1, <3>2, <3>3, <3>4
  <2>3. ASSUME NEW s \in Server, s.data \in Versions, s.read_at <= clock, s.read_at <= replaced[s.data]
        PROVE  s.read_at <= replaced'[s.data]
    BY <1>4, <2>3
  <2>4. ASSUME NEW w \in Workers, server[w] # nullptr
        PROVE  Sound(server[w])'
    <3>1. PICK s \in Server : s = server[w]
      BY <2>4 DEF IInv, ServerInv
    <3>2. Sound(s)
      BY <2>4, <3>1 DEF IInv, ServerInv
    <3>3. s.held # nullptr => s.key \in Static /\ CopyFits(s.key, s.held)'
      <4>1. s.held \in Copy \cup {nullptr}
        BY DEF Server
      <4> QED BY <1>6, <3>2, <4>1 DEF Sound
    <3>4. Sound(s)'
      <4>1. s.pc = "set" => s.data # Missing /\ (s.data \in Versions => s.read_at <= replaced'[s.data])
        BY <2>3, <3>2 DEF Sound
      <4>2. s.pc \in {"is_expired", "get_data", "read"} /\ s.key \in Static =>
                s.modification_time <= file'[FileOf[s.key]].mtime
        BY <2>2, <3>2 DEF Sound
      <4>3. (s.pc \in {"set", "stamp"} \/ Sent200(s))
            /\ s.key \in Static /\ ~s.cached /\ s.data \in Versions =>
                Fits(FileOf[s.key], s.data, s.modification_time)'
        BY <2>1, <3>2 DEF Sound
      <4>4. s.pc = "send" /\ s.code = "304" /\ s.held # nullptr /\ s.seen \in Versions =>
                s.held.data = s.seen \/ s.held.cached \/ s.held.foreign \/ rushed'
                \/ SavedAgainWithinZone(s)
        BY <1>1, <3>2 DEF Sound
      <4> QED BY <1>1, <3>2, <3>3, <4>1, <4>2, <4>3, <4>4 DEF Sound, Sent200,
             SavedAgainWithinZone, LocalTime
    <3> QED BY <1>1, <3>1, <3>4
  <2> QED BY <1>1, <2>4 DEF IInv, ServerInv
<1> QED BY <1>3, <1>4, <1>5, <1>7, <1>8 DEF IInv
-----------------------------------------------------------------------------
(* server::handle. *)

\* What a step of a request leaves as it is.
LEMMA HandleKeepsWorld ==
  ASSUME IInv, UNCHANGED world, raced' \in BOOLEAN
  PROVE  WorldInv' /\ OwnerInv'
<1>1. UNCHANGED <<clock, file, replaced, owner, rushed>>
  BY DEF world
<1>2. WorldInv'
  BY <1>1 DEF IInv, WorldInv
<1>3. OwnerInv'
  BY <1>1 DEF IInv, OwnerInv
<1> QED BY <1>2, <1>3

\* A step that leaves the cache and the copies alone keeps what is true of them.
LEMMA HandleKeepsCopies ==
  ASSUME IInv, UNCHANGED world, UNCHANGED <<m_cache, copy>>
  PROVE  CacheInv' /\ CopyInv'
  BY DEF world, IInv, CacheInv, CopyInv, CopyFits, Fits, LocalTime

\* A step of worker w that leads to the sound request s, or to none.
LEMMA ServerUpdate ==
  ASSUME IInv, UNCHANGED world, NEW w \in Workers, NEW s \in Server \cup {nullptr},
         server' = [server EXCEPT ![w] = s], s # nullptr => Sound(s),
         \A k \in Keys : m_cache[k] \in CacheEntry => m_cache'[k] \in CacheEntry
  PROVE  ServerInv'
<1>1. UNCHANGED <<clock, file, replaced, owner, rushed>>
  BY DEF world
<1>2. ASSUME NEW r \in Server, Sound(r)
      PROVE  Sound(r)'
  <2>1. r.key \in Keys
    BY DEF Server
  <2>2. r.pc = "get_data" => m_cache'[r.key] \in CacheEntry
    BY <1>2, <2>1 DEF Sound
  <2> QED BY <1>1, <1>2, <2>2 DEF Sound, CopyFits, Fits, Sent200,
     SavedAgainWithinZone, LocalTime
<1>3. /\ server' \in [Workers -> Server \cup {nullptr}] /\ server'[w] = s
      /\ \A v \in Workers \ {w} : server'[v] = server[v]
  BY DEF IInv, ServerInv
<1>4. ASSUME NEW v \in Workers, server'[v] # nullptr
      PROVE  Sound(server[v])'
  <2>1. PICK r \in Server : r = server'[v]
    BY <1>3, <1>4
  <2>2. Sound(r)
    BY <1>3, <1>4, <2>1 DEF IInv, ServerInv
  <2>3. Sound(r)'
    BY <1>2, <2>2
  <2> QED BY <2>1, <2>3
<1> QED BY <1>3, <1>4 DEF ServerInv

\* The request a worker is at work on.
LEMMA AtWork ==
  ASSUME IInv, NEW w \in Workers, NEW pc, At(w, pc)
  PROVE  /\ server[w] \in Server /\ Sound(server[w]) /\ server[w].pc = pc
         /\ server[w].key \in Keys /\ FileOf[server[w].key] \in Files
<1>1. server[w] \in Server /\ Sound(server[w]) /\ server[w].pc = pc
  BY DEF At, IInv, ServerInv
<1>2. server[w].key \in Keys
  BY <1>1 DEF Server
<1> QED BY <1>1, <1>2, FileAssumption

\* A request comes without a date or with that of the copy its client has.
LEMMA ReceiveKeeps ==
  ASSUME IInv, NEW w \in Workers, NEW k \in Keys,
         NEW held \in {nullptr} \cup {copy[j] : j \in Static}, Receive(w, k, held)
  PROVE  IInv'
<1> DEFINE s == [pc |-> IF k \in Static THEN "stat" ELSE "is_expired", key |-> k, held |-> held,
            data |-> Missing, read_at |-> Boot, cached |-> FALSE,
            modification_time |-> NoTime, stamp |-> NoTime, seen |-> Missing, code |-> "none"]
<1>1. /\ held # nullptr => k \in Static /\ held = copy[k]
      /\ server' = [server EXCEPT ![w] = s]
      /\ UNCHANGED world /\ UNCHANGED <<m_cache, copy, raced>>
  BY DEF Receive
<1>2. held \in Copy \cup {nullptr} /\ (held # nullptr => CopyFits(k, held))
  BY <1>1 DEF IInv, CopyInv
<1>3. Boot \in Time /\ Boot <= clock
  BY Numbers, BootFirst
<1>4. s \in Server
  BY <1>2, <1>3 DEF Server, NoTime
<1>5. Sound(s)
  BY <1>1, <1>2, <1>3, Numbers DEF Sound, Sent200
<1> HIDE DEF s
<1>6. ServerInv'
  BY <1>1, <1>4, <1>5, ServerUpdate
<1>7. WorldInv' /\ OwnerInv'
  BY <1>1, HandleKeepsWorld DEF IInv, WorldInv
<1>8. CacheInv' /\ CopyInv'
  BY <1>1, HandleKeepsCopies
<1> QED BY <1>6, <1>7, <1>8 DEF IInv

\* file_modified and the decision for a 304.
LEMMA StatFileKeeps ==
  ASSUME IInv, NEW w \in Workers, StatFile(w)
  PROVE  IInv'
<1> DEFINE k == server[w].key
<1> DEFINE mtime == FileModified(w)
<1> DEFINE same == k \in Static /\ mtime <= IfModifiedSince(w)
<1> DEFINE pc == IF same THEN "send"
                 ELSE IF k \in Static THEN "is_expired"
                 ELSE Respond(w, server[w].data)
<1>1. /\ At(w, "stat")
      /\ server' = [server EXCEPT ![w].modification_time = mtime,
                                  ![w].held = IF same THEN @ ELSE nullptr,
                                  ![w].seen = IF same THEN File(w).content ELSE Missing,
                                  ![w].code = IF same THEN "304" ELSE "none",
                                  ![w].pc = pc]
      /\ UNCHANGED world /\ UNCHANGED <<m_cache, copy, raced>>
  BY DEF StatFile
<1>2. /\ server[w] \in Server /\ Sound(server[w]) /\ k \in Keys /\ FileOf[k] \in Files
  BY <1>1, AtWork
<1>3. PICK s : s = [server[w] EXCEPT !.modification_time = mtime,
                                     !.held = IF same THEN @ ELSE nullptr,
                                     !.seen = IF same THEN File(w).content ELSE Missing,
                                     !.code = IF same THEN "304" ELSE "none",
                                     !.pc = pc]
  OBVIOUS
<1>4. /\ File(w).content \in Versions \cup {Empty, Missing} /\ File(w).mtime \in Time
      /\ mtime = IF File(w).content = Missing THEN NoTime ELSE File(w).mtime
  BY <1>2 DEF File, FileModified, IInv, WorldInv
<1>5. pc \in {"send", "is_expired", "stamp", "page"}
      /\ (pc = "stamp" => server[w].data \in Versions /\ k \notin Static)
  BY DEF Respond
<1>6. mtime \in Time \cup {NoTime}
  BY <1>4
<1>7. server' = [server EXCEPT ![w] = s]
  BY <1>1, <1>2, <1>3 DEF IInv, ServerInv
<1>8. /\ pc = "send" => same
      /\ same => pc = "send" /\ k \in Static /\ mtime <= IfModifiedSince(w)
      /\ File(w) = file[FileOf[k]]
  BY DEF Respond, File
<1> HIDE DEF mtime, pc, same, k
<1>9. s \in Server
  <2>1. PICK held, content, code :
            /\ held = IF same THEN server[w].held ELSE nullptr
            /\ content = IF same THEN File(w).content ELSE Missing
            /\ code = IF same THEN "304" ELSE "none"
    OBVIOUS
  <2>2. content \in Versions \cup {Empty, Missing} /\ code \in {"304", "none"}
    BY <1>4, <2>1
  <2>3. held \in Copy \cup {nullptr}
    BY <1>2, <2>1 DEF Server
  <2>4. s = [server[w] EXCEPT !.modification_time = mtime, !.held = held, !.seen = content,
                              !.code = code, !.pc = pc]
    BY <1>2, <1>3, <2>1 DEF Server
  <2> QED BY <1>2, <1>5, <1>6, <2>2, <2>3, <2>4 DEF Server
<1>10. /\ s.held = (IF same THEN server[w].held ELSE nullptr) /\ s.key = k /\ s.data = server[w].data
       /\ s.read_at = server[w].read_at /\ s.pc = pc /\ s.modification_time = mtime
       /\ s.seen = (IF same THEN File(w).content ELSE Missing) /\ s.code = IF same THEN "304" ELSE "none"
  BY <1>2, <1>3 DEF Server, k
<1>11. mtime <= file[FileOf[k]].mtime
  BY <1>4, <1>8, Numbers
<1>12. s.pc = "send" /\ s.held # nullptr /\ s.seen \in Versions =>
           \/ s.held.data = s.seen \/ s.held.cached \/ s.held.foreign \/ rushed
           \/ SavedAgainWithinZone(s)
  <2> SUFFICES ASSUME s.pc = "send", s.held # nullptr, s.seen \in Versions,
                      ~s.held.cached, ~s.held.foreign, ~rushed, s.held.data # s.seen
               PROVE  SavedAgainWithinZone(s)
    BY Zenon
  <2>1. same /\ s.held = server[w].held /\ s.seen = File(w).content
    BY <1>8, <1>10
  <2>2. CopyFits(k, s.held)
    BY <1>2, <2>1 DEF Sound, k
  <2>3. s.held.stamp = LocalTime(s.held.modification_time)
    BY <2>2 DEF CopyFits
  <2>4. Fits(FileOf[k], s.held.data, s.held.modification_time)
    BY <2>2 DEF CopyFits
  <2>5. s.held.modification_time < file[FileOf[k]].mtime
    BY <1>8, <2>1, <2>4 DEF Fits
  <2>6. mtime = file[FileOf[k]].mtime
    BY <1>4, <1>8, <2>1, Numbers
  <2>7. IfModifiedSince(w) = s.held.stamp
    BY <2>1 DEF IfModifiedSince
  <2>8. mtime <= LocalTime(s.held.modification_time)
    BY <1>8, <2>1, <2>3, <2>7
  <2> QED BY <1>10, <2>5, <2>6, <2>8 DEF SavedAgainWithinZone
<1>13. Sound(s)
  BY <1>2, <1>5, <1>10, <1>11, <1>12 DEF Sound, Sent200, k
<1>14. ServerInv'
  BY <1>1, <1>7, <1>9, <1>13, ServerUpdate
<1>15. WorldInv' /\ OwnerInv'
  BY <1>1, HandleKeepsWorld DEF IInv, WorldInv
<1>16. CacheInv' /\ CopyInv'
  BY <1>1, HandleKeepsCopies
<1> QED BY <1>14, <1>15, <1>16 DEF IInv

\* The entry that is found not to be expired is there when it is fetched.
LEMMA IsExpiredKeeps ==
  ASSUME IInv, NEW w \in Workers, IsExpired(w)
  PROVE  IInv'
<1> DEFINE entry == m_cache[server[w].key]
<1> DEFINE pc == IF entry # nullptr /\ entry.expiration >= clock THEN "get_data" ELSE "read"
<1>1. /\ At(w, "is_expired")
      /\ server' = [server EXCEPT ![w].pc = pc]
      /\ UNCHANGED world /\ UNCHANGED <<m_cache, copy, raced>>
  BY DEF IsExpired, Goto
<1>2. /\ server[w] \in Server /\ Sound(server[w]) /\ server[w].key \in Keys
      /\ server[w].pc = "is_expired"
  BY <1>1, AtWork
<1>3. PICK s : s = [server[w] EXCEPT !.pc = pc]
  OBVIOUS
<1>4. pc \in {"get_data", "read"} /\ (pc = "get_data" => entry \in CacheEntry)
  BY <1>2 DEF IInv, CacheInv
<1>5. server' = [server EXCEPT ![w] = s]
  BY <1>1, <1>2, <1>3 DEF IInv, ServerInv
<1> HIDE DEF pc
<1>6. s \in Server
  BY <1>2, <1>3, <1>4 DEF Server
<1>7. Sound(s)
  BY <1>2, <1>3, <1>4 DEF Sound, Sent200, Server
<1>8. ServerInv'
  BY <1>1, <1>5, <1>6, <1>7, ServerUpdate
<1>9. WorldInv' /\ OwnerInv'
  BY <1>1, HandleKeepsWorld DEF IInv, WorldInv
<1>10. CacheInv' /\ CopyInv'
  BY <1>1, HandleKeepsCopies
<1> QED BY <1>8, <1>9, <1>10 DEF IInv

\* Where a request goes on with its body.
LEMMA WithBody ==
  ASSUME NEW w \in Workers, NEW data
  PROVE  /\ HaveBody(w, data) \in {"stamp", "page", "stat"}
         /\ HaveBody(w, data) = "stamp" => data \in Versions
  BY DEF HaveBody, Respond

\* A body from the cache.
LEMMA GetDataKeeps ==
  ASSUME IInv, NEW w \in Workers, GetData(w)
  PROVE  IInv'
<1>1. PICK data, pc : data = m_cache[server[w].key].data /\ pc = HaveBody(w, data)
  OBVIOUS
<1>2. /\ At(w, "get_data")
      /\ server' = [server EXCEPT ![w].data = data, ![w].cached = TRUE, ![w].pc = pc]
      /\ UNCHANGED world /\ UNCHANGED <<m_cache, copy, raced>>
  BY <1>1 DEF GetData
<1>3. /\ server[w] \in Server /\ Sound(server[w]) /\ server[w].pc = "get_data"
  BY <1>2, AtWork
<1>4. data \in Versions \cup {Empty}
  <2>1. m_cache[server[w].key] \in CacheEntry
    BY <1>3 DEF Sound
  <2> QED BY <1>1, <2>1 DEF CacheEntry
<1>5. pc \in {"stamp", "page", "stat"} /\ (pc = "stamp" => data \in Versions)
  BY <1>1, WithBody
<1>6. PICK s : s = [server[w] EXCEPT !.data = data, !.cached = TRUE, !.pc = pc]
  OBVIOUS
<1>7. server' = [server EXCEPT ![w] = s]
  BY <1>2, <1>3, <1>6 DEF IInv, ServerInv
<1>8. s \in Server
  BY <1>3, <1>4, <1>5, <1>6 DEF Server
<1>9. /\ s.pc = pc /\ s.data = data /\ s.cached /\ s.held = server[w].held
      /\ s.key = server[w].key /\ s.read_at = server[w].read_at
  BY <1>3, <1>6 DEF Server
<1>10. Sound(s)
  BY <1>3, <1>5, <1>9 DEF Sound, Sent200
<1>11. ServerInv'
  BY <1>2, <1>7, <1>8, <1>10, ServerUpdate
<1>12. WorldInv' /\ OwnerInv'
  BY <1>2, HandleKeepsWorld DEF IInv, WorldInv
<1>13. CacheInv' /\ CopyInv'
  BY <1>2, HandleKeepsCopies
<1> QED BY <1>11, <1>12, <1>13 DEF IInv

\* What is read is what the file contains now, which has not been replaced; it
\* is as old as the time that was taken before, or newer.
LEMMA ReadFileKeeps ==
  ASSUME IInv, NEW w \in Workers, ReadFile(w)
  PROVE  IInv'
<1> DEFINE k == server[w].key
<1>1. /\ At(w, "read") /\ UNCHANGED world /\ UNCHANGED <<m_cache, copy, raced>>
  BY DEF ReadFile
<1>2. /\ server[w] \in Server /\ Sound(server[w]) /\ server[w].pc = "read"
      /\ k \in Keys /\ FileOf[k] \in Files
  BY <1>1, AtWork
<1>3. PICK content : content = File(w).content
  OBVIOUS
<1>4. content = file[FileOf[k]].content /\ content \in Versions \cup {Empty, Missing}
  BY <1>2, <1>3 DEF File, IInv, WorldInv
<1>5. ASSUME content = Missing
      PROVE  ServerInv'
  <2>1. PICK s : s = [server[w] EXCEPT !.code = "none", !.pc = "send"]
    OBVIOUS
  <2>2. server' = [server EXCEPT ![w] = s]
    BY <1>2, <1>3, <1>5, <2>1 DEF ReadFile, IInv, ServerInv
  <2>3. s \in Server
    BY <1>2, <2>1 DEF Server
  <2>4. /\ s.pc = "send" /\ s.code = "none" /\ s.held = server[w].held
        /\ s.key = k /\ s.read_at = server[w].read_at
    BY <1>2, <2>1 DEF Server
  <2>5. Sound(s)
    BY <1>2, <2>4 DEF Sound, Sent200
  <2> QED BY <1>1, <2>2, <2>3, <2>5, ServerUpdate
<1>6. ASSUME content # Missing
      PROVE  ServerInv'
  <2>1. PICK s : s = [server[w] EXCEPT !.data = content, !.read_at = clock, !.pc = "set"]
    OBVIOUS
  <2>2. server' = [server EXCEPT ![w] = s]
    BY <1>2, <1>3, <1>6, <2>1 DEF ReadFile, IInv, ServerInv
  <2>3. s \in Server
    BY <1>2, <1>4, <2>1 DEF Server, IInv, WorldInv
  <2>4. /\ s.pc = "set" /\ s.held = server[w].held /\ s.key = k /\ s.read_at = clock
        /\ s.data = content /\ s.modification_time = server[w].modification_time
    BY <1>2, <2>1 DEF Server
  <2>5. clock <= clock /\ clock <= MaxTime + 1
    BY Times, Numbers
  <2>6. content \in Versions => clock <= replaced[content]
    BY <1>2, <1>4, <2>5 DEF IInv, OwnerInv
  <2>7. k \in Static => Fits(FileOf[k], content, s.modification_time)
    BY <1>2, <1>4, <2>4 DEF Sound, Fits
  <2>8. Sound(s)
    BY <1>2, <1>6, <2>4, <2>5, <2>6, <2>7 DEF Sound, Sent200
  <2> QED BY <1>1, <2>2, <2>3, <2>8, ServerUpdate
<1>7. ServerInv'
  BY <1>5, <1>6
<1>8. WorldInv' /\ OwnerInv'
  BY <1>1, HandleKeepsWorld DEF IInv, WorldInv
<1>9. CacheInv' /\ CopyInv'
  BY <1>1, HandleKeepsCopies
<1> QED BY <1>7, <1>8, <1>9 DEF IInv

\* The entry expires an hour after it is stored, and its lag is the time the
\* worker took from reading the file to storing it.
LEMMA SetCacheKeeps ==
  ASSUME IInv, NEW w \in Workers, SetCache(w)
  PROVE  IInv'
<1>1. PICK k, data, age, pc : /\ k = server[w].key /\ data = server[w].data
                              /\ age = clock - server[w].read_at /\ pc = HaveBody(w, data)
  OBVIOUS
<1>2. /\ At(w, "set")
      /\ m_cache' = [m_cache EXCEPT ![k] = Entry(k, data, age)]
      /\ server' = [server EXCEPT ![w].read_at = Boot, ![w].pc = pc]
      /\ UNCHANGED world /\ UNCHANGED copy
  BY <1>1 DEF SetCache
<1>3. raced' \in BOOLEAN
  BY Zenon DEF SetCache, MayRace
<1>4. /\ server[w] \in Server /\ Sound(server[w]) /\ server[w].pc = "set" /\ k \in Keys
  BY <1>1, <1>2, AtWork
<1>5. data \in Versions \cup {Empty}
  BY <1>1, <1>4 DEF Sound, Server
<1>6. clock \in Nat /\ TTL \in Nat
  BY Times, Numbers
<1>7. server[w].read_at \in Nat /\ server[w].read_at <= clock
  BY <1>4, Numbers DEF Sound, Server
<1>8. age \in Nat
  BY <1>1, <1>6, <1>7
<1>10. Entry(k, data, age) \in CacheEntry
  BY <1>5, <1>6, <1>8 DEF Entry, CacheEntry
<1>11. /\ m_cache' \in [Keys -> CacheEntry \cup {nullptr}]
       /\ m_cache'[k] = Entry(k, data, age) /\ \A j \in Keys \ {k} : m_cache'[j] = m_cache[j]
  BY <1>2, <1>4, <1>10 DEF IInv, CacheInv
<1>12. clock' = clock /\ replaced' = replaced
  BY <1>2 DEF world
<1>13. CacheInv'
  <2>1. ASSUME data \in Versions
        PROVE  clock + TTL <= replaced[data] + age + TTL
    <3>1. server[w].read_at <= replaced[data]
      BY <1>1, <1>4, <2>1 DEF Sound
    <3>2. replaced[data] \in 0 .. MaxTime + 1
      BY <2>1 DEF IInv, OwnerInv
    <3> QED BY <1>1, <1>6, <1>7, <3>1, <3>2
  <2>2. /\ Entry(k, data, age).expiration = clock + TTL /\ Entry(k, data, age).data = data
        /\ Entry(k, data, age).lag = age
    BY DEF Entry
  <2>3. clock + TTL <= clock + TTL
    BY <1>6
  <2>5. ASSUME NEW j \in Keys, m_cache'[j] # nullptr
        PROVE  /\ m_cache'[j].expiration <= clock + TTL
               /\ m_cache'[j].data \in Versions =>
                      m_cache'[j].expiration
                          <= replaced[m_cache'[j].data] + m_cache'[j].lag + TTL
    <3>1. CASE j = k
      BY <1>11, <2>1, <2>2, <2>3, <3>1
    <3>2. CASE j # k
      BY <1>11, <2>5, <3>2 DEF IInv, CacheInv
    <3> QED BY <3>1, <3>2
  <2> QED BY <1>11, <1>12, <2>5 DEF CacheInv
<1>14. pc \in {"stamp", "page", "stat"} /\ (pc = "stamp" => data \in Versions)
  BY <1>1, WithBody
<1>15. PICK s : s = [server[w] EXCEPT !.read_at = Boot, !.pc = pc]
  OBVIOUS
<1>16. server' = [server EXCEPT ![w] = s]
  BY <1>2, <1>4, <1>15 DEF IInv, ServerInv
<1>17. s \in Server
  BY <1>4, <1>14, <1>15, Numbers DEF Server
<1>18. /\ s.pc = pc /\ s.data = data /\ s.cached = server[w].cached /\ s.held = server[w].held
       /\ s.key = k /\ s.read_at = Boot
       /\ s.modification_time = server[w].modification_time
  BY <1>1, <1>4, <1>15 DEF Server
<1>23. Boot <= clock
  BY BootFirst
<1>19. Sound(s)
  BY <1>1, <1>4, <1>14, <1>18, <1>23 DEF Sound, Sent200
<1>20. ServerInv'
  BY <1>2, <1>10, <1>11, <1>16, <1>17, <1>19, ServerUpdate
<1>21. WorldInv' /\ OwnerInv'
  BY <1>2, <1>3, HandleKeepsWorld
<1>22. CopyInv'
  BY <1>2 DEF world, IInv, CopyInv, CopyFits, Fits, LocalTime
<1> QED BY <1>13, <1>20, <1>21, <1>22 DEF IInv
-----------------------------------------------------------------------------
(* The stamp, and the end of a request. *)

\* The response gets what strftime finds in the buffer, whose ever it is.
LEMMA StampKeeps ==
  ASSUME IInv, NEW w \in Workers, Stamp(w)
  PROVE  IInv'
<1>1. /\ At(w, "stamp")
      /\ UNCHANGED world /\ UNCHANGED <<m_cache, copy, raced>>
  BY DEF Stamp
<1>2. server[w] \in Server /\ Sound(server[w]) /\ server[w].pc = "stamp"
  BY <1>1, AtWork
<1>3. PICK t \in Localtime(server[w].modification_time) :
          server' = [server EXCEPT ![w].stamp = LocalTime(t), ![w].code = "200",
                                   ![w].pc = "send"]
  BY DEF Stamp
<1>4. PICK n : n = LocalTime(t)
  OBVIOUS
<1>5. n \in Int
  <2>1. server[w].modification_time \in Time \cup {NoTime}
    BY <1>2 DEF Server
  <2>2. t \in Time \cup {NoTime}
    BY <2>1 DEF Localtime
  <2> QED BY <1>4, <2>2, Numbers
<1>6. PICK s : s = [server[w] EXCEPT !.stamp = n, !.code = "200", !.pc = "send"]
  OBVIOUS
<1>7. server' = [server EXCEPT ![w] = s]
  BY <1>2, <1>3, <1>4, <1>6 DEF IInv, ServerInv
<1>8. s \in Server
  BY <1>2, <1>5, <1>6 DEF Server
<1>9. /\ s.pc = "send" /\ s.code = "200" /\ s.data = server[w].data
      /\ s.cached = server[w].cached
      /\ s.held = server[w].held /\ s.key = server[w].key /\ s.read_at = server[w].read_at
      /\ s.modification_time = server[w].modification_time
  BY <1>2, <1>6 DEF Server
<1>10. Sound(s)
  BY <1>2, <1>9 DEF Sound, Sent200
<1>11. ServerInv'
  BY <1>1, <1>7, <1>8, <1>10, ServerUpdate
<1>12. WorldInv' /\ OwnerInv'
  BY <1>1, HandleKeepsWorld DEF IInv, WorldInv
<1>13. CacheInv' /\ CopyInv'
  BY <1>1, HandleKeepsCopies
<1> QED BY <1>11, <1>12, <1>13 DEF IInv

\* The 404 page, or nothing when that is missing.
LEMMA NotFoundPageKeeps ==
  ASSUME IInv, NEW w \in Workers, NotFoundPage(w)
  PROVE  IInv'
<1>1. /\ At(w, "page") /\ UNCHANGED world /\ UNCHANGED <<m_cache, copy, raced>>
  BY DEF NotFoundPage
<1>2. PICK code \in {"none", "404"} :
          server' = [server EXCEPT ![w].code = code, ![w].pc = "send"]
  BY DEF NotFoundPage
<1>3. server[w] \in Server /\ Sound(server[w])
  BY <1>1, AtWork
<1>4. PICK s : s = [server[w] EXCEPT !.code = code, !.pc = "send"]
  OBVIOUS
<1>5. server' = [server EXCEPT ![w] = s]
  BY <1>2, <1>3, <1>4 DEF IInv, ServerInv
<1>6. s \in Server
  BY <1>3, <1>4 DEF Server
<1>7. /\ s.pc = "send" /\ s.code \in {"none", "404"} /\ s.held = server[w].held
      /\ s.key = server[w].key /\ s.read_at = server[w].read_at
  BY <1>3, <1>4 DEF Server
<1>8. Sound(s)
  BY <1>3, <1>7 DEF Sound, Sent200
<1>9. ServerInv'
  BY <1>1, <1>5, <1>6, <1>8, ServerUpdate
<1>11. WorldInv' /\ OwnerInv'
  BY <1>1, HandleKeepsWorld DEF IInv, WorldInv
<1>12. CacheInv' /\ CopyInv'
  BY <1>1, HandleKeepsCopies
<1> QED BY <1>9, <1>11, <1>12 DEF IInv

\* A client keeps a 200 with its stamp, which is the request's own time or foreign.
LEMMA SendKeeps ==
  ASSUME IInv, NEW w \in Workers, Send(w)
  PROVE  IInv'
<1>1. PICK s : s = server[w]
  OBVIOUS
<1>2. PICK got : got = [data |-> s.data, stamp |-> s.stamp,
                        modification_time |-> s.modification_time, cached |-> s.cached,
                        foreign |-> s.stamp # LocalTime(s.modification_time)]
  OBVIOUS
<1>3. /\ At(w, "send")
      /\ copy' = IF s.code = "200" /\ s.key \in Static THEN [copy EXCEPT ![s.key] = got]
                 ELSE copy
      /\ server' = [server EXCEPT ![w] = nullptr]
      /\ UNCHANGED world /\ UNCHANGED <<m_cache, raced>>
  BY <1>1, <1>2 DEF Send
<1>4. s \in Server /\ Sound(s) /\ s.pc = "send"
  BY <1>1, <1>3, AtWork
<1>5. ServerInv'
  BY <1>3, ServerUpdate
<1>7. WorldInv' /\ OwnerInv'
  BY <1>3, HandleKeepsWorld DEF IInv, WorldInv
<1>8. CacheInv'
  BY <1>3 DEF world, IInv, CacheInv
<1>9. ASSUME s.code = "200", s.key \in Static
      PROVE  got \in Copy /\ CopyFits(s.key, got)
  <2>1. s.data \in Versions
    BY <1>4, <1>9 DEF Sound, Sent200
  <2>2. s.cached \in BOOLEAN /\ s.stamp \in Int /\ s.modification_time \in Time \cup {NoTime}
    BY <1>4 DEF Server
  <2>3. /\ got.data = s.data /\ got.stamp = s.stamp /\ got.cached = s.cached
        /\ got.modification_time = s.modification_time
        /\ got.foreign = (s.stamp # LocalTime(s.modification_time))
    BY <1>2
  <2>4. got \in Copy
    BY <1>2, <2>1, <2>2 DEF Copy
  <2>5. ~s.cached => Fits(FileOf[s.key], s.data, s.modification_time)
    BY <1>4, <1>9, <2>1 DEF Sound, Sent200
  <2>6. got.cached \/ Fits(FileOf[s.key], got.data, got.modification_time)
    BY <2>3, <2>5, Zenon
  <2>7. got.foreign \/ got.stamp = LocalTime(got.modification_time)
    BY <2>3, Zenon
  <2> QED BY <2>4, <2>6, <2>7, Zenon DEF CopyFits
<1>10. CopyInv'
  <2>1. copy' \in [Static -> Copy \cup {nullptr}]
    BY <1>3, <1>9 DEF IInv, CopyInv
  <2>2. ASSUME NEW k \in Static, copy'[k] # nullptr
        PROVE  CopyFits(k, copy'[k])
    <3>1. CASE s.code = "200" /\ k = s.key
      <4>1. copy'[k] = got
        BY <1>3, <3>1 DEF IInv, CopyInv
      <4> QED BY <1>9, <3>1, <4>1
    <3>2. CASE ~ (s.code = "200" /\ k = s.key)
      <4>1. copy'[k] = copy[k]
        BY <1>3, <3>2 DEF IInv, CopyInv
      <4> QED BY <2>2, <4>1 DEF IInv, CopyInv
    <3> QED BY <3>1, <3>2
  <2>3. UNCHANGED <<file, rushed>>
    BY <1>3 DEF world
  <2> QED BY <2>1, <2>2, <2>3 DEF CopyInv, CopyFits, Fits, LocalTime
<1> QED BY <1>5, <1>7, <1>8, <1>10 DEF IInv
-----------------------------------------------------------------------------
\* IInv is inductive.
LEMMA Inductive == IInv /\ [Next]_vars => IInv'
<1> SUFFICES ASSUME IInv, [Next]_vars
             PROVE  IInv'
  OBVIOUS
<1>1. CASE UNCHANGED vars
  <2>1. UNCHANGED <<clock, file, m_cache, server, copy, raced, replaced, owner, rushed>>
    BY <1>1 DEF vars
  <2>2. WorldInv' /\ OwnerInv'
    BY <2>1 DEF IInv, WorldInv, OwnerInv
  <2>3. CacheInv' /\ CopyInv'
    BY <2>1 DEF IInv, CacheInv, CopyInv, CopyFits, Fits, LocalTime
  <2>4. ServerInv'
    BY <2>1 DEF IInv, ServerInv, Sound, CopyFits, Fits, Sent200,
       SavedAgainWithinZone, LocalTime
  <2> QED BY <2>2, <2>3, <2>4 DEF IInv
<1>2. ASSUME NEW w \in Workers, Handle(w)
      PROVE  IInv'
  BY <1>2, ReceiveKeeps, StatFileKeeps, IsExpiredKeeps, GetDataKeeps, ReadFileKeeps,
     SetCacheKeeps, StampKeeps, NotFoundPageKeeps, SendKeeps DEF Handle
<1>3. CASE Next
  BY <1>2, <1>3, TickKeeps, EditKeeps DEF Next
<1> QED BY <1>1, <1>3

\* IInv holds in every reachable state.
LEMMA Reachable == Spec => []IInv
  BY Start, Inductive, PTL DEF Spec

\* Files, cache, requests and copies are what their classes allow.
THEOREM TypeCorrect == Spec => []TypeOK
<1>1. IInv => TypeOK
  BY DEF IInv, WorldInv, OwnerInv, CacheInv, CacheEntry, CopyInv, ServerInv, TypeOK
<1> QED BY <1>1, Reachable, PTL

\* No entry of the cache outlives what it caches by more than the hour and the
\* time that the worker who stored it took from reading to storing
\* (cache_storage::set).
THEOREM CacheNeverTooOld == Spec => []CacheAgeBounded
<1>1. IInv => CacheAgeBounded
  BY DEF IInv, CacheInv, CacheAgeBounded
<1> QED BY <1>1, Reachable, PTL

\* Whoever is told 304 of a file that is there has what it contains, or one of
\* the causes is at work: a body from the cache, another thread's stamp, two
\* changes within a second, or a change within the zone's offset after the time
\* of the copy (server::static_file_response, utils::format_unixtime).
THEOREM NotModifiedIsRight == Spec => []WrongNotModifiedHasCause
<1>1. IInv => WrongNotModifiedHasCause
  BY DEF IInv, ServerInv, Sound, WrongNotModifiedHasCause, Sending, At
<1> QED BY <1>1, Reachable, PTL
=============================================================================
