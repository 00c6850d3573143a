--------------------------- MODULE LibraryProofs ---------------------------
(***************************************************************************)
(* What TLAPS proves of the session storage for any number of threads,     *)
(* identifiers, keys and calls, while any other calls of Library go on:    *)
(* when a value that was set may be lost, and when a call may find an      *)
(* entry without a session; and then of the parts of Library together.     *)
(***************************************************************************)
EXTENDS Base64Proofs, LogProofs

HasSession(id) == m_storage[id] \notin {nullptr, Absent}

\* session objects are made in order; an object that is not made yet is empty,
\* and no two identifiers have the same one
ObjectsInv ==
    /\ \A id \in Ids : HasSession(id) => m_storage[id] \in 1 .. made
    /\ \A i, j \in Ids : i # j /\ HasSession(i) => m_storage[i] # m_storage[j]
    /\ \A s \in S!Sessions : s > made => \A k \in Keys : m_session[s][k] = NoValue

\* a thread about to insert knows that the id is missing, one about to assign that
\* its entry is null, and one that has found a session has the one that is there,
\* but for the ids in together
AccessOf(t) ==
    LET c == accessing[t]
    IN  /\ c.pc = "insert" => m_storage[c.id] = Absent \/ c.id \in together
        /\ c.pc = "assign" =>
              m_storage[c.id] # Absent /\ (m_storage[c.id] = nullptr \/ c.id \in together)
        /\ c.pc = "find" => m_storage[c.id] # Absent
        /\ c.pc = "session" =>
              /\ m_storage[c.id] # Absent
              /\ c.session = nullptr \/ c.session = m_storage[c.id] \/ c.id \in together

AccessInv == \A t \in Threads : accessing[t] # nullptr => AccessOf(t)

Assigns(t, id) == accessing[t] # nullptr /\ accessing[t].pc = "assign" /\ accessing[t].id = id

\* two threads assign one id only after they were about to insert it together, and
\* an entry is null only until the thread that made it assigns it
NullInv ==
    /\ \A id \in Ids : \A t, u \in Threads :
          t # u /\ Assigns(t, id) /\ Assigns(u, id) => id \in together
    /\ \A id \in Ids : m_storage[id] = nullptr => \E t \in Threads : Assigns(t, id)

SessionInv ==
    S!TypeOK /\ ObjectsInv /\ AccessInv /\ NullInv /\ S!ValuesLostOnlyByDoubleInsert

-----------------------------------------------------------------------------
\* No session and no call at the start.
LEMMA SessionInit ==
    ASSUME Init
    PROVE  SessionInv
<1> USE LibraryAssumption DEF Init, S!Init, S!SessionConstants, S!Sessions
<1>1. S!TypeOK
  <2>1. undefined \in BOOLEAN
    BY Zenon
  <2>2. made \in 0 .. MaxCalls
    OBVIOUS
  <2> QED BY <2>1, <2>2, Zenon DEF S!TypeOK
<1>2. ObjectsInv
  BY DEF ObjectsInv, HasSession
<1>3. AccessInv
  BY DEF AccessInv
<1>4. NullInv
  <2>1. \A id \in Ids : m_storage[id] # nullptr
    OBVIOUS
  <2> QED BY <2>1 DEF NullInv, Assigns
<1>5. S!ValuesLostOnlyByDoubleInsert
  BY DEF S!ValuesLostOnlyByDoubleInsert
<1> QED BY <1>1, <1>2, <1>3, <1>4, <1>5 DEF SessionInv

\* what the steps of a call that touch the map do not disturb when only
\* accessing[t] changes, and t is not about to assign, before and after
LEMMA SessionGoesOn ==
    ASSUME SessionInv, NEW t \in Threads, NEW d \in S!Call \cup {nullptr},
           accessing' = [accessing EXCEPT ![t] = d],
           accessing[t] # nullptr => accessing[t].pc # "assign",
           d # nullptr => d.pc # "assign" /\ AccessOf(t)',
           UNCHANGED <<m_storage, m_session, made, undefined, freed, last, together>>
    PROVE  SessionInv'
<1> USE DEF SessionInv
<1>1. accessing'[t] = d /\ \A u \in Threads \ {t} : accessing'[u] = accessing[u]
  BY DEF S!TypeOK
<1>2. S!TypeOK'
  <2>1. accessing' \in [Threads -> S!Call \cup {nullptr}]
    BY DEF S!TypeOK
  <2> QED BY <2>1, Zenon DEF S!TypeOK
<1>3. ObjectsInv'
  BY DEF ObjectsInv, HasSession
<1>4. AccessInv'
  BY <1>1 DEF AccessInv, AccessOf
<1>5. \A u \in Threads, id \in Ids : Assigns(u, id)' <=> Assigns(u, id)
  BY <1>1 DEF Assigns
<1>6. NullInv'
  BY <1>5 DEF NullInv
<1>7. S!ValuesLostOnlyByDoubleInsert'
  BY DEF S!ValuesLostOnlyByDoubleInsert
<1> QED BY <1>2, <1>3, <1>4, <1>6, <1>7

\* A call begins before its session is looked for.
LEMMA SessionStart ==
    ASSUME SessionInv, NEW t \in Threads, NEW op \in {"set", "get"}, NEW id \in Ids,
           NEW k \in Keys, NEW v \in Values \cup {NoValue}, S!Start(t, op, id, k, v)
    PROVE  SessionInv'
<1>1. PICK d : d = [op |-> op, id |-> id, key |-> k, value |-> v, pc |-> "count",
                    session |-> nullptr]
  OBVIOUS
<1>2. /\ accessing[t] = nullptr /\ accessing' = [accessing EXCEPT ![t] = d]
      /\ UNCHANGED <<m_storage, m_session, made, undefined, freed, last, together>>
  BY <1>1 DEF S!Start, S!Idle
<1>3. d \in S!Call /\ d.pc = "count"
  BY <1>1 DEF S!Call
<1>4. accessing'[t] = d
  BY <1>2 DEF SessionInv, S!TypeOK
<1>5. AccessOf(t)'
  BY <1>3, <1>4 DEF AccessOf
<1> QED BY <1>2, <1>3, <1>5, SessionGoesOn

\* A call that has counted its id has an entry, or goes on to create it.
LEMMA SessionCount ==
    ASSUME SessionInv, NEW t \in Threads, S!Count(t)
    PROVE  SessionInv'
<1>1. PICK c \in S!Call : c = accessing[t] /\ c.pc = "count"
  BY DEF SessionInv, S!TypeOK, S!Count, S!At, S!Idle
<1>2. PICK d : d = [c EXCEPT !.pc = IF m_storage[c.id] = Absent THEN "create" ELSE "find"]
  OBVIOUS
<1>3. /\ accessing' = [accessing EXCEPT ![t] = d]
      /\ UNCHANGED <<m_storage, m_session, made, undefined, freed, last, together>>
  BY <1>1, <1>2 DEF S!Count, S!GoTo, S!IdOf
<1>4. /\ d \in S!Call /\ d.id = c.id
      /\ d.pc = (IF m_storage[c.id] = Absent THEN "create" ELSE "find")
  BY <1>2 DEF S!Call
<1>5. accessing'[t] = d
  BY <1>3 DEF SessionInv, S!TypeOK
<1>6. AccessOf(t)'
  BY <1>3, <1>4, <1>5 DEF AccessOf
<1> QED BY <1>1, <1>3, <1>4, <1>6, SessionGoesOn

\* Only a thread that finds the id missing goes on to insert it.
LEMMA SessionCreate ==
    ASSUME SessionInv, NEW t \in Threads, S!Create(t)
    PROVE  SessionInv'
<1>1. PICK c \in S!Call : c = accessing[t] /\ c.pc = "create"
  BY DEF SessionInv, S!TypeOK, S!Create, S!At, S!Idle
<1>2. PICK d : d = [c EXCEPT !.pc = IF m_storage[c.id] = Absent THEN "insert" ELSE "find"]
  OBVIOUS
<1>3. /\ accessing' = [accessing EXCEPT ![t] = d]
      /\ UNCHANGED <<m_storage, m_session, made, undefined, freed, last, together>>
  BY <1>1, <1>2 DEF S!Create, S!GoTo, S!IdOf
<1>4. /\ d \in S!Call /\ d.id = c.id
      /\ d.pc = (IF m_storage[c.id] = Absent THEN "insert" ELSE "find")
  BY <1>2 DEF S!Call
<1>5. accessing'[t] = d
  BY <1>3 DEF SessionInv, S!TypeOK
<1>6. AccessOf(t)'
  BY <1>3, <1>4, <1>5 DEF AccessOf
<1> QED BY <1>1, <1>3, <1>4, <1>6, SessionGoesOn

\* A race changes nothing but undefined.
LEMMA SessionRace ==
    ASSUME SessionInv, NEW t \in Threads, S!Race(t)
    PROVE  SessionInv'
<1> USE DEF SessionInv, S!Race
<1>1. S!TypeOK'
  BY Zenon DEF S!TypeOK
<1>2. ObjectsInv' /\ AccessInv'
  BY DEF ObjectsInv, HasSession, AccessInv, AccessOf
<1>3. NullInv'
  BY DEF NullInv, Assigns
<1>4. S!ValuesLostOnlyByDoubleInsert'
  BY DEF S!ValuesLostOnlyByDoubleInsert
<1> QED BY <1>1, <1>2, <1>3, <1>4

\* What is found is the session of the id, or its entry is null still.
LEMMA SessionFind ==
    ASSUME SessionInv, NEW t \in Threads, S!Find(t)
    PROVE  SessionInv'
<1>1. PICK c \in S!Call : c = accessing[t] /\ c.pc = "find" /\ accessing[t] # nullptr
  BY DEF SessionInv, S!TypeOK, S!Find, S!At, S!Idle
<1>2. c.id \in Ids /\ m_storage[c.id] # Absent /\ m_storage[c.id] \in S!Sessions \cup {nullptr}
  BY <1>1 DEF SessionInv, S!TypeOK, AccessInv, AccessOf, S!Call
<1>3. m_storage' = m_storage
  BY <1>1, <1>2 DEF S!Find, S!IdOf, SessionInv, S!TypeOK
<1>4. PICK d : d = [c EXCEPT !.session = m_storage[c.id], !.pc = "session"]
  OBVIOUS
<1>5. /\ accessing' = [accessing EXCEPT ![t] = d]
      /\ UNCHANGED <<m_storage, m_session, made, undefined, freed, last, together>>
  BY <1>1, <1>3, <1>4 DEF S!Find, S!IdOf
<1>6. d \in S!Call /\ d.id = c.id /\ d.pc = "session" /\ d.session = m_storage[c.id]
  BY <1>2, <1>4 DEF S!Call
<1>7. accessing'[t] = d
  BY <1>5 DEF SessionInv, S!TypeOK
<1>8. AccessOf(t)'
  BY <1>2, <1>3, <1>6, <1>7 DEF AccessOf
<1> QED BY <1>1, <1>5, <1>6, <1>8, SessionGoesOn

\* An entry without a session; if there is one already, another thread that was
\* inserting the id too has made it.
LEMMA SessionInsert ==
    ASSUME SessionInv, NEW t \in Threads, S!Insert(t)
    PROVE  SessionInv'
<1> USE LibraryAssumption DEF SessionInv, S!SessionConstants
<1>1. PICK c \in S!Call : c = accessing[t] /\ c # nullptr /\ c.pc = "insert"
  BY DEF S!TypeOK, S!Insert, S!At, S!Idle
<1>2. PICK id \in Ids : id = c.id
  BY DEF S!Call
<1>3. PICK d : d = [c EXCEPT !.pc = "assign"]
  OBVIOUS
<1>4. d \in S!Call /\ d.id = id /\ d.pc = "assign" /\ d # nullptr
  BY <1>2, <1>3 DEF S!Call
<1>5. /\ accessing' = [accessing EXCEPT ![t] = d]
      /\ m_storage' = [m_storage EXCEPT ![id] = IF @ = Absent THEN nullptr ELSE @]
      /\ UNCHANGED <<m_session, made, undefined, freed, last>>
  BY <1>1, <1>2, <1>3 DEF S!Insert, S!GoTo, S!IdOf
<1>6. together \subseteq together' /\ together' \subseteq Ids
  BY <1>1, <1>2 DEF S!TypeOK, S!IdOf, S!Insert
<1>7. m_storage[id] = Absent \/ id \in together
  BY <1>1, <1>2 DEF AccessInv, AccessOf
<1>8. /\ accessing'[t] = d
      /\ \A u \in Threads \ {t} : accessing'[u] = accessing[u]
  BY <1>5 DEF S!TypeOK
<1>9. /\ m_storage'[id] = IF m_storage[id] = Absent THEN nullptr ELSE m_storage[id]
      /\ \A i \in Ids \ {id} : m_storage'[i] = m_storage[i]
  BY <1>5 DEF S!TypeOK
<1>10. S!TypeOK'
  <2>1. accessing' \in [Threads -> S!Call \cup {nullptr}]
    BY <1>4, <1>5 DEF S!TypeOK
  <2>2. m_storage' \in [Ids -> S!Sessions \cup {nullptr, Absent}]
    BY <1>5 DEF S!TypeOK
  <2> QED BY <1>5, <1>6, <2>1, <2>2, Zenon DEF S!TypeOK
<1>11. \A i \in Ids : /\ HasSession(i)' <=> HasSession(i)
                      /\ HasSession(i) => m_storage'[i] = m_storage[i]
  BY <1>9 DEF HasSession
<1>12. ObjectsInv'
  <2>1. \A i \in Ids : HasSession(i)' => m_storage'[i] \in 1 .. made'
    BY <1>5, <1>11 DEF ObjectsInv
  <2>2. ASSUME NEW i \in Ids, NEW j \in Ids, i # j, HasSession(i)'
        PROVE  m_storage'[i] # m_storage'[j]
    <3>1. m_storage'[i] = m_storage[i] /\ m_storage[i] # nullptr /\ m_storage[i] # m_storage[j]
      BY <1>11, <2>2 DEF ObjectsInv, HasSession
    <3> QED BY <1>9, <3>1
  <2> QED BY <1>5, <2>1, <2>2 DEF ObjectsInv
<1>13. \A u \in Threads \ {t} :
          accessing[u] # nullptr /\ accessing[u].pc = "insert" /\ accessing[u].id = id
              => id \in together'
  BY <1>1, <1>2 DEF S!Insert, S!AnotherInserts, S!At, S!Idle, S!IdOf
<1>14. ASSUME NEW u \in Threads, accessing'[u] # nullptr
       PROVE  AccessOf(u)'
  <2>1. CASE u = t
    BY <1>4, <1>6, <1>7, <1>8, <1>9, <2>1 DEF AccessOf
  <2>2. CASE u # t
    <3>1. AccessOf(u) /\ accessing'[u] = accessing[u] /\ accessing[u] \in S!Call
      BY <1>8, <1>14, <2>2 DEF AccessInv, S!TypeOK
    <3>2. CASE accessing[u].id # id
      <4>1. m_storage'[accessing[u].id] = m_storage[accessing[u].id]
        BY <1>9, <3>1, <3>2 DEF S!Call
      <4> QED BY <1>6, <3>1, <4>1 DEF AccessOf
    <3>3. CASE accessing[u].id = id
      <4>1. accessing[u].pc = "insert" => id \in together'
        BY <1>8, <1>13, <1>14, <2>2, <3>1, <3>3
      <4>2. m_storage[id] # Absent => m_storage'[id] = m_storage[id]
        BY <1>9
      <4> QED BY <1>6, <3>1, <3>3, <4>1, <4>2 DEF AccessOf
    <3> QED BY <3>2, <3>3
  <2> QED BY <2>1, <2>2
<1>15. \A u \in Threads \ {t} : \A i \in Ids : Assigns(u, i)' <=> Assigns(u, i)
  BY <1>8 DEF Assigns
<1>16. Assigns(t, id)' /\ \A i \in Ids : Assigns(t, i)' => i = id
  BY <1>4, <1>8 DEF Assigns
<1>17. NullInv'
  <2>1. ASSUME NEW u \in Threads \ {t}, Assigns(u, id)
        PROVE  id \in together'
    <3>1. m_storage[id] # Absent
      BY <2>1 DEF Assigns, AccessInv, AccessOf
    <3> QED BY <1>6, <1>7, <3>1
  <2>2. \A i \in Ids : \A u, v \in Threads :
            u # v /\ Assigns(u, i)' /\ Assigns(v, i)' => i \in together'
    BY <1>6, <1>15, <1>16, <2>1 DEF NullInv
  <2>3. \A i \in Ids : m_storage'[i] = nullptr => \E u \in Threads : Assigns(u, i)'
    <3>1. ASSUME NEW i \in Ids, i # id, m_storage'[i] = nullptr
          PROVE  \E u \in Threads : Assigns(u, i)'
      <4>1. PICK u \in Threads : Assigns(u, i)
        BY <1>9, <3>1 DEF NullInv
      <4>2. u # t
        BY <1>1, <4>1 DEF Assigns
      <4> QED BY <1>15, <4>1, <4>2
    <3> QED BY <1>16, <3>1
  <2> QED BY <2>2, <2>3 DEF NullInv
<1>18. S!ValuesLostOnlyByDoubleInsert'
  <2> SUFFICES ASSUME NEW i \in Ids, i \notin together'
               PROVE  /\ freed' # i
                      /\ \A k \in Keys :
                            last'[i][k] = IF m_storage'[i] \in {nullptr, Absent} THEN NoValue
                                          ELSE m_session'[m_storage'[i]][k]
    BY DEF S!ValuesLostOnlyByDoubleInsert
  <2>1. m_storage'[i] \in {nullptr, Absent} <=> m_storage[i] \in {nullptr, Absent}
    BY <1>11 DEF HasSession
  <2>2. m_storage[i] \notin {nullptr, Absent} => m_storage'[i] = m_storage[i]
    BY <1>11 DEF HasSession
  <2> QED BY <1>5, <1>6, <2>1, <2>2 DEF S!ValuesLostOnlyByDoubleInsert
<1> QED BY <1>10, <1>12, <1>14, <1>17, <1>18 DEF AccessInv

\* A new object, or the end of one that another thread has put in since: then
\* both were inserting.
LEMMA SessionAssign ==
    ASSUME SessionInv, NEW t \in Threads, S!Assign(t)
    PROVE  SessionInv'
<1> USE LibraryAssumption DEF SessionInv, S!SessionConstants
<1>1. PICK c \in S!Call : c = accessing[t] /\ c # nullptr /\ c.pc = "assign"
  BY DEF S!TypeOK, S!Assign, S!At, S!Idle
<1>2. PICK id \in Ids : id = c.id
  BY DEF S!Call
<1>3. PICK d : d = [c EXCEPT !.pc = "find"]
  OBVIOUS
<1>4. d \in S!Call /\ d.id = id /\ d.pc = "find" /\ d # nullptr
  BY <1>2, <1>3 DEF S!Call
<1>5. PICK s : s = made + 1
  OBVIOUS
<1>6. /\ accessing' = [accessing EXCEPT ![t] = d]
      /\ m_storage' = [m_storage EXCEPT ![id] = s] /\ made' = s
      /\ UNCHANGED <<m_session, undefined, freed, last, together>>
  BY <1>1, <1>2, <1>3, <1>5 DEF S!Assign, S!GoTo, S!IdOf
<1>7. made \in Nat /\ s \in S!Sessions /\ s \in 0 .. MaxCalls /\ s # nullptr /\ s # Absent
  BY <1>5 DEF S!TypeOK, S!Sessions, S!Assign
<1>8. m_storage[id] # Absent /\ (m_storage[id] = nullptr \/ id \in together)
  BY <1>1, <1>2 DEF AccessInv, AccessOf
<1>9. /\ accessing'[t] = d
      /\ \A u \in Threads \ {t} : accessing'[u] = accessing[u]
  BY <1>6 DEF S!TypeOK
<1>10. m_storage'[id] = s /\ \A i \in Ids \ {id} : m_storage'[i] = m_storage[i]
  BY <1>6 DEF S!TypeOK
<1>11. S!TypeOK'
  <2>1. accessing' \in [Threads -> S!Call \cup {nullptr}]
    BY <1>4, <1>6 DEF S!TypeOK
  <2>2. m_storage' \in [Ids -> S!Sessions \cup {nullptr, Absent}]
    BY <1>6, <1>7 DEF S!TypeOK
  <2> QED BY <1>6, <1>7, <2>1, <2>2, Zenon DEF S!TypeOK
<1>12. ObjectsInv'
  <2>1. \A i \in Ids \ {id} : HasSession(i)' <=> HasSession(i)
    BY <1>10 DEF HasSession
  <2>2. \A i \in Ids \ {id} : HasSession(i) => m_storage[i] \in 1 .. made
    BY DEF ObjectsInv
  <2>3. \A i \in Ids \ {id} : m_storage[i] # s
    BY <1>5, <1>7, <2>2 DEF HasSession
  <2>4. \A i \in Ids : HasSession(i)' => m_storage'[i] \in 1 .. made'
    BY <1>5, <1>6, <1>7, <1>10, <2>1, <2>2
  <2>5. \A i, j \in Ids : i # j /\ HasSession(i)' => m_storage'[i] # m_storage'[j]
    BY <1>10, <2>1, <2>3 DEF ObjectsInv
  <2>6. \A r \in S!Sessions : r > made' => \A k \in Keys : m_session'[r][k] = NoValue
    <3>1. \A r \in S!Sessions : r > s => r > made
      BY <1>5, <1>7 DEF S!Sessions
    <3> QED BY <1>6, <3>1 DEF ObjectsInv
  <2> QED BY <2>4, <2>5, <2>6 DEF ObjectsInv
<1>13. \A u \in Threads \ {t} : Assigns(u, id) => id \in together
  BY <1>1, <1>2 DEF NullInv, Assigns
<1>14. ASSUME NEW u \in Threads, accessing'[u] # nullptr
       PROVE  AccessOf(u)'
  <2>1. CASE u = t
    BY <1>4, <1>7, <1>9, <1>10, <2>1 DEF AccessOf
  <2>2. CASE u # t
    <3>1. AccessOf(u) /\ accessing'[u] = accessing[u] /\ accessing[u] \in S!Call
      BY <1>9, <1>14, <2>2 DEF AccessInv, S!TypeOK
    <3>2. CASE accessing[u].id # id
      <4>1. m_storage'[accessing[u].id] = m_storage[accessing[u].id]
        BY <1>10, <3>1, <3>2 DEF S!Call
      <4> QED BY <1>6, <3>1, <4>1 DEF AccessOf
    <3>3. CASE accessing[u].id = id
      <4>1. accessing[u].pc = "assign" => id \in together
        BY <1>13, <1>14, <2>2, <3>1, <3>3 DEF Assigns
      <4> QED BY <1>6, <1>7, <1>8, <1>10, <3>1, <3>3, <4>1 DEF AccessOf
    <3> QED BY <3>2, <3>3
  <2> QED BY <2>1, <2>2
<1>15. NullInv'
  <2>1. \A u \in Threads, i \in Ids : Assigns(u, i)' <=> u # t /\ Assigns(u, i)
    BY <1>4, <1>9 DEF Assigns
  <2>2. \A i \in Ids : \A u, v \in Threads :
            u # v /\ Assigns(u, i)' /\ Assigns(v, i)' => i \in together'
    BY <1>6, <2>1 DEF NullInv
  <2>3. ASSUME NEW i \in Ids, m_storage'[i] = nullptr
        PROVE  \E u \in Threads : Assigns(u, i)'
    <3>1. i # id /\ m_storage[i] = nullptr
      BY <1>7, <1>10, <2>3
    <3>2. PICK u \in Threads : Assigns(u, i)
      BY <3>1 DEF NullInv
    <3>3. u # t
      BY <1>1, <1>2, <3>1, <3>2 DEF Assigns
    <3> QED BY <2>1, <3>2, <3>3
  <2> QED BY <2>2, <2>3 DEF NullInv
<1>16. S!ValuesLostOnlyByDoubleInsert'
  <2> SUFFICES ASSUME NEW i \in Ids, i \notin together'
               PROVE  /\ freed' # i
                      /\ \A k \in Keys :
                            last'[i][k] = IF m_storage'[i] \in {nullptr, Absent} THEN NoValue
                                          ELSE m_session'[m_storage'[i]][k]
    BY DEF S!ValuesLostOnlyByDoubleInsert
  <2>1. i \notin together
    BY <1>6
  <2>2. CASE i # id
    BY <1>6, <1>10, <2>1, <2>2 DEF S!ValuesLostOnlyByDoubleInsert
  <2>3. CASE i = id
    <3>1. m_storage[i] = nullptr /\ m_storage'[i] = s
      BY <1>8, <1>10, <2>1, <2>3
    <3>2. s > made
      BY <1>5, <1>7
    <3>3. \A k \in Keys : m_session[s][k] = NoValue
      BY <1>7, <3>2 DEF ObjectsInv
    <3> QED BY <1>6, <1>7, <2>1, <3>1, <3>3 DEF S!ValuesLostOnlyByDoubleInsert
  <2> QED BY <2>2, <2>3
<1> QED BY <1>11, <1>12, <1>14, <1>15, <1>16 DEF AccessInv

\* The value goes into the id's session, or the session has ended, or there was
\* none yet.
LEMMA SessionInSession ==
    ASSUME SessionInv, NEW t \in Threads, S!InSession(t)
    PROVE  SessionInv'
<1> USE LibraryAssumption DEF SessionInv, S!SessionConstants
<1>1. PICK a \in S!Call : a = accessing[t] /\ a # nullptr /\ a.pc = "session"
  BY DEF S!TypeOK, S!InSession, S!At, S!Idle
<1>2. /\ a.id \in Ids /\ a.key \in Keys /\ a.value \in Values \cup {NoValue}
      /\ a.session \in S!Sessions \cup {nullptr} /\ AccessOf(t)
  BY <1>1 DEF S!Call, AccessInv
<1>3. accessing' = [accessing EXCEPT ![t] = nullptr]
  BY DEF S!InSession
<1>4. m_storage' = m_storage /\ made' = made /\ together' = together
  BY DEF S!InSession
<1>5. accessing'[t] = nullptr /\ \A u \in Threads \ {t} : accessing'[u] = accessing[u]
  BY <1>3 DEF S!TypeOK
<1>6. AccessInv'
  BY <1>4, <1>5 DEF AccessInv, AccessOf
<1>7. NullInv'
  <2>1. \A u \in Threads, i \in Ids : Assigns(u, i)' <=> Assigns(u, i)
    BY <1>1, <1>5 DEF Assigns
  <2> QED BY <1>4, <2>1 DEF NullInv
<1>8. accessing' \in [Threads -> S!Call \cup {nullptr}]
  BY <1>3 DEF S!TypeOK
<1>9. CASE a.session = nullptr
  <2>1. undefined' = TRUE /\ m_session' = m_session /\ freed' = freed /\ last' = last
    BY <1>1, <1>9 DEF S!InSession
  <2>2. S!TypeOK'
    BY <1>4, <1>8, <2>1, Zenon DEF S!TypeOK
  <2>3. ObjectsInv' /\ S!ValuesLostOnlyByDoubleInsert'
    BY <1>4, <2>1 DEF ObjectsInv, HasSession, S!ValuesLostOnlyByDoubleInsert
  <2> QED BY <1>6, <1>7, <2>2, <2>3
<1>10. CASE a.session # nullptr /\ a.session # m_storage[a.id]
  <2>1. a.id \in together
    BY <1>1, <1>2, <1>10 DEF AccessOf
  <2>2. freed' = a.id /\ m_session' = m_session /\ last' = last /\ undefined' = undefined
    BY <1>1, <1>10 DEF S!InSession
  <2>3. S!TypeOK'
    BY <1>2, <1>4, <1>8, <2>2, Zenon DEF S!TypeOK
  <2>4. ObjectsInv'
    BY <1>4, <2>2 DEF ObjectsInv, HasSession
  <2>5. S!ValuesLostOnlyByDoubleInsert'
    BY <1>4, <2>1, <2>2 DEF S!ValuesLostOnlyByDoubleInsert
  <2> QED BY <1>6, <1>7, <2>3, <2>4, <2>5
<1>11. CASE a.session # nullptr /\ a.session = m_storage[a.id] /\ a.op # "set"
  <2>1. freed' = freed /\ m_session' = m_session /\ last' = last /\ undefined' = undefined
    BY <1>1, <1>11 DEF S!InSession
  <2>2. S!TypeOK'
    BY <1>4, <1>8, <2>1, Zenon DEF S!TypeOK
  <2>3. ObjectsInv' /\ S!ValuesLostOnlyByDoubleInsert'
    BY <1>4, <2>1 DEF ObjectsInv, HasSession, S!ValuesLostOnlyByDoubleInsert
  <2> QED BY <1>6, <1>7, <2>2, <2>3
<1>12. CASE a.session # nullptr /\ a.session = m_storage[a.id] /\ a.op = "set"
  <2>1. /\ freed' = freed /\ undefined' = undefined
        /\ m_session' = [m_session EXCEPT ![a.session][a.key] = a.value]
        /\ last' = [last EXCEPT ![a.id][a.key] = a.value]
    BY <1>1, <1>12 DEF S!InSession
  <2>2. a.session \in S!Sessions /\ HasSession(a.id)
    BY <1>2, <1>12 DEF HasSession
  <2>3. S!TypeOK'
    <3>1. /\ m_session' \in [S!Sessions -> [Keys -> Values \cup {NoValue}]]
          /\ last' \in [Ids -> [Keys -> Values \cup {NoValue}]]
      BY <1>2, <2>1, <2>2 DEF S!TypeOK
    <3> QED BY <1>4, <1>8, <2>1, <3>1, Zenon DEF S!TypeOK
  <2>4. ObjectsInv'
    <3>1. a.session \in 1 .. made /\ made \in Nat
      BY <1>2, <1>12, <2>2 DEF ObjectsInv, S!TypeOK
    <3>2. \A s \in S!Sessions : s > made => m_session'[s] = m_session[s]
      BY <2>1, <2>2, <3>1 DEF S!TypeOK
    <3> QED BY <1>4, <3>2 DEF ObjectsInv, HasSession
  <2>5. ASSUME NEW i \in Ids, i \notin together, NEW k \in Keys
        PROVE  /\ freed' # i
               /\ last'[i][k] = IF m_storage'[i] \in {nullptr, Absent} THEN NoValue
                                ELSE m_session'[m_storage'[i]][k]
    <3>1. CASE i = a.id
      BY <1>2, <1>4, <1>12, <2>1, <2>2, <2>5, <3>1
         DEF S!ValuesLostOnlyByDoubleInsert, S!TypeOK, HasSession
    <3>2. CASE i # a.id
      <4>1. last'[i] = last[i]
        BY <1>2, <2>1, <3>2 DEF S!TypeOK
      <4>2. HasSession(i) => m_session'[m_storage[i]] = m_session[m_storage[i]]
        BY <1>2, <1>12, <2>1, <2>2, <3>2 DEF ObjectsInv, S!TypeOK, HasSession
      <4> QED BY <1>4, <2>1, <2>5, <4>1, <4>2 DEF S!ValuesLostOnlyByDoubleInsert, HasSession
    <3> QED BY <3>1, <3>2
  <2>6. S!ValuesLostOnlyByDoubleInsert'
    <3>1. \A i \in Ids \ together : freed' # i
      BY <2>1 DEF S!ValuesLostOnlyByDoubleInsert
    <3> QED BY <1>4, <2>5, <3>1 DEF S!ValuesLostOnlyByDoubleInsert
  <2> QED BY <1>6, <1>7, <2>3, <2>4, <2>6
<1> QED BY <1>9, <1>10, <1>11, <1>12

\* The invariant speaks of the session storage only.
LEMMA SessionUnchanged ==
    ASSUME SessionInv, UNCHANGED sessionVars
    PROVE  SessionInv'
<1> USE DEF SessionInv, sessionVars
<1>1. S!TypeOK'
  BY Zenon DEF S!TypeOK
<1>2. ObjectsInv' /\ AccessInv'
  BY DEF ObjectsInv, HasSession, AccessInv, AccessOf
<1>3. NullInv'
  BY DEF NullInv, Assigns
<1>4. S!ValuesLostOnlyByDoubleInsert'
  BY DEF S!ValuesLostOnlyByDoubleInsert
<1> QED BY <1>1, <1>2, <1>3, <1>4

\* every step of Library is one of the session storage, or leaves it alone
LEMMA SessionNext ==
    ASSUME SessionInv, [Next]_vars
    PROVE  SessionInv'
<1>1. CASE UNCHANGED sessionVars
  BY <1>1, SessionUnchanged
<1>2. CASE \E t \in Threads : CallSessionStorage(t)
  BY <1>2, SessionStart DEF CallSessionStorage
<1>3. CASE \E t \in Threads : SessionStep(t)
  <2> PICK t \in Threads : S!Step(t)
    BY <1>3 DEF SessionStep
  <2> QED BY SessionCount, SessionCreate, SessionInsert, SessionAssign, SessionRace,
             SessionFind, SessionInSession DEF S!Step
<1>4. [Next]_vars => \/ UNCHANGED sessionVars
                     \/ \E t \in Threads : CallSessionStorage(t) \/ SessionStep(t)
  BY DEF Next, Call, CallLog, CallFormatUnixtime, CallDecode, LogStep, DecodeStep, Tick, vars, sessionVars
<1> QED BY <1>1, <1>2, <1>3, <1>4

\* SessionInv holds in every reachable state.
LEMMA SessionInvariant == Spec => []SessionInv
<1>1. Init => SessionInv
  BY SessionInit
<1>2. SessionInv /\ [Next]_vars => SessionInv'
  BY SessionNext
<1> QED BY <1>1, <1>2, PTL DEF Spec

\* For any number of threads, identifiers and calls: a session's values are
\* what was stored last, and no call uses a session that has ended, unless two
\* threads were in create_session about to insert its identifier.
THEOREM ValuesSurvive == Spec => []ValuesLostOnlyByDoubleInsert
<1>1. SessionInv => ValuesLostOnlyByDoubleInsert
  BY DEF SessionInv, ValuesLostOnlyByDoubleInsert
<1> QED BY <1>1, SessionInvariant, PTL

\* For any number of threads, identifiers and calls: set_value and get_value
\* find an entry for an id that was counted or created, and a null pointer in it
\* only while another thread is in create_session between the two parts of
\* m_storage[id] = ..., the insertion of the entry and its assignment.
THEOREM NoMissingSession == Spec => []SessionsAreThere
<1>1. ASSUME SessionInv
      PROVE  SessionsAreThere
  <2> SUFFICES ASSUME NEW t \in Threads, accessing[t] # nullptr, accessing[t].pc = "find"
               PROVE  /\ m_storage[accessing[t].id] # Absent
                      /\ m_storage[accessing[t].id] = nullptr =>
                            \E u \in Threads \ {t} : Assigns(u, accessing[t].id)
    BY DEF SessionsAreThere, S!SessionsAreThere, S!Idle, S!IdOf, Assigns
  <2>1. accessing[t].id \in Ids /\ m_storage[accessing[t].id] # Absent
    BY <1>1 DEF SessionInv, AccessInv, AccessOf, S!TypeOK, S!Call
  <2>2. \A u \in Threads : Assigns(u, accessing[t].id) => u # t
    BY DEF Assigns
  <2> QED BY <1>1, <2>1, <2>2 DEF SessionInv, NullInv
<1> QED BY <1>1, SessionInvariant, PTL

-----------------------------------------------------------------------------
CallsInv == calls \in 0 .. MaxCalls

\* Every reachable state is well typed, for any number of threads, logs,
\* identifiers, texts and calls: what the log, the session storage and
\* base64_decode keep, whichever of their steps are mixed.
THEOREM TypeCorrect == Spec => []TypeOK
<1>1. Init => CallsInv
  BY LibraryAssumption DEF Init, CallsInv
<1>2. CallsInv /\ [Next]_vars => CallsInv'
  <2> SUFFICES ASSUME CallsInv, [Next]_vars
               PROVE  CallsInv'
    OBVIOUS
  <2>1. calls' = calls \/ (calls < MaxCalls /\ calls' = calls + 1)
    BY DEF Next, Call, LogStep, SessionStep, DecodeStep, Tick, vars
  <2> QED BY <2>1, LibraryAssumption DEF CallsInv
<1>3. Spec => []CallsInv
  BY <1>1, <1>2, PTL DEF Spec
<1>4. CallsInv /\ LogInv /\ SessionInv /\ DecodeInv => TypeOK
  BY DEF CallsInv, LogInv, SessionInv, DecodeInv, TypeOK
<1> QED BY <1>3, <1>4, LogInvariant, SessionInvariant, DecodeInvariant, PTL
=============================================================================
