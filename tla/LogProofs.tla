----------------------------- MODULE LogProofs -----------------------------
(***************************************************************************)
(* What TLAPS proves of the log for any number of threads, log objects,    *)
(* responses and lines, while any other calls of Library go on: which      *)
(* times a line can be stamped with although localtime has one buffer for  *)
(* all, and when a log can go back in time.  Every foreign stamp is traced *)
(* to a use of the buffer that overlaps the line's own, because a thread   *)
(* that fills the buffer between another one's localtime and strftime      *)
(* holds another mutex or, in format_unixtime, none.                       *)
(***************************************************************************)
EXTENDS Library, SequenceTheorems, TLAPS

Time == 0 .. MaxTime

\* u is a use of the buffer by another log than l, or by a response
OtherUse(l, u) ==
    \/ \E i \in DOMAIN file : file[i].log # l /\ u = L!UseOfLine(file[i])
    \/ \E t \in Threads : writing[t] # nullptr /\ writing[t].log # l /\ u = L!UseOf(writing[t])
    \/ u \in formatted

\* x is a time of the call from b to e, or one of an overlapping use
Stamped(l, b, e, x) ==
    \/ b <= x /\ x <= e
    \/ \E u \in L!Use :
          OtherUse(l, u) /\ u.begun <= e /\ b <= u.ended /\ u.first <= x /\ x <= u.last

\* a thread in write has the mutex; its time is one of its call, and so is what
\* it formats, or of an overlapping use
WritingOf(t) ==
    LET c == writing[t]
    IN  /\ c.begun <= now
        /\ c.log = nullptr => c.pc \in {"localtime", "strftime"}
        /\ c.log # nullptr =>
              /\ m_mutex[c.log] = t
              /\ c.pc = "localtime" => c.begun <= c.rawtime /\ c.rawtime <= now
              /\ c.pc = "strftime" => Stamped(c.log, c.begun, now, timeinfo)
              /\ c.pc = "append" => Stamped(c.log, c.begun, now, c.stamp)

WritingInv == \A t \in Threads : writing[t] # nullptr => WritingOf(t)

\* the calls that wrote the lines of a log came one after the other
LineOf(i) ==
    /\ file[i].begun <= file[i].ended /\ file[i].ended <= now
    /\ Stamped(file[i].log, file[i].begun, file[i].ended, file[i].stamp)
    /\ \A t \in Threads : writing[t] # nullptr /\ writing[t].log = file[i].log
                            => file[i].ended <= writing[t].begun

FileInv ==
    /\ \A i \in DOMAIN file : LineOf(i)
    /\ \A i, j \in DOMAIN file :
          i < j /\ file[i].log = file[j].log => file[i].ended <= file[j].begun

LogInv == L!TypeOK /\ WritingInv /\ FileInv

\* what is stamped stays so, also when the call goes on to a later time
Grows ==
    \A l \in Logs : \A b, e, x, f \in Time :
        Stamped(l, b, e, x) /\ e <= f => Stamped(l, b, f, x)'
-----------------------------------------------------------------------------
\* No call and no line at the start.
LEMMA LogInit ==
    ASSUME Init
    PROVE  LogInv
<1> USE LibraryAssumption DEF Init, L!Init, L!LogConstants
<1>1. L!TypeOK
  BY DEF L!TypeOK
<1>2. WritingInv
  BY DEF WritingInv
<1>3. FileInv
  BY DEF FileInv
<1> QED BY <1>1, <1>2, <1>3 DEF LogInv

\* What the invariant says of a thread inside write or format_unixtime.
LEMMA LogFacts ==
    ASSUME LogInv
    PROVE  /\ MaxTime \in Nat /\ now \in Time /\ timeinfo \in Time /\ nullptr \notin Logs
           /\ \A t \in Threads : writing[t] # nullptr =>
                 /\ writing[t] \in L!Call /\ writing[t].log \in Logs \cup {nullptr}
                 /\ writing[t].begun \in Time /\ writing[t].rawtime \in Time
                 /\ writing[t].stamp \in Time
           /\ \A i \in DOMAIN file :
                 /\ file[i].log \in Logs /\ file[i].begun \in Time
                 /\ file[i].stamp \in Time /\ file[i].ended \in Time
<1>1. MaxTime \in Nat /\ now \in Time /\ timeinfo \in Time /\ nullptr \notin Logs
  BY LibraryAssumption DEF LogInv, L!TypeOK, L!LogConstants, Time
<1>2. ASSUME NEW t \in Threads, writing[t] # nullptr
      PROVE  /\ writing[t] \in L!Call /\ writing[t].log \in Logs \cup {nullptr}
             /\ writing[t].begun \in Time /\ writing[t].rawtime \in Time
             /\ writing[t].stamp \in Time
  <2>1. writing[t] \in L!Call
    BY <1>2 DEF LogInv, L!TypeOK
  <2> QED BY <2>1 DEF L!Call, Time
<1>3. ASSUME NEW i \in DOMAIN file
      PROVE  /\ file[i].log \in Logs /\ file[i].begun \in Time
             /\ file[i].stamp \in Time /\ file[i].ended \in Time
  <2>1. file[i] \in L!FileLine
    BY <1>3 DEF LogInv, L!TypeOK
  <2> QED BY <2>1 DEF L!FileLine, Time
<1> QED BY <1>1, <1>2, <1>3

\* a use of the buffer lasts until now, and what it may put there with it
LEMMA UseFacts ==
    ASSUME LogInv, NEW c \in L!Call
    PROVE  /\ L!UseOf(c) \in L!Use /\ L!UseOf(c).begun = c.begun /\ L!UseOf(c).ended = now
           /\ L!UseOf(c).first = (IF c.log = nullptr THEN c.rawtime ELSE c.begun)
           /\ L!UseOf(c).last = (IF c.log = nullptr THEN c.rawtime ELSE now)
<1>1. now \in Time /\ c.begun \in Time /\ c.rawtime \in Time
  BY LogFacts DEF L!Call, Time
<1> QED BY <1>1 DEF L!UseOf, L!Use, Time

\* A step that keeps the lines, and in which every use of the buffer goes on,
\* becomes a line's or is one of a response that has returned.
LEMMA UsesStay ==
    ASSUME LogInv, L!TypeOK', now <= now', formatted \subseteq formatted',
           \A i \in DOMAIN file : i \in DOMAIN file' /\ file'[i] = file[i],
           \A t \in Threads : writing[t] # nullptr =>
               \/ /\ writing'[t] # nullptr /\ writing'[t].log = writing[t].log
                  /\ writing'[t].begun = writing[t].begun
                  /\ writing[t].log = nullptr => writing'[t].rawtime = writing[t].rawtime
               \/ \E i \in DOMAIN file' :
                     file'[i].log = writing[t].log /\ L!UseOf(writing[t]) = L!UseOfLine(file'[i])
               \/ L!UseOf(writing[t]) \in formatted'
    PROVE  Grows
<1>1. now' \in Time /\ now \in Time /\ MaxTime \in Nat
  BY LogFacts DEF L!TypeOK, Time
<1>2. ASSUME NEW l \in Logs, NEW u \in L!Use, OtherUse(l, u)
      PROVE  \E v \in L!Use : /\ OtherUse(l, v)'
                              /\ v.begun = u.begun /\ u.ended <= v.ended
                              /\ v.first = u.first /\ u.last <= v.last
  <2>1. u.ended \in Nat /\ u.last \in Nat /\ u.ended <= u.ended /\ u.last <= u.last
    BY <1>1 DEF L!Use
  <2>2. CASE \E i \in DOMAIN file : file[i].log # l /\ u = L!UseOfLine(file[i])
    <3>1. PICK i \in DOMAIN file : file[i].log # l /\ u = L!UseOfLine(file[i])
      BY <2>2
    <3>2. i \in DOMAIN file' /\ file'[i] = file[i]
      BY <3>1
    <3>3. file'[i].log # l /\ u = L!UseOfLine(file'[i])
      BY <3>1, <3>2
    <3>4. OtherUse(l, u)'
      BY <3>2, <3>3 DEF OtherUse, L!UseOfLine
    <3> QED BY <2>1, <3>4
  <2>3. CASE u \in formatted
    <3>1. OtherUse(l, u)'
      BY <2>3 DEF OtherUse
    <3> QED BY <2>1, <3>1
  <2>4. ASSUME NEW t \in Threads, writing[t] # nullptr, writing[t].log # l,
               u = L!UseOf(writing[t])
        PROVE  \E v \in L!Use : /\ OtherUse(l, v)'
                                /\ v.begun = u.begun /\ u.ended <= v.ended
                                /\ v.first = u.first /\ u.last <= v.last
    <3>1. PICK c \in L!Call : c = writing[t]
      BY <2>4, LogFacts
    <3>2. CASE /\ writing'[t] # nullptr /\ writing'[t].log = writing[t].log
               /\ writing'[t].begun = writing[t].begun
               /\ writing[t].log = nullptr => writing'[t].rawtime = writing[t].rawtime
      <4>1. PICK d \in L!Call : d = writing'[t]
        BY <3>2 DEF L!TypeOK
      <4>2. PICK v : v = IF d.log = nullptr
                         THEN [begun |-> d.begun, ended |-> now', first |-> d.rawtime,
                               last |-> d.rawtime]
                         ELSE [begun |-> d.begun, ended |-> now', first |-> d.begun,
                               last |-> now']
        OBVIOUS
      <4>3. d.begun \in Time /\ d.rawtime \in Time
        BY DEF L!Call, Time
      <4>4. v \in L!Use /\ v.begun = d.begun /\ v.ended = now'
            /\ v.first = (IF d.log = nullptr THEN d.rawtime ELSE d.begun)
            /\ v.last = (IF d.log = nullptr THEN d.rawtime ELSE now')
        BY <1>1, <4>2, <4>3 DEF L!Use, Time
      <4>5. v = L!UseOf(writing[t])'
        BY <4>1, <4>2 DEF L!UseOf
      <4>6. OtherUse(l, v)'
        BY <2>4, <3>2, <4>5 DEF OtherUse
      <4>7. d.log = c.log /\ d.begun = c.begun /\ (c.log = nullptr => d.rawtime = c.rawtime)
        BY <3>1, <3>2, <4>1
      <4>8. /\ u.begun = c.begun /\ u.ended = now
            /\ u.first = (IF c.log = nullptr THEN c.rawtime ELSE c.begun)
            /\ u.last = (IF c.log = nullptr THEN c.rawtime ELSE now)
        BY <2>4, <3>1, UseFacts
      <4>9. v.begun = u.begun /\ u.ended <= v.ended /\ v.first = u.first
        BY <4>4, <4>7, <4>8
      <4>10. u.last <= v.last
        BY <2>1, <4>4, <4>7, <4>8
      <4> QED BY <4>4, <4>6, <4>9, <4>10
    <3>3. ASSUME NEW i \in DOMAIN file', file'[i].log = writing[t].log,
                 L!UseOf(writing[t]) = L!UseOfLine(file'[i])
          PROVE  \E v \in L!Use : /\ OtherUse(l, v)'
                                  /\ v.begun = u.begun /\ u.ended <= v.ended
                                  /\ v.first = u.first /\ u.last <= v.last
      <4>1. file'[i].log # l /\ u = L!UseOfLine(file'[i])
        BY <2>4, <3>3
      <4>2. OtherUse(l, u)'
        BY <4>1 DEF OtherUse, L!UseOfLine
      <4> QED BY <2>1, <4>2
    <3>4. CASE L!UseOf(writing[t]) \in formatted'
      <4>1. OtherUse(l, u)'
        BY <2>4, <3>4 DEF OtherUse
      <4> QED BY <2>1, <4>1
    <3> QED BY <2>4, <3>2, <3>3, <3>4
  <2> QED BY <1>2, <2>2, <2>3, <2>4 DEF OtherUse
<1>3. ASSUME NEW l \in Logs, NEW b \in Time, NEW e \in Time, NEW x \in Time, NEW f \in Time,
             Stamped(l, b, e, x), e <= f
      PROVE  Stamped(l, b, f, x)'
  <2>1. CASE b <= x /\ x <= e
    <3>1. b <= x /\ x <= f
      BY <1>3, <2>1 DEF Time
    <3> QED BY <3>1 DEF Stamped
  <2>2. ASSUME NEW u \in L!Use, OtherUse(l, u), u.begun <= e, b <= u.ended,
               u.first <= x, x <= u.last
        PROVE  Stamped(l, b, f, x)'
    <3>1. PICK v \in L!Use : /\ OtherUse(l, v)'
                             /\ v.begun = u.begun /\ u.ended <= v.ended
                             /\ v.first = u.first /\ u.last <= v.last
      BY <1>2, <2>2
    <3>2. /\ u.begun \in Nat /\ u.ended \in Nat /\ u.first \in Nat /\ u.last \in Nat
          /\ v.ended \in Nat /\ v.last \in Nat
      BY <1>1 DEF L!Use
    <3>3. v.begun <= f /\ b <= v.ended /\ v.first <= x /\ x <= v.last
      BY <1>3, <2>2, <3>1, <3>2 DEF Time
    <3> QED BY <3>1, <3>3 DEF Stamped
  <2> QED BY <1>3, <2>1, <2>2 DEF Stamped
<1> QED BY <1>3 DEF Grows

\* What is true of a thread stays so in a step of t, which may fill the buffer
\* with what its use allows.
LEMMA OthersStay ==
    ASSUME LogInv, Grows, L!TypeOK', now <= now', NEW t \in Threads, NEW u \in Threads,
           writing[u] # nullptr, writing'[u] = writing[u],
           writing[u].log # nullptr => m_mutex'[writing[u].log] = u,
           \/ timeinfo' = timeinfo
           \/ /\ t # u /\ writing[t] # nullptr /\ now' = now
              /\ L!UseOf(writing[t]).first <= timeinfo' /\ timeinfo' <= L!UseOf(writing[t]).last
    PROVE  WritingOf(u)'
<1>1. /\ now \in Time /\ now' \in Time /\ timeinfo \in Time /\ timeinfo' \in Time
      /\ nullptr \notin Logs
  BY LogFacts DEF L!TypeOK, Time
<1>2. PICK c \in L!Call : c = writing[u]
  BY LogFacts
<1>3. /\ c.log \in Logs \cup {nullptr} /\ c.begun \in Time /\ c.rawtime \in Time
      /\ c.stamp \in Time
  BY <1>2, LogFacts
<1>4. WritingOf(u)
  BY DEF LogInv, WritingInv
<1>5. c.begun <= now'
  BY <1>1, <1>2, <1>3, <1>4 DEF WritingOf, Time
<1>6. c.log = nullptr => c.pc \in {"localtime", "strftime"}
  BY <1>2, <1>4 DEF WritingOf
<1>7. PICK n \in Time, x \in Time : n = now' /\ x = timeinfo'
  BY <1>1
<1>8. ASSUME c.log # nullptr
      PROVE  /\ m_mutex'[c.log] = u
             /\ c.pc = "localtime" => c.begun <= c.rawtime /\ c.rawtime <= n
             /\ c.pc = "strftime" => Stamped(c.log, c.begun, n, x)'
             /\ c.pc = "append" => Stamped(c.log, c.begun, n, c.stamp)'
  <2>1. c.log \in Logs
    BY <1>3, <1>8
  <2>2. m_mutex'[c.log] = u
    BY <1>2, <1>8
  <2>3. c.pc = "localtime" => c.begun <= c.rawtime /\ c.rawtime <= n
    BY <1>1, <1>2, <1>3, <1>4, <1>7, <1>8 DEF WritingOf, Time
  <2>4. c.pc = "append" => Stamped(c.log, c.begun, now, c.stamp)
    BY <1>2, <1>4, <1>8 DEF WritingOf
  <2>6. c.pc = "append" => Stamped(c.log, c.begun, n, c.stamp)'
    BY <1>1, <1>3, <2>1, <2>4, <1>7 DEF Grows
  <2>7. ASSUME c.pc = "strftime"
        PROVE  Stamped(c.log, c.begun, n, x)'
    <3>1. Stamped(c.log, c.begun, now, timeinfo)
      BY <1>2, <1>4, <1>8, <2>7 DEF WritingOf
    <3>2. CASE timeinfo' = timeinfo
      BY <1>1, <1>3, <2>1, <1>7, <3>1, <3>2 DEF Grows
    <3>3. CASE /\ t # u /\ writing[t] # nullptr /\ now' = now
               /\ L!UseOf(writing[t]).first <= timeinfo'
               /\ timeinfo' <= L!UseOf(writing[t]).last
      <4>1. PICK d \in L!Call : d = writing[t]
        BY <3>3, LogFacts
      <4>2. d.log # c.log
        BY <1>2, <1>4, <1>8, <3>3, <4>1 DEF LogInv, WritingInv, WritingOf
      <4>3. OtherUse(c.log, L!UseOf(d))
        BY <3>3, <4>1, <4>2 DEF OtherUse
      <4>4. /\ L!UseOf(d) \in L!Use /\ L!UseOf(d).begun = d.begun /\ L!UseOf(d).ended = now
        BY <4>1, UseFacts
      <4>5. d.begun <= now /\ c.begun <= now
        BY <1>2, <1>4, <3>3, <4>1 DEF LogInv, WritingInv, WritingOf
      <4>6. Stamped(c.log, c.begun, now, x)
        BY <1>7, <3>3, <4>1, <4>3, <4>4, <4>5 DEF Stamped
      <4>7. now <= n
        BY <1>7
      <4> QED BY <1>1, <1>3, <2>1, <1>7, <4>6, <4>7 DEF Grows
    <3> QED BY <3>2, <3>3
  <2> QED BY <2>2, <2>3, <2>6, <2>7
<1>9. writing'[u] = c
  BY <1>2
<1> QED BY <1>5, <1>6, <1>7, <1>8, <1>9 DEF WritingOf

\* What is true of a line stays so.
LEMMA LinesStay ==
    ASSUME LogInv, Grows, now <= now', now' \in Time,
           NEW i \in DOMAIN file, file'[i] = file[i],
           \A u \in Threads : writing'[u] # nullptr /\ writing'[u].log = file[i].log =>
               file[i].ended <= writing'[u].begun
    PROVE  LineOf(i)'
<1>1. LineOf(i) /\ file[i].log \in Logs /\ file[i].begun \in Time
      /\ file[i].stamp \in Time /\ file[i].ended \in Time /\ now \in Time
  BY LogFacts DEF LogInv, FileInv
<1>2. PICK l \in Logs, b \in Time, e \in Time, x \in Time :
          l = file[i].log /\ b = file[i].begun /\ e = file[i].ended /\ x = file[i].stamp
  BY <1>1
<1>3. b <= e /\ e <= now' /\ e <= e
  BY <1>1, <1>2 DEF LineOf, Time
<1>4. Stamped(l, b, e, x)'
  BY <1>1, <1>2, <1>3 DEF LineOf, Grows
<1>5. file'[i].log = l /\ file'[i].begun = b /\ file'[i].ended = e /\ file'[i].stamp = x
  BY <1>2
<1> QED BY <1>3, <1>4, <1>5 DEF LineOf

-----------------------------------------------------------------------------
\* a step of a call that has begun and does not end: TakeTime, Localtime, Strftime
LEMMA LogCallGoesOn ==
    ASSUME LogInv, NEW t \in Threads, NEW c \in L!Call, NEW d \in L!Call,
           now' = now, file' = file, m_mutex' = m_mutex, formatted' = formatted,
           writing[t] = c, c # nullptr, d # nullptr,
           writing' = [writing EXCEPT ![t] = d],
           d.log = c.log, d.begun = c.begun, c.log = nullptr => d.rawtime = c.rawtime,
           timeinfo' \in Time,
           \/ timeinfo' = timeinfo
           \/ L!UseOf(c).first <= timeinfo' /\ timeinfo' <= L!UseOf(c).last,
           d.log = nullptr => d.pc \in {"localtime", "strftime"},
           d.log # nullptr =>
              /\ d.pc = "localtime" => d.begun <= d.rawtime /\ d.rawtime <= now
              /\ d.pc = "strftime" => Stamped(d.log, d.begun, now, timeinfo')
              /\ d.pc = "append" => Stamped(d.log, d.begun, now, d.stamp)
    PROVE  LogInv'
<1>1. L!TypeOK'
  BY DEF LogInv, L!TypeOK, Time
<1>2. writing'[t] = d /\ \A u \in Threads \ {t} : writing'[u] = writing[u]
  BY DEF LogInv, L!TypeOK
<1>3. now \in Time /\ now <= now /\ nullptr \notin Logs
  BY LogFacts DEF Time
<1>4. \A u \in Threads : writing[u] # nullptr =>
          /\ writing'[u] # nullptr /\ writing'[u].log = writing[u].log
          /\ writing'[u].begun = writing[u].begun
          /\ writing[u].log = nullptr => writing'[u].rawtime = writing[u].rawtime
  BY <1>2
<1>5. Grows
  BY <1>1, <1>3, <1>4, UsesStay
<1>6. WritingOf(t)'
  <2>1. WritingOf(t) /\ d.log \in Logs \cup {nullptr} /\ d.begun \in Time /\ d.stamp \in Time
    BY DEF LogInv, WritingInv, L!Call, Time
  <2>2. PICK n \in Time, x \in Time : n = now /\ x = timeinfo'
    BY <1>3
  <2>3. d.log # nullptr /\ d.pc = "strftime" => Stamped(d.log, d.begun, n, x)'
    BY <1>3, <1>5, <2>1, <2>2 DEF Grows
  <2>4. d.log # nullptr /\ d.pc = "append" => Stamped(d.log, d.begun, n, d.stamp)'
    BY <1>3, <1>5, <2>1, <2>2 DEF Grows
  <2>5. d.begun <= now /\ (d.log # nullptr => m_mutex[d.log] = t)
    BY <2>1 DEF WritingOf
  <2> QED BY <1>2, <2>2, <2>3, <2>4, <2>5 DEF WritingOf
<1>7. ASSUME NEW u \in Threads \ {t}, writing'[u] # nullptr
      PROVE  WritingOf(u)'
  <2>1. writing[u] # nullptr /\ writing'[u] = writing[u]
    BY <1>2, <1>7
  <2>2. writing[u].log # nullptr => m_mutex'[writing[u].log] = u
    BY <2>1 DEF LogInv, WritingInv, WritingOf
  <2> QED BY <1>1, <1>3, <1>5, <2>1, <2>2, OthersStay
<1>8. WritingInv'
  BY <1>6, <1>7 DEF WritingInv
<1>9. ASSUME NEW i \in DOMAIN file
      PROVE  LineOf(i)'
  <2>1. \A u \in Threads : writing'[u] # nullptr /\ writing'[u].log = file[i].log =>
            file[i].ended <= writing'[u].begun
    BY <1>2 DEF LogInv, FileInv, LineOf
  <2> QED BY <1>3, <1>5, <2>1, LinesStay
<1>10. FileInv'
  BY <1>9 DEF LogInv, FileInv
<1> QED BY <1>1, <1>8, <1>10 DEF LogInv

\* The time that is taken is one of the call.
LEMMA LogTakeTime ==
    ASSUME LogInv, NEW t \in Threads, L!TakeTime(t)
    PROVE  LogInv'
<1>1. PICK c \in L!Call : c = writing[t] /\ c # nullptr /\ WritingOf(t) /\ c.pc = "time"
  BY LogFacts DEF L!TakeTime, L!At, L!Idle, LogInv, WritingInv
<1>2. PICK d : d = [c EXCEPT !.rawtime = now, !.pc = "localtime"]
  OBVIOUS
<1>3. /\ writing' = [writing EXCEPT ![t] = d] /\ timeinfo' = timeinfo
      /\ now' = now /\ m_mutex' = m_mutex /\ file' = file /\ formatted' = formatted
  BY <1>1, <1>2 DEF L!TakeTime
<1>4. now \in Time /\ now <= now /\ timeinfo \in Time
  BY LogFacts DEF Time
<1>5. d \in L!Call
  BY <1>2, <1>4 DEF L!Call, Time
<1>6. d # nullptr
  BY <1>5, LibraryAssumption DEF L!LogConstants
<1>7. d.rawtime = now /\ d.pc = "localtime" /\ d.log = c.log /\ d.begun = c.begun
  BY <1>2 DEF L!Call
<1>8. c.log # nullptr /\ c.begun <= now
  BY <1>1 DEF WritingOf
<1> QED BY <1>1, <1>3, <1>4, <1>5, <1>6, <1>7, <1>8, LogCallGoesOn

\* The buffer gets a time of this call, or of the file that a response is of.
LEMMA LogLocaltime ==
    ASSUME LogInv, NEW t \in Threads, L!Localtime(t)
    PROVE  LogInv'
<1>1. PICK c \in L!Call : c = writing[t] /\ c # nullptr /\ WritingOf(t) /\ c.pc = "localtime"
  BY LogFacts DEF L!Localtime, L!At, L!Idle, LogInv, WritingInv
<1>2. PICK d : d = [c EXCEPT !.pc = "strftime"]
  OBVIOUS
<1>3. /\ writing' = [writing EXCEPT ![t] = d] /\ timeinfo' = c.rawtime
      /\ now' = now /\ m_mutex' = m_mutex /\ file' = file /\ formatted' = formatted
  BY <1>1, <1>2 DEF L!Localtime
<1>4. d \in L!Call
  BY <1>2 DEF L!Call
<1>5. d # nullptr
  BY <1>4, LibraryAssumption DEF L!LogConstants
<1>6. d.rawtime = c.rawtime /\ d.pc = "strftime" /\ d.log = c.log /\ d.begun = c.begun
  BY <1>2 DEF L!Call
<1>7. c.rawtime \in Time /\ c.rawtime <= c.rawtime
  BY DEF L!Call, Time
<1>8. c.log # nullptr => c.begun <= c.rawtime /\ c.rawtime <= now
  BY <1>1 DEF WritingOf
<1>9. L!UseOf(c).first <= c.rawtime /\ c.rawtime <= L!UseOf(c).last
  BY <1>7, <1>8, UseFacts
<1>10. c.log # nullptr => Stamped(c.log, c.begun, now, c.rawtime)
  BY <1>8 DEF Stamped
<1> QED BY <1>1, <1>3, <1>4, <1>5, <1>6, <1>7, <1>9, <1>10, LogCallGoesOn

\* What is formatted is what the buffer may have.
LEMMA LogStrftime ==
    ASSUME LogInv, NEW t \in Threads, L!Strftime(t)
    PROVE  LogInv'
<1>1. PICK c \in L!Call : /\ c = writing[t] /\ c # nullptr /\ WritingOf(t)
                          /\ c.pc = "strftime" /\ c.log # nullptr
  BY LogFacts DEF L!Strftime, L!At, L!Idle, LogInv, WritingInv
<1>2. PICK d : d = [c EXCEPT !.stamp = timeinfo, !.pc = "append"]
  OBVIOUS
<1>3. /\ writing' = [writing EXCEPT ![t] = d] /\ timeinfo' = timeinfo
      /\ now' = now /\ m_mutex' = m_mutex /\ file' = file /\ formatted' = formatted
  BY <1>1, <1>2 DEF L!Strftime
<1>4. timeinfo \in Time
  BY LogFacts
<1>5. d \in L!Call
  BY <1>2, <1>4 DEF L!Call, Time
<1>6. d # nullptr
  BY <1>5, LibraryAssumption DEF L!LogConstants
<1>7. d.stamp = timeinfo /\ d.pc = "append" /\ d.log = c.log /\ d.begun = c.begun
  BY <1>2 DEF L!Call
<1>8. Stamped(c.log, c.begun, now, timeinfo)
  BY <1>1 DEF WritingOf
<1> QED BY <1>1, <1>3, <1>4, <1>5, <1>6, <1>7, <1>8, LogCallGoesOn

\* a call begins: of log::write with the mutex of its log, of format_unixtime
\* without one
LEMMA LogBegins ==
    ASSUME LogInv, NEW t \in Threads, NEW d \in L!Call, writing[t] = nullptr, d # nullptr,
           writing' = [writing EXCEPT ![t] = d], d.begun = now,
           now' = now, timeinfo' = timeinfo, file' = file, formatted' = formatted,
           \/ /\ d.log \in Logs /\ m_mutex[d.log] = nullptr /\ d.pc = "time"
              /\ m_mutex' = [m_mutex EXCEPT ![d.log] = t]
           \/ d.log = nullptr /\ d.pc = "localtime" /\ m_mutex' = m_mutex
    PROVE  LogInv'
<1>1. L!TypeOK'
  <2>1. m_mutex' \in [Logs -> Threads \cup {nullptr}]
    BY DEF LogInv, L!TypeOK
  <2> QED BY <2>1 DEF LogInv, L!TypeOK
<1>2. writing'[t] = d /\ \A u \in Threads \ {t} : writing'[u] = writing[u]
  BY DEF LogInv, L!TypeOK
<1>3. now \in Time /\ now <= now /\ nullptr \notin Logs /\ nullptr \notin Threads
  BY LogFacts, LibraryAssumption DEF Time, L!LogConstants
<1>4. Grows
  BY <1>1, <1>2, <1>3, UsesStay
<1>5. WritingOf(t)'
  <2>1. d.log # nullptr => m_mutex'[d.log] = t
    BY <1>3 DEF LogInv, L!TypeOK
  <2> QED BY <1>2, <1>3, <2>1 DEF WritingOf
<1>6. ASSUME NEW u \in Threads \ {t}, writing'[u] # nullptr
      PROVE  WritingOf(u)'
  <2>1. writing[u] # nullptr /\ writing'[u] = writing[u]
    BY <1>2, <1>6
  <2>2. ASSUME writing[u].log # nullptr
        PROVE  m_mutex'[writing[u].log] = u
    <3>1. m_mutex[writing[u].log] = u
      BY <2>1, <2>2 DEF LogInv, WritingInv, WritingOf
    <3>2. writing[u].log \in Logs
      BY <2>1, <2>2, LogFacts
    <3>3. PICK l \in Logs : l = writing[u].log
      BY <3>2
    <3>4. m_mutex[l] = u /\ u # nullptr
      BY <1>3, <3>1, <3>3
    <3>5. m_mutex'[l] = m_mutex[l]
      BY <3>4 DEF LogInv, L!TypeOK
    <3> QED BY <3>3, <3>4, <3>5
  <2> QED BY <1>1, <1>3, <1>4, <2>1, <2>2, OthersStay
<1>7. WritingInv'
  BY <1>5, <1>6 DEF WritingInv
<1>8. ASSUME NEW i \in DOMAIN file
      PROVE  LineOf(i)'
  <2>1. \A u \in Threads : writing'[u] # nullptr /\ writing'[u].log = file[i].log =>
            file[i].ended <= writing'[u].begun
    BY <1>2 DEF LogInv, FileInv, LineOf
  <2> QED BY <1>3, <1>4, <2>1, LinesStay
<1>9. FileInv'
  BY <1>8 DEF LogInv, FileInv
<1> QED BY <1>1, <1>7, <1>9 DEF LogInv

\* A call of log::write begins.
LEMMA LogWrite ==
    ASSUME LogInv, NEW t \in Threads, NEW l \in Logs, L!Write(t, l)
    PROVE  LogInv'
<1>1. PICK d : d = [log |-> l, pc |-> "time", begun |-> now, rawtime |-> 0, stamp |-> 0]
  OBVIOUS
<1>2. /\ writing[t] = nullptr /\ m_mutex[l] = nullptr
      /\ m_mutex' = [m_mutex EXCEPT ![l] = t] /\ writing' = [writing EXCEPT ![t] = d]
      /\ now' = now /\ timeinfo' = timeinfo /\ file' = file /\ formatted' = formatted
  BY <1>1 DEF L!Write, L!Idle
<1>3. d \in L!Call /\ d.log = l /\ d.pc = "time" /\ d.begun = now
  <2>1. now \in Time /\ MaxTime \in Nat
    BY LogFacts
  <2> QED BY <1>1, <2>1 DEF L!Call, Time
<1>4. d # nullptr
  BY <1>3, LibraryAssumption DEF L!LogConstants
<1> QED BY <1>2, <1>3, <1>4, LogBegins

\* A call of format_unixtime begins.
LEMMA LogFormatUnixtime ==
    ASSUME LogInv, NEW t \in Threads, NEW unixtime \in FileTimes, L!FormatUnixtime(t, unixtime)
    PROVE  LogInv'
<1>1. PICK d : d = [log |-> nullptr, pc |-> "localtime", begun |-> now, rawtime |-> unixtime,
                    stamp |-> 0]
  OBVIOUS
<1>2. /\ writing[t] = nullptr /\ m_mutex' = m_mutex /\ writing' = [writing EXCEPT ![t] = d]
      /\ now' = now /\ timeinfo' = timeinfo /\ file' = file /\ formatted' = formatted
  BY <1>1 DEF L!FormatUnixtime, L!Idle
<1>3. d \in L!Call /\ d.log = nullptr /\ d.pc = "localtime" /\ d.begun = now
  <2>1. now \in Time /\ MaxTime \in Nat /\ unixtime \in Time
    BY LogFacts, LibraryAssumption DEF L!LogConstants, Time
  <2> QED BY <1>1, <2>1 DEF L!Call, Time
<1>4. d # nullptr
  BY <1>3, LibraryAssumption DEF L!LogConstants
<1> QED BY <1>2, <1>3, <1>4, LogBegins

\* Time that passes lengthens the calls that go on.
LEMMA LogTick ==
    ASSUME LogInv, L!Tick
    PROVE  LogInv'
<1>1. /\ now < MaxTime /\ now' = now + 1 /\ timeinfo' = timeinfo /\ m_mutex' = m_mutex
      /\ writing' = writing /\ file' = file /\ formatted' = formatted
  BY DEF L!Tick
<1>2. now' \in Time /\ now <= now'
  BY <1>1, LogFacts DEF Time
<1>3. L!TypeOK'
  BY <1>1, <1>2 DEF LogInv, L!TypeOK, Time
<1>4. Grows
  BY <1>1, <1>2, <1>3, UsesStay
<1>5. ASSUME NEW u \in Threads, writing'[u] # nullptr
      PROVE  WritingOf(u)'
  <2>1. writing[u] # nullptr /\ (writing[u].log # nullptr => m_mutex'[writing[u].log] = u)
    BY <1>1, <1>5 DEF LogInv, WritingInv, WritingOf
  <2> QED BY <1>1, <1>2, <1>3, <1>4, <2>1, OthersStay
<1>6. WritingInv'
  BY <1>5 DEF WritingInv
<1>7. ASSUME NEW i \in DOMAIN file
      PROVE  LineOf(i)'
  <2>1. \A u \in Threads : writing'[u] # nullptr /\ writing'[u].log = file[i].log =>
            file[i].ended <= writing'[u].begun
    BY <1>1 DEF LogInv, FileInv, LineOf
  <2> QED BY <1>1, <1>2, <1>4, <2>1, LinesStay
<1>8. FileInv'
  BY <1>1, <1>7 DEF LogInv, FileInv
<1> QED BY <1>3, <1>6, <1>8 DEF LogInv

\* A response has its time, and its use of the buffer is over.
LEMMA LogFormatStrftime ==
    ASSUME LogInv, NEW t \in Threads, L!FormatStrftime(t)
    PROVE  LogInv'
<1>1. PICK c \in L!Call : c = writing[t] /\ c # nullptr
  BY LogFacts DEF L!FormatStrftime, L!At, L!Idle
<1>2. /\ writing' = [writing EXCEPT ![t] = nullptr] /\ timeinfo' = timeinfo
      /\ formatted' = formatted \cup {L!UseOf(c)}
      /\ now' = now /\ m_mutex' = m_mutex /\ file' = file
  BY <1>1 DEF L!FormatStrftime
<1>3. L!UseOf(c) \in L!Use /\ now \in Time /\ now <= now
  BY UseFacts, LogFacts DEF Time
<1>4. L!TypeOK'
  BY <1>2, <1>3 DEF LogInv, L!TypeOK
<1>5. writing'[t] = nullptr /\ \A u \in Threads \ {t} : writing'[u] = writing[u]
  BY <1>2 DEF LogInv, L!TypeOK
<1>6. L!UseOf(writing[t]) \in formatted' /\ formatted \subseteq formatted'
  BY <1>1, <1>2
<1>7. Grows
  BY <1>2, <1>3, <1>4, <1>5, <1>6, UsesStay
<1>8. ASSUME NEW u \in Threads, writing'[u] # nullptr
      PROVE  WritingOf(u)'
  <2>1. writing[u] # nullptr /\ writing'[u] = writing[u]
    BY <1>5, <1>8
  <2>2. writing[u].log # nullptr => m_mutex'[writing[u].log] = u
    BY <1>2, <2>1 DEF LogInv, WritingInv, WritingOf
  <2> QED BY <1>2, <1>3, <1>4, <1>7, <2>1, <2>2, OthersStay
<1>9. WritingInv'
  BY <1>8 DEF WritingInv
<1>10. ASSUME NEW i \in DOMAIN file
       PROVE  LineOf(i)'
  <2>1. \A u \in Threads : writing'[u] # nullptr /\ writing'[u].log = file[i].log =>
            file[i].ended <= writing'[u].begun
    BY <1>5 DEF LogInv, FileInv, LineOf
  <2> QED BY <1>2, <1>3, <1>7, <2>1, LinesStay
<1>11. FileInv'
  BY <1>2, <1>10 DEF LogInv, FileInv
<1> QED BY <1>4, <1>9, <1>11 DEF LogInv

\* A line ends its call; nobody else was in a call of the same log.
LEMMA LogAppendLine ==
    ASSUME LogInv, NEW t \in Threads, L!AppendLine(t)
    PROVE  LogInv'
<1>1. PICK c \in L!Call : c = writing[t] /\ c # nullptr /\ WritingOf(t) /\ c.pc = "append"
  BY LogFacts DEF L!AppendLine, L!At, L!Idle, LogInv, WritingInv
<1>2. c.log \in Logs /\ c.begun \in Time /\ c.stamp \in Time /\ m_mutex[c.log] = t
      /\ c.log # nullptr /\ c.begun <= now
  BY <1>1, LogFacts DEF WritingOf
<1>3. PICK line : line = [log |-> c.log, begun |-> c.begun, stamp |-> c.stamp, ended |-> now]
  OBVIOUS
<1>4. /\ file' = Append(file, line) /\ m_mutex' = [m_mutex EXCEPT ![c.log] = nullptr]
      /\ writing' = [writing EXCEPT ![t] = nullptr]
      /\ now' = now /\ timeinfo' = timeinfo /\ formatted' = formatted
  BY <1>1, <1>3 DEF L!AppendLine
<1>5. MaxTime \in Nat /\ now \in Time /\ now <= now /\ timeinfo \in Time
  BY LogFacts DEF Time
<1>6. line \in L!FileLine /\ file \in Seq(L!FileLine)
  BY <1>2, <1>3, <1>5 DEF LogInv, L!TypeOK, L!FileLine, Time
<1>7. line.log = c.log /\ line.begun = c.begun /\ line.stamp = c.stamp /\ line.ended = now
  BY <1>3
<1>8. PICK n \in Nat : n = Len(file) + 1
  BY <1>6
<1>9. /\ Len(file) \in Nat /\ DOMAIN file = 1 .. Len(file)
      /\ DOMAIN file' = 1 .. n /\ file'[n] = line
      /\ \A i \in DOMAIN file : i \in DOMAIN file' /\ file'[i] = file[i]
  BY <1>4, <1>6, <1>8
<1>10. L!TypeOK'
  <2>1. file' \in Seq(L!FileLine)
    BY <1>4, <1>6
  <2> QED BY <1>2, <1>4, <2>1 DEF LogInv, L!TypeOK
<1>11. writing'[t] = nullptr /\ \A u \in Threads \ {t} : writing'[u] = writing[u]
  BY <1>4 DEF LogInv, L!TypeOK
<1>12. n \in DOMAIN file' /\ L!UseOf(writing[t]) = L!UseOfLine(file'[n])
  <2>1. L!UseOf(c) = [begun |-> c.begun, ended |-> now, first |-> c.begun, last |-> now]
    BY <1>2 DEF L!UseOf
  <2>2. L!UseOfLine(line) = [begun |-> c.begun, ended |-> now, first |-> c.begun, last |-> now]
    BY <1>7 DEF L!UseOfLine
  <2>3. n \in DOMAIN file'
    BY <1>8, <1>9
  <2> QED BY <1>1, <1>9, <2>1, <2>2, <2>3
<1>13. \A u \in Threads : writing[u] # nullptr =>
           \/ writing'[u] # nullptr /\ writing'[u] = writing[u]
           \/ \E i \in DOMAIN file' : /\ file'[i].log = writing[u].log
                                      /\ L!UseOf(writing[u]) = L!UseOfLine(file'[i])
  BY <1>1, <1>7, <1>9, <1>11, <1>12
<1>14. Grows
  BY <1>4, <1>5, <1>9, <1>10, <1>13, UsesStay
<1>15. ASSUME NEW u \in Threads, writing'[u] # nullptr
       PROVE  writing[u] # nullptr /\ writing'[u] = writing[u] /\ writing[u].log # c.log
  <2>1. u # t /\ writing[u] # nullptr /\ writing'[u] = writing[u]
    BY <1>11, <1>15
  <2> QED BY <1>2, <2>1 DEF LogInv, WritingInv, WritingOf
<1>16. ASSUME NEW u \in Threads, writing'[u] # nullptr
       PROVE  WritingOf(u)'
  <2>1. writing[u] # nullptr /\ writing'[u] = writing[u] /\ writing[u].log # c.log
    BY <1>15, <1>16
  <2>2. writing[u].log # nullptr => m_mutex'[writing[u].log] = u
    <3>1. writing[u].log # nullptr => m_mutex[writing[u].log] = u /\ writing[u].log \in Logs
      BY <2>1, LogFacts DEF LogInv, WritingInv, WritingOf
    <3> QED BY <1>4, <2>1, <3>1 DEF LogInv, L!TypeOK
  <2> QED BY <1>4, <1>5, <1>10, <1>14, <2>1, <2>2, OthersStay
<1>17. WritingInv'
  BY <1>16 DEF WritingInv
<1>18. ASSUME NEW i \in DOMAIN file
       PROVE  LineOf(i)'
  <2>1. \A u \in Threads : writing'[u] # nullptr /\ writing'[u].log = file[i].log =>
            file[i].ended <= writing'[u].begun
    BY <1>15 DEF LogInv, FileInv, LineOf
  <2> QED BY <1>4, <1>5, <1>9, <1>14, <2>1, LinesStay
<1>19. LineOf(n)'
  <2>1. Stamped(c.log, c.begun, now, c.stamp)
    BY <1>1, <1>2 DEF WritingOf
  <2>2. PICK k \in Logs, b \in Time, e \in Time, x \in Time :
            k = c.log /\ b = c.begun /\ e = now /\ x = c.stamp
    BY <1>2, <1>5
  <2>3. Stamped(k, b, e, x)'
    BY <1>5, <1>14, <2>1, <2>2 DEF Grows
  <2>4. file'[n].log = k /\ file'[n].begun = b /\ file'[n].ended = e /\ file'[n].stamp = x
    BY <1>7, <1>9, <2>2
  <2>5. b <= e /\ e <= now'
    BY <1>2, <1>4, <1>5, <2>2
  <2>6. \A u \in Threads : writing'[u] # nullptr => writing'[u].log # k
    BY <1>15, <2>2
  <2> QED BY <2>3, <2>4, <2>5, <2>6 DEF LineOf
<1>20. \A i \in DOMAIN file' : i \in DOMAIN file \/ i = n
  BY <1>8, <1>9
<1>21. ASSUME NEW i \in DOMAIN file', NEW j \in DOMAIN file', i < j, file'[i].log = file'[j].log
       PROVE  file'[i].ended <= file'[j].begun
  <2>1. i \in DOMAIN file
    BY <1>8, <1>9, <1>20, <1>21
  <2>2. CASE j \in DOMAIN file
    BY <1>9, <1>21, <2>1, <2>2 DEF LogInv, FileInv
  <2>3. CASE j = n
    <3>1. LineOf(i) /\ file'[i] = file[i] /\ file'[j] = line
      BY <1>9, <2>1, <2>3 DEF LogInv, FileInv
    <3> QED BY <1>1, <1>7, <1>21, <3>1 DEF LineOf
  <2> QED BY <1>20, <2>2, <2>3
<1>22. FileInv'
  BY <1>18, <1>19, <1>20, <1>21 DEF FileInv
<1> QED BY <1>10, <1>17, <1>22 DEF LogInv

\* The invariant speaks of the log only.
LEMMA LogUnchanged ==
    ASSUME LogInv, UNCHANGED logVars
    PROVE  LogInv'
<1> USE DEF logVars
<1>1. L!TypeOK'
  BY DEF LogInv, L!TypeOK
<1>2. now \in Time /\ now <= now
  BY LogFacts DEF Time
<1>3. Grows
  BY <1>1, <1>2, UsesStay
<1>4. ASSUME NEW u \in Threads, writing'[u] # nullptr
      PROVE  WritingOf(u)'
  <2>1. writing[u] # nullptr /\ (writing[u].log # nullptr => m_mutex'[writing[u].log] = u)
    BY <1>4 DEF LogInv, WritingInv, WritingOf
  <2> QED BY <1>1, <1>2, <1>3, <2>1, OthersStay
<1>5. ASSUME NEW i \in DOMAIN file
      PROVE  LineOf(i)'
  <2>1. \A u \in Threads : writing'[u] # nullptr /\ writing'[u].log = file[i].log =>
            file[i].ended <= writing'[u].begun
    BY DEF LogInv, FileInv, LineOf
  <2> QED BY <1>2, <1>3, <2>1, LinesStay
<1> QED BY <1>1, <1>4, <1>5 DEF LogInv, WritingInv, FileInv
-----------------------------------------------------------------------------
\* every step of Library is one of the log, or leaves it alone
LEMMA LogNext ==
    ASSUME LogInv, [Next]_vars
    PROVE  LogInv'
<1>1. CASE UNCHANGED logVars
  BY <1>1, LogUnchanged
<1>2. CASE L!Tick
  BY <1>2, LogTick
<1>3. CASE \E t \in Threads : CallLog(t)
  BY <1>3, LogWrite DEF CallLog
<1>4. CASE \E t \in Threads : CallFormatUnixtime(t)
  BY <1>4, LogFormatUnixtime DEF CallFormatUnixtime
<1>5. CASE \E t \in Threads : LogStep(t)
  <2> PICK t \in Threads : L!Step(t)
    BY <1>5 DEF LogStep
  <2> QED BY LogTakeTime, LogLocaltime, LogStrftime, LogFormatStrftime, LogAppendLine DEF L!Step
<1>6. [Next]_vars => \/ UNCHANGED logVars
                     \/ L!Tick
                     \/ \E t \in Threads : CallLog(t) \/ CallFormatUnixtime(t) \/ LogStep(t)
  BY DEF Next, Call, CallSessionStorage, CallDecode, SessionStep, DecodeStep, Tick, vars, logVars
<1> QED BY <1>1, <1>2, <1>3, <1>4, <1>5, <1>6

\* LogInv holds in every reachable state.
LEMMA LogInvariant == Spec => []LogInv
<1>1. Init => LogInv
  BY LogInit
<1>2. LogInv /\ [Next]_vars => LogInv'
  BY LogNext
<1> QED BY <1>1, <1>2, PTL DEF Spec

\* OtherUse is membership in OtherUses.
LEMMA MemberOfOtherUses ==
    ASSUME NEW l, NEW u
    PROVE  OtherUse(l, u) <=> u \in L!OtherUses(l)
  BY DEF OtherUse, L!OtherUses, L!Idle

\* For any number of threads, logs, responses and lines: the time of a line is
\* one of its own call, of a call of another log that overlaps it, or that of a
\* file whose time an overlapping call of format_unixtime formats.
THEOREM StampsAreOfTheirTime == Spec => []StampOfAnOverlappingUse
<1>1. ASSUME LogInv
      PROVE  StampOfAnOverlappingUse
  <2> SUFFICES ASSUME NEW i \in DOMAIN file
               PROVE  \E u \in {L!UseOfLine(file[i])} \cup L!OtherUses(file[i].log) :
                          /\ L!Overlap(u, L!UseOfLine(file[i]))
                          /\ u.first <= file[i].stamp /\ file[i].stamp <= u.last
    BY DEF StampOfAnOverlappingUse, L!StampOfAnOverlappingUse
  <2>1. PICK own : own = L!UseOfLine(file[i])
    OBVIOUS
  <2>2. /\ own.begun = file[i].begun /\ own.ended = file[i].ended
        /\ own.first = file[i].begun /\ own.last = file[i].ended
    BY <2>1 DEF L!UseOfLine
  <2>3. LineOf(i)
    BY <1>1 DEF LogInv, FileInv
  <2>4. CASE file[i].begun <= file[i].stamp /\ file[i].stamp <= file[i].ended
    <3>1. L!Overlap(own, own)
      BY <2>2, <2>3 DEF LineOf, L!Overlap
    <3> QED BY <2>1, <2>2, <2>4, <3>1
  <2>5. CASE \E u \in L!Use :
                /\ OtherUse(file[i].log, u) /\ u.begun <= file[i].ended
                /\ file[i].begun <= u.ended /\ u.first <= file[i].stamp
                /\ file[i].stamp <= u.last
    <3>1. PICK u \in L!Use :
                /\ OtherUse(file[i].log, u) /\ u.begun <= file[i].ended
                /\ file[i].begun <= u.ended /\ u.first <= file[i].stamp
                /\ file[i].stamp <= u.last
      BY <2>5
    <3>2. u \in L!OtherUses(file[i].log)
      BY <3>1, MemberOfOtherUses
    <3>3. L!Overlap(u, own)
      BY <2>2, <3>1 DEF L!Overlap
    <3> QED BY <2>1, <3>1, <3>2, <3>3
  <2> QED BY <2>3, <2>4, <2>5 DEF LineOf, Stamped
<1> QED BY <1>1, LogInvariant, PTL

\* For any number of threads, logs, responses and lines: a log's lines go back in
\* time only where another log's call or one of format_unixtime overlaps the
\* calls that wrote them.
THEOREM BackwardsOnlyBesideOthers == Spec => []BackwardsNeedsAnotherUse
<1>1. ASSUME LogInv
      PROVE  BackwardsNeedsAnotherUse
  <2> SUFFICES ASSUME NEW i \in DOMAIN file, NEW j \in DOMAIN file, i < j,
                      file[i].log = file[j].log, file[j].stamp < file[i].stamp
               PROVE  \E u \in L!OtherUses(file[i].log) :
                          u.begun <= file[j].ended /\ file[i].begun <= u.ended
    BY DEF BackwardsNeedsAnotherUse, L!BackwardsNeedsAnotherUse
  <2>1. /\ LineOf(i) /\ LineOf(j) /\ file[i].ended <= file[j].begun
        /\ file[i].begun \in Time /\ file[i].ended \in Time /\ file[i].stamp \in Time
        /\ file[j].begun \in Time /\ file[j].ended \in Time /\ file[j].stamp \in Time
        /\ MaxTime \in Nat
    BY <1>1, LogFacts DEF LogInv, FileInv
  <2>2. ASSUME NEW u \in L!Use, NEW k \in {i, j},
               OtherUse(file[k].log, u), u.begun <= file[k].ended, file[k].begun <= u.ended
        PROVE  \E v \in L!OtherUses(file[i].log) :
                   v.begun <= file[j].ended /\ file[i].begun <= v.ended
    <3>1. u.begun \in Nat /\ u.ended \in Nat
      BY <2>1 DEF L!Use
    <3>2. u.begun <= file[j].ended /\ file[i].begun <= u.ended
      BY <2>1, <2>2, <3>1 DEF LineOf, Time
    <3>3. u \in L!OtherUses(file[i].log)
      BY <2>2, MemberOfOtherUses
    <3> QED BY <3>2, <3>3
  <2>3. CASE /\ file[i].begun <= file[i].stamp /\ file[i].stamp <= file[i].ended
             /\ file[j].begun <= file[j].stamp /\ file[j].stamp <= file[j].ended
    BY <2>1, <2>3 DEF Time
  <2> QED BY <2>1, <2>2, <2>3 DEF LineOf, Stamped
<1> QED BY <1>1, LogInvariant, PTL
=============================================================================
