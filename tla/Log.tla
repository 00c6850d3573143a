-------------------------------- MODULE Log --------------------------------
(***************************************************************************)
(* log.cpp and utils::current_time(format), which it stamps its lines      *)
(* with, and utils::format_unixtime, with which every worker's response()  *)
(* formats the time a file was changed.  A log locks its own mutex only,   *)
(* but main(), the cache and every server object have a log of their own,  *)
(* format_unixtime locks nothing, and all of them share the one buffer     *)
(* that localtime() returns.  A line is appended with one write.  Times    *)
(* are what the clock can tell apart.                                      *)
(***************************************************************************)
EXTENDS Naturals, Sequences

CONSTANTS
    Threads,
    Logs,           \* log objects
    MaxTime,        \* bound of the clock
    FileTimes,      \* times of files that are formatted
    nobody

VARIABLES
    now,            \* the clock
    timeinfo,       \* localtime's buffer
    m_mutex,        \* m_mutex[l]: the thread that has log l locked, or nobody
    writing,        \* writing[t]: the call of log::write that t is in, or with log
                    \* nobody of format_unixtime, or nobody
    file,           \* the lines of the log files, as they were appended
    formatted       \* history: the calls of format_unixtime that have ended

Call == [log : Logs \cup {nobody}, pc : {"time", "localtime", "strftime", "append"},
         begun : 0 .. MaxTime, rawtime : 0 .. MaxTime, stamp : 0 .. MaxTime]

\* begun and ended, the times of a call, are for the properties
FileLine == [log : Logs, begun : 0 .. MaxTime, stamp : 0 .. MaxTime, ended : 0 .. MaxTime]

\* a use of localtime's buffer, and the first and last time it may put there
Use == [begun : 0 .. MaxTime, ended : 0 .. MaxTime, first : 0 .. MaxTime, last : 0 .. MaxTime]

\* what the constants have to be; Library assumes it
LogConstants ==
    /\ MaxTime \in Nat /\ FileTimes \subseteq 0 .. MaxTime
    /\ nobody \notin Threads \cup Logs \cup Call

TypeOK ==
    /\ now \in 0 .. MaxTime
    /\ timeinfo \in 0 .. MaxTime
    /\ m_mutex \in [Logs -> Threads \cup {nobody}]
    /\ writing \in [Threads -> Call \cup {nobody}]
    /\ file \in Seq(FileLine)
    /\ formatted \in SUBSET Use

Init ==
    /\ now = 0
    /\ timeinfo = 0
    /\ m_mutex = [l \in Logs |-> nobody]
    /\ writing = [t \in Threads |-> nobody]
    /\ file = <<>>
    /\ formatted = {}

Idle(t) == writing[t] = nobody
At(t, pc) == ~Idle(t) /\ writing[t].pc = pc

\* slip: the lock is not waited for
WriteUnlocked(t, l) ==
    /\ Idle(t)
    /\ m_mutex' = [m_mutex EXCEPT ![l] = t]
    /\ writing' = [writing EXCEPT ![t] =
           [log |-> l, pc |-> "time", begun |-> now, rawtime |-> 0, stamp |-> 0]]
    /\ UNCHANGED <<now, timeinfo, file, formatted>>

\* log::write, entered through info, warning, debug or error
Write(t, l) ==
    /\ Idle(t)
    /\ m_mutex[l] = nobody
    /\ m_mutex' = [m_mutex EXCEPT ![l] = t]
    /\ writing' = [writing EXCEPT ![t] =
           [log |-> l, pc |-> "time", begun |-> now, rawtime |-> 0, stamp |-> 0]]
    /\ UNCHANGED <<now, timeinfo, file, formatted>>

\* format_unixtime, entered through response(), with the time of any file
FormatUnixtime(t, unixtime) ==
    /\ Idle(t)
    /\ writing' = [writing EXCEPT ![t] =
           [log |-> nobody, pc |-> "localtime", begun |-> now, rawtime |-> unixtime, stamp |-> 0]]
    /\ UNCHANGED <<now, timeinfo, m_mutex, file, formatted>>

\* time(&rawtime)
TakeTime(t) ==
    /\ At(t, "time")
    /\ writing' = [writing EXCEPT ![t].rawtime = now, ![t].pc = "localtime"]
    /\ UNCHANGED <<now, timeinfo, m_mutex, file, formatted>>

\* slip: a buffer that was filled once is taken as it is
LocaltimeOnce(t) ==
    /\ At(t, "localtime")
    /\ timeinfo' = IF timeinfo = 0 THEN writing[t].rawtime ELSE timeinfo
    /\ writing' = [writing EXCEPT ![t].pc = "strftime"]
    /\ UNCHANGED <<now, m_mutex, file, formatted>>

\* localtime(&rawtime), into the buffer that all threads share
Localtime(t) ==
    /\ At(t, "localtime")
    /\ timeinfo' = writing[t].rawtime
    /\ writing' = [writing EXCEPT ![t].pc = "strftime"]
    /\ UNCHANGED <<now, m_mutex, file, formatted>>

Strftime(t) ==
    /\ At(t, "strftime") /\ writing[t].log # nobody
    /\ writing' = [writing EXCEPT ![t].stamp = timeinfo, ![t].pc = "append"]
    /\ UNCHANGED <<now, timeinfo, m_mutex, file, formatted>>

UseOf(c) == IF c.log = nobody
            THEN [begun |-> c.begun, ended |-> now, first |-> c.rawtime, last |-> c.rawtime]
            ELSE [begun |-> c.begun, ended |-> now, first |-> c.begun, last |-> now]

\* format_unixtime returns; what becomes of its result is FileResponse's matter
FormatStrftime(t) ==
    /\ At(t, "strftime") /\ writing[t].log = nobody
    /\ writing' = [writing EXCEPT ![t] = nobody]
    /\ formatted' = formatted \cup {UseOf(writing[t])}
    /\ UNCHANGED <<now, timeinfo, m_mutex, file>>

\* utils::write_to_file, and the lock is released
AppendLine(t) ==
    /\ At(t, "append")
    /\ LET c == writing[t]
       IN  /\ file' = Append(file, [log |-> c.log, begun |-> c.begun, stamp |-> c.stamp,
                                    ended |-> now])
           /\ m_mutex' = [m_mutex EXCEPT ![c.log] = nobody]
    /\ writing' = [writing EXCEPT ![t] = nobody]
    /\ UNCHANGED <<now, timeinfo, formatted>>

Tick ==
    /\ now < MaxTime
    /\ now' = now + 1
    /\ UNCHANGED <<timeinfo, m_mutex, writing, file, formatted>>

Step(t) == TakeTime(t) \/ Localtime(t) \/ Strftime(t) \/ FormatStrftime(t) \/ AppendLine(t)
-----------------------------------------------------------------------------
\* what the call that wrote a line may have put into the buffer
UseOfLine(line) == [begun |-> line.begun, ended |-> line.ended,
                    first |-> line.begun, last |-> line.ended]

\* the uses of the buffer that are not log l's
OtherUses(l) ==
    {UseOfLine(file[i]) : i \in {i \in DOMAIN file : file[i].log # l}}
    \cup {UseOf(writing[t]) : t \in {t \in Threads : ~Idle(t) /\ writing[t].log # l}}
    \cup formatted

Overlap(a, b) == a.begun <= b.ended /\ b.begun <= a.ended

\* A line has a time of its own call, or of an overlapping call of another log,
\* or one that an overlapping response formatted: the buffer is everyone's, but
\* what is older than the call itself never gets into its line.
StampOfAnOverlappingUse ==
    \A i \in DOMAIN file :
        LET own == UseOfLine(file[i])
        IN  \E u \in {own} \cup OtherUses(file[i].log) :
                Overlap(u, own) /\ u.first <= file[i].stamp /\ file[i].stamp <= u.last

\* The lines of one log go back in time only where another log or a response
\* used the buffer meanwhile; its own calls come one after the other.
BackwardsNeedsAnotherUse ==
    \A i, j \in DOMAIN file :
        i < j /\ file[i].log = file[j].log /\ file[j].stamp < file[i].stamp =>
            \E u \in OtherUses(file[i].log) :
                u.begun <= file[j].ended /\ file[i].begun <= u.ended
=============================================================================
