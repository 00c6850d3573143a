------------------------------ MODULE Library ------------------------------
(***************************************************************************)
(* The parts of the program that threads share and that keep state of      *)
(* their own outside of the request's path: log, session_storage and the   *)
(* base 64 functions.  Any thread calls any of them, one after the other.  *)
(* The program itself uses log, format_unixtime and base64_encode;         *)
(* session_storage and base64_decode are there for it to use.              *)
(***************************************************************************)
EXTENDS Naturals, Sequences

CONSTANTS
    Threads,
    MaxCalls,       \* bound of the calls
    nullptr,
    Logs, MaxTime, FileTimes,
    Ids, Keys, Values, NoValue, Absent,
    Texts, FillStep, Garbage

VARIABLES
    calls,
    now, timeinfo, m_mutex, writing, file, formatted,                   \* Log
    m_storage, m_session, made, accessing, undefined, freed, last, together,
    decoding_table, tables, filled, decoding                            \* Base64

L == INSTANCE Log WITH nobody <- nullptr
S == INSTANCE SessionStorage WITH MaxSessions <- MaxCalls
B == INSTANCE Base64 WITH made <- tables, MaxTables <- MaxCalls

logVars == <<now, timeinfo, m_mutex, writing, file, formatted>>
sessionVars == <<m_storage, m_session, made, accessing, undefined, freed, last, together>>
base64Vars == <<decoding_table, tables, filled, decoding>>
vars == <<calls, logVars, sessionVars, base64Vars>>

ASSUME LibraryAssumption ==
    MaxCalls \in Nat /\ L!LogConstants /\ S!SessionConstants /\ B!Base64Constants

TypeOK ==
    /\ calls \in 0 .. MaxCalls
    /\ L!TypeOK /\ S!TypeOK /\ B!TypeOK

Init == calls = 0 /\ L!Init /\ S!Init /\ B!Init

Free(t) == L!Idle(t) /\ S!Idle(t) /\ B!Idle(t)

CallLog(t) ==
    /\ \E l \in Logs : L!Write(t, l)
    /\ UNCHANGED <<sessionVars, base64Vars>>

CallFormatUnixtime(t) ==
    /\ \E unixtime \in FileTimes : L!FormatUnixtime(t, unixtime)
    /\ UNCHANGED <<sessionVars, base64Vars>>

CallSessionStorage(t) ==
    /\ \E op \in {"set", "get"}, id \in Ids, k \in Keys, v \in Values \cup {NoValue} :
           S!Start(t, op, id, k, v)
    /\ UNCHANGED <<logVars, base64Vars>>

CallDecode(t) ==
    /\ \E text \in Texts : \/ B!Start(t, text, B!base64_encode(text))
                           \/ B!Start(t, text, B!Rfc4648(text))
    /\ UNCHANGED <<logVars, sessionVars>>

Call(t) ==
    /\ Free(t)
    /\ calls < MaxCalls
    /\ calls' = calls + 1
    /\ CallLog(t) \/ CallFormatUnixtime(t) \/ CallSessionStorage(t) \/ CallDecode(t)

LogStep(t) == L!Step(t) /\ UNCHANGED <<calls, sessionVars, base64Vars>>
SessionStep(t) == S!Step(t) /\ UNCHANGED <<calls, logVars, base64Vars>>
DecodeStep(t) == B!Step(t) /\ UNCHANGED <<calls, logVars, sessionVars>>
Tick == L!Tick /\ UNCHANGED <<calls, sessionVars, base64Vars>>

\* after a race, or a use of what has ended, nothing can be said
Next ==
    /\ S!Running
    /\ Tick \/ \E t \in Threads : Call(t) \/ LogStep(t) \/ SessionStep(t) \/ DecodeStep(t)

Spec == Init /\ [][Next]_vars
-----------------------------------------------------------------------------
(* The properties of the parts, with what they are about where they are     *)
(* defined.                                                                 *)

\* A line's stamp is a time of its own call, of an overlapping one of another
\* log or of a file whose time an overlapping response formatted.
StampOfAnOverlappingUse == L!StampOfAnOverlappingUse

\* A log's lines go back in time only where another log or a response used
\* localtime's buffer.
BackwardsNeedsAnotherUse == L!BackwardsNeedsAnotherUse

\* Session values are lost only where two threads insert one id at once.
ValuesLostOnlyByDoubleInsert == S!ValuesLostOnlyByDoubleInsert

\* No call of the session storage uses a session that is not there, but for the
\* moment between the entry's insertion and its assignment.
SessionsAreThere == S!SessionsAreThere

\* What is encoded is decoded to the same, but for the race of the first calls.
DecodesWhatWasEncoded == B!DecodesWhatWasEncoded

\* The decoder's table is complete as soon as nobody is making one.
TableIsCompletedInTheEnd == B!TableIsCompletedInTheEnd
=============================================================================
