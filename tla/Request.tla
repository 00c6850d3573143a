------------------------------ MODULE Request ------------------------------
(***************************************************************************)
(* request.cpp: the constructor of request, which takes a request from the *)
(* text that one read() of the socket returned.  The text is split at line *)
(* feeds; the first line is the request line and every other line, the     *)
(* body's too, is looked at for a header.  One step for each line.         *)
(*                                                                         *)
(* A line is its type (the text before ": "; "" when there is none), its   *)
(* words and whether a carriage return ends it, which the split leaves in  *)
(* the last word.  A word is its text and the numbers that can be read in  *)
(* it: none in "May", <<29>> in "29" and in "29th", <<19, 43, 31>> in a    *)
(* time of day; exact says that the text is that number as to_string       *)
(* writes it.  The words of a Host line are the texts between its colons,  *)
(* those of a Cookie line its cookies: text is the key, v the value after  *)
(* "=", with 0 for the empty one and <<>> for the key itself, which is the *)
(* value when there is no "=".  Of post data, joined says that nothing     *)
(* comes between a word and the one before, where a line feed was.         *)
(***************************************************************************)
EXTENDS Integers, Sequences, FiniteSets, SequencesExt, FiniteSetsExt

CONSTANTS
    Texts,          \* of words and of types of lines
    Requests,       \* what clients send
    CookieNames,
    FourLetters,    \* words of four characters, as "Sat,"
    Beginnings(_, _)    \* what a word may be cut to, by its text and its numbers

Word == [text : Texts, v : Seq(Int), exact : BOOLEAN, cr : BOOLEAN, joined : BOOLEAN]
Line == [type : Texts, words : Seq(Word), cr : BOOLEAN]

\* a word as it is sent
Bare(w) == ~w.cr /\ ~w.joined

\* the first line is split at spaces alone, so that a ": " in it makes no type
ASSUME RequestAssumption ==
    /\ "" \in Texts /\ "" \notin CookieNames
    /\ \A r \in Requests :
          /\ r \in Seq(Line) /\ r # <<>> /\ r[1].type = ""
          /\ \A i \in DOMAIN r : \A j \in DOMAIN r[i].words : Bare(r[i].words[j])

ASSUME BeginningsAssumption ==
    \A r \in Requests : \A i \in DOMAIN r :
        /\ \A b \in Beginnings(r[i].type, <<>>) : b \in Word /\ Bare(b)
        /\ \A j \in DOMAIN r[i].words :
              \A b \in Beginnings(r[i].words[j].text, r[i].words[j].v) : b \in Word /\ Bare(b)

VARIABLES
    sent,               \* what the client sends
    m_request_lines,    \* what the one read of main() has got of it, split
    line,               \* the line to look at next
    outcome,    \* "none"; "done" when the constructor returns; "throws" when an
                \* exception leaves it, and main() with it; "undefined" when it
                \* uses an element that a vector does not have
    m_error, m_method, m_path, m_host, m_port, m_cookies, m_referer,
    m_if_modified_since, m_post_data, m_identifier

fields == <<m_method, m_path, m_port, m_cookies, m_referer, m_post_data, m_identifier>>
vars == <<sent, m_request_lines, line, outcome, m_error, m_host, m_if_modified_since, fields>>

TypeOK ==
    /\ sent \in Seq(Line)
    /\ m_request_lines \in Seq(Line)
    /\ line \in 1 .. Len(m_request_lines) + 1
    /\ outcome \in {"none", "done", "throws", "undefined"}
    /\ m_error \in {0, 1}
    /\ m_method \in {"", "GET", "POST"}
    /\ m_path \in Texts /\ m_host \in Texts
    /\ m_port \in Int
    /\ m_cookies \in [CookieNames -> Seq(Int)]
    /\ m_referer \in Seq(Word)
    /\ m_if_modified_since \in Int
    /\ m_post_data \in Seq(Word)
    /\ m_identifier \in {"", "sha256"}
-----------------------------------------------------------------------------
(* Texts *)

HasType(l) == l.type # ""
CR == [text |-> "", v |-> <<>>, exact |-> FALSE, cr |-> TRUE, joined |-> FALSE]
TypeWord(l) == [text |-> l.type, v |-> <<>>, exact |-> FALSE, cr |-> FALSE, joined |-> FALSE]

\* slip: the carriage return goes with the line feed
PartsWithoutCR(l) == l.words

\* the words of a line as the split at line feeds leaves them
Parts(l) ==
    IF ~l.cr THEN l.words
    ELSE IF l.words = <<>> THEN <<CR>>
    ELSE [l.words EXCEPT ![Len(l.words)].cr = TRUE, ![Len(l.words)].exact = FALSE]

\* utils::trim of a text of several words
Trim(ws) ==
    LET is == {i \in DOMAIN ws : ws[i].text # ""}
    IN  IF is = {} THEN <<>>
        ELSE [SubSeq(ws, Min(is), Max(is)) EXCEPT ![Max(is) - Min(is) + 1].cr = FALSE]

\* utils::split_string at spaces with skip_empty, which drops what trim leaves
\* nothing of: spaces in a row, and a carriage return after a space
NonEmpty(ws) == FlattenSeq([i \in DOMAIN ws |-> IF ws[i].text = "" THEN <<>> ELSE <<ws[i]>>])

IsBlank(l) == ~HasType(l) /\ Trim(l.words) = <<>>

\* the texts of a line, type and all; nothing comes before the first
Text(l) ==
    LET ws == (IF HasType(l) THEN <<TypeWord(l)>> ELSE <<>>) \o Parts(l)
    IN  [i \in DOMAIN ws |-> [ws[i] EXCEPT !.joined = (i = 1)]]

\* the beginnings of a sequence, where cuts[i] is what may be left of element i
Starts(s, cuts) ==
    {<<>>} \cup UNION {{SubSeq(s, 1, i - 1) \o <<x>> : x \in cuts[i]} : i \in DOMAIN s}

CutWord(w) == {w} \cup {[b EXCEPT !.joined = w.joined] : b \in Beginnings(w.text, w.v)}
CutWords(ws) == Starts(ws, [i \in DOMAIN ws |-> CutWord(ws[i])])

\* what read() may leave of a line: it stops anywhere, in the type of a line or
\* before its ": " is complete, so that the line has none, or among its words
CutLine(l) ==
    {l}
    \cup {[type |-> "", words |-> <<b>>, cr |-> FALSE] :
             b \in IF HasType(l) THEN CutWord(TypeWord(l)) ELSE {}}
    \cup {[l EXCEPT !.words = ws, !.cr = FALSE] :
             ws \in {ws \in CutWords(l.words) : HasType(l) \/ ws # <<>>}}

Reads(r) == Starts(r, [i \in DOMAIN r |-> CutLine(r[i])])

\* the value of a cookie that is not set: an empty one is not stored
NoCookie == <<0>>

Init ==
    /\ sent \in Requests
    /\ m_request_lines \in Reads(sent)
    /\ line = 1
    /\ outcome = "none"
    /\ m_error = 0
    /\ m_method = "" /\ m_path = "" /\ m_host = ""
    /\ m_port = 80
    /\ m_cookies = [k \in CookieNames |-> NoCookie]
    /\ m_referer = <<>>
    /\ m_if_modified_since = 0
    /\ m_post_data = <<>>
    /\ m_identifier = ""
-----------------------------------------------------------------------------
(* Dates.  A result is "date", "error", "throws" or "undefined". *)

Months == <<"Jan", "Feb", "Mar", "Apr", "May", "Jun",
            "Jul", "Aug", "Sep", "Oct", "Nov", "Dec">>

IsMonth(w) == ~w.cr /\ \E m \in DOMAIN Months : Months[m] = w.text

\* no number can be read in the name of a month
ASSUME MonthsAreNoNumbers ==
    \A r \in Requests : \A i \in DOMAIN r : \A j \in DOMAIN r[i].words :
        r[i].type = "If-Modified-Since" /\ IsMonth(r[i].words[j]) => r[i].words[j].v = <<>>

\* the number of a month, from 1; the code has it from 0, as tm_mon
Month(w) == CHOOSE m \in DOMAIN Months : Months[m] = w.text

\* std::stoi: the number a word begins with
Throws(w) == w.v = <<>>
Stoi(w) == w.v[1]

\* a year before 1900, or one whose text is not that of the number
YearFault(w) == ~w.exact \/ Stoi(w) < 1900

TimeFault(w) ==
    \/ Len(w.v) < 3
    \/ w.v[1] \notin 0 .. 23 \/ w.v[2] \notin 0 .. 59 \/ w.v[3] \notin 0 .. 60

DaysBeforeMonth == <<0, 31, 59, 90, 120, 151, 181, 212, 243, 273, 304, 334>>
LeapYear(y) == y % 4 = 0 /\ (y % 100 # 0 \/ y % 400 = 0)
LeapsUntil(y) == (y \div 4) - (y \div 100) + (y \div 400)

\* timegm, which takes day 30 of February for 1 or 2 March
Timegm(y, m, d, t) ==
    LET days == 365 * (y - 1970) + LeapsUntil(y - 1) - LeapsUntil(1969)
                + DaysBeforeMonth[m] + (IF m > 2 /\ LeapYear(y) THEN 1 ELSE 0) + d - 1
    IN  86400 * days + 3600 * t[1] + 60 * t[2] + t[3]

\* request_tests.h:59 and :146
ASSUME TimegmMatchesTests ==
    /\ Timegm(1994, 10, 29, <<19, 43, 31>>) = 783459811
    /\ Timegm(2014, 5, 5, <<12, 56, 24>>) = 1399294584

\* what is left in hours, minutes and seconds
Scanned(w) == [i \in 1 .. 3 |-> IF i \in DOMAIN w.v THEN w.v[i] ELSE 0]

\* slip: the number of a month from 1 to 12 given for tm_mon, which counts from 0
GenerateMonthFromOne(y, m, d, t) ==
    LET result == Timegm(Stoi(y), (Month(m) % 12) + 1, Stoi(d), Scanned(t))
    IN  [result |-> IF TimeFault(t) \/ result = -1 THEN "error" ELSE "date", date |-> result]

\* a fault in the time does not keep the date from being stored; timegm's -1
\* does, which stands for a failure and for the last second of 1969
Generate(y, m, d, t) ==
    LET result == Timegm(Stoi(y), Month(m), Stoi(d), Scanned(t))
    IN  [result |-> IF TimeFault(t) \/ result = -1 THEN "error" ELSE "date", date |-> result]

Failure(f) == [result |-> f, date |-> -1]

\* slip: the parts counted from one, as the day is the first thing that matters
Rfc1123DayFirst(p) ==
    IF Throws(p[1]) THEN Failure("throws")
    ELSE IF Stoi(p[1]) \notin 0 .. 31 \/ ~IsMonth(p[3]) THEN Failure("error")
    ELSE IF Throws(p[4]) THEN Failure("throws")
    ELSE IF YearFault(p[4]) THEN Failure("error")
    ELSE Generate(p[4], p[3], p[1], p[5])

\* parse_date_rfc_1123: "Sat, 29 Oct 1994 19:43:31 GMT"
ParseRfc1123(p) ==
    IF Throws(p[2]) THEN Failure("throws")
    ELSE IF Stoi(p[2]) \notin 0 .. 31 \/ ~IsMonth(p[3]) THEN Failure("error")
    ELSE IF Throws(p[4]) THEN Failure("throws")
    ELSE IF YearFault(p[4]) THEN Failure("error")
    ELSE Generate(p[4], p[3], p[2], p[5])

\* parse_date_rfc_850
ParseRfc850(p) == [result |-> "date", date |-> 0]

\* parse_date_asctime: "Mon May  5 12:56:24 2014", and whatever else there is
ParseAsctime(p) ==
    IF Len(p) < 2 THEN Failure("undefined")
    ELSE IF ~IsMonth(p[2]) THEN Failure("error")
    ELSE IF Len(p) < 3 THEN Failure("undefined")
    ELSE IF Throws(p[3]) THEN Failure("throws")
    ELSE IF Stoi(p[3]) \notin 0 .. 31 THEN Failure("error")
    ELSE IF Len(p) < 5 THEN Failure("undefined")
    ELSE IF Throws(p[5]) THEN Failure("throws")
    ELSE IF YearFault(p[5]) THEN Failure("error")
    ELSE Generate(p[5], p[2], p[3], p[4])

\* parse_if_modified_since
ParseDate(l) ==
    LET p == NonEmpty(Parts(l))
    IN  IF Len(p) = 6 /\ p[6].text = "GMT" /\ ~p[6].cr
        THEN IF p[1].text \in FourLetters THEN ParseRfc1123(p) ELSE ParseRfc850(p)
        ELSE ParseAsctime(p)
-----------------------------------------------------------------------------
(* The constructor *)

current == m_request_lines[line]
Running == outcome = "none"

\* line 1 .. is left to look at and is of the type
AtLine(type) == Running /\ line > 1 /\ line <= Len(m_request_lines) /\ current.type = type

\* read() returned no text, or nothing but a NUL
NoLines ==
    /\ Running /\ m_request_lines = <<>>
    /\ m_error' = 1
    /\ outcome' = "done"
    /\ UNCHANGED <<sent, m_request_lines, line, m_host, m_if_modified_since, fields>>

\* slip: any method is kept
AnyMethod ==
    /\ Running /\ line = 1 /\ m_request_lines # <<>>
    /\ LET ws == Parts(current)
       IN  IF Len(ws) < 3 THEN UNCHANGED <<m_method, m_path>>
           ELSE m_method' = ws[1].text /\ m_path' = ws[2].text
    /\ line' = 2
    /\ UNCHANGED <<sent, m_request_lines, outcome, m_error, m_host, m_if_modified_since,
                   m_port, m_cookies, m_referer, m_post_data, m_identifier>>

ParseHeader ==
    /\ Running /\ line = 1 /\ m_request_lines # <<>>
    /\ LET ws == Parts(current)
       IN  IF Len(ws) < 3 THEN UNCHANGED <<m_method, m_path>>
           ELSE /\ m_method' = IF ws[1].text \in {"GET", "POST"} THEN ws[1].text ELSE m_method
                /\ m_path' = ws[2].text
    /\ line' = 2
    /\ UNCHANGED <<sent, m_request_lines, outcome, m_error, m_host, m_if_modified_since,
                   m_port, m_cookies, m_referer, m_post_data, m_identifier>>

\* std::stoul takes the port
PortFault(ws) == Len(ws) > 1 /\ ws[2].v = <<>>

\* slip: m_error says how the last port went
HostHeals ==
    /\ AtLine("Host")
    /\ LET ws == Parts(current)
       IN  IF ws = <<>>
           THEN outcome' = "undefined" /\ m_error' = 1 /\ UNCHANGED <<m_host, m_port>>
           ELSE /\ m_host' = ws[1].text
                /\ m_error' = IF PortFault(ws) THEN 1 ELSE 0
                /\ m_port' = IF Len(ws) > 1 /\ ~PortFault(ws) THEN ws[2].v[1] ELSE m_port
                /\ UNCHANGED outcome
    /\ line' = line + 1
    /\ UNCHANGED <<sent, m_request_lines, m_method, m_path, m_cookies, m_referer,
                   m_if_modified_since, m_post_data, m_identifier>>

\* parse_host: no host sets m_error but does not return, and host[0] is used
ParseHost ==
    /\ AtLine("Host")
    /\ LET ws == Parts(current)
       IN  IF ws = <<>>
           THEN outcome' = "undefined" /\ m_error' = 1 /\ UNCHANGED <<m_host, m_port>>
           ELSE /\ m_host' = ws[1].text
                /\ m_error' = IF PortFault(ws) THEN 1 ELSE m_error
                /\ m_port' = IF Len(ws) > 1 /\ ~PortFault(ws) THEN ws[2].v[1] ELSE m_port
                /\ UNCHANGED outcome
    /\ line' = line + 1
    /\ UNCHANGED <<sent, m_request_lines, m_method, m_path, m_cookies, m_referer,
                   m_if_modified_since, m_post_data, m_identifier>>

\* the cookies of a line that set k, an empty value skipped
Setting(l, k) == {j \in DOMAIN l.words : l.words[j].text = k /\ l.words[j].v # NoCookie}

\* slip: the cookies of the line are all that there are
CookiesOfThisLine ==
    /\ AtLine("Cookie")
    /\ m_cookies' = [k \in CookieNames |->
           LET js == Setting(current, k)
           IN  IF js = {} THEN NoCookie ELSE current.words[Max(js)].v]
    /\ line' = line + 1
    /\ UNCHANGED <<sent, m_request_lines, outcome, m_error, m_host, m_if_modified_since,
                   m_method, m_path, m_port, m_referer, m_post_data, m_identifier>>

\* parse_cookies, which adds to those of earlier lines
ParseCookies ==
    /\ AtLine("Cookie")
    /\ m_cookies' = [k \in CookieNames |->
           LET js == Setting(current, k)
           IN  IF js = {} THEN m_cookies[k] ELSE current.words[Max(js)].v]
    /\ line' = line + 1
    /\ UNCHANGED <<sent, m_request_lines, outcome, m_error, m_host, m_if_modified_since,
                   m_method, m_path, m_port, m_referer, m_post_data, m_identifier>>

ParseReferer ==
    /\ AtLine("Referer")
    /\ m_referer' = Trim(Parts(current))
    /\ line' = line + 1
    /\ UNCHANGED <<sent, m_request_lines, outcome, m_error, m_host, m_if_modified_since,
                   m_method, m_path, m_port, m_cookies, m_post_data, m_identifier>>

ParseIfModifiedSince ==
    /\ AtLine("If-Modified-Since")
    /\ LET d == ParseDate(current)
       IN  /\ m_if_modified_since' = IF d.date = -1 THEN m_if_modified_since ELSE d.date
           /\ m_error' = IF d.result = "error" THEN 1 ELSE m_error
           /\ outcome' = IF d.result \in {"throws", "undefined"} THEN d.result ELSE outcome
    /\ line' = line + 1
    /\ UNCHANGED <<sent, m_request_lines, m_host, fields>>

HeaderTypes == {"Host", "Cookie", "Referer", "If-Modified-Since"}

SkipLine ==
    /\ Running /\ line > 1 /\ line <= Len(m_request_lines)
    /\ current.type \notin HeaderTypes
    /\ line' = line + 1
    /\ UNCHANGED <<sent, m_request_lines, outcome, m_error, m_host, m_if_modified_since, fields>>

\* parse_post_data: all from the first blank line on, without the line feeds
Blanks(ls) == {i \in DOMAIN ls : IsBlank(ls[i])}
\* slip: found_empty_line is not looked at, every blank line begins the data anew
PostDataFromLastBlank(ls) ==
    IF Blanks(ls) = {} THEN <<>>
    ELSE Trim(FlattenSeq([i \in 1 .. Len(ls) - Max(Blanks(ls)) + 1 |->
                              Text(ls[Max(Blanks(ls)) + i - 1])]))
PostData(ls) ==
    IF Blanks(ls) = {} THEN <<>>
    ELSE Trim(FlattenSeq([i \in 1 .. Len(ls) - Min(Blanks(ls)) + 1 |->
                              Text(ls[Min(Blanks(ls)) + i - 1])]))

\* parse_post_data and the end of the constructor
Finish ==
    /\ Running /\ m_request_lines # <<>> /\ line = Len(m_request_lines) + 1
    /\ m_post_data' = IF m_method = "POST" THEN PostData(m_request_lines) ELSE m_post_data
    /\ IF m_method = "" \/ m_path = "" \/ m_host = ""
       THEN m_error' = 1 /\ UNCHANGED m_identifier
       ELSE m_identifier' = "sha256" /\ UNCHANGED m_error
    /\ outcome' = "done"
    /\ UNCHANGED <<sent, m_request_lines, line, m_host, m_if_modified_since, m_method,
                   m_path, m_port, m_cookies, m_referer>>

Next ==
    \/ NoLines \/ ParseHeader
    \/ ParseHost \/ ParseCookies \/ ParseReferer \/ ParseIfModifiedSince \/ SkipLine
    \/ Finish

Spec == Init /\ [][Next]_vars
-----------------------------------------------------------------------------
(* Correctness.  A date is told by its words; Instant[d], for some dates d,   *)
(* is the instant that they name, and Named(d) for every date: for six words *)
(* with another weekday than RFC 1123 has, which parse_date_rfc_850 takes    *)
(* for no date, it is 0.                                                     *)

IsDay(w) == w.v # <<>> /\ w.v[1] \in 0 .. 31
IsYear(w) == w.exact /\ w.v # <<>> /\ w.v[1] >= 1900
IsTime(w) == Len(w.v) >= 3 /\ w.v[1] \in 0 .. 23 /\ w.v[2] \in 0 .. 59 /\ w.v[3] \in 0 .. 60

EndsInGmt(ws) == Len(ws) = 6 /\ ws[6].text = "GMT"
IsRfc1123(ws) ==
    EndsInGmt(ws) /\ IsDay(ws[2]) /\ IsMonth(ws[3]) /\ IsYear(ws[4]) /\ IsTime(ws[5])
BeginsAsAsctime(ws) ==
    Len(ws) >= 5 /\ IsMonth(ws[2]) /\ IsDay(ws[3]) /\ IsTime(ws[4]) /\ IsYear(ws[5])
IsDate(ws) == IsRfc1123(ws) \/ (Len(ws) = 5 /\ BeginsAsAsctime(ws))

Named(ws) ==
    IF ~EndsInGmt(ws) THEN Timegm(ws[5].v[1], Month(ws[2]), ws[3].v[1], ws[4].v)
    ELSE IF ws[1].text \in FourLetters
    THEN Timegm(ws[4].v[1], Month(ws[3]), ws[2].v[1], ws[5].v)
    ELSE 0

CONSTANT Instant

ASSUME InstantAssumption == \A ws \in DOMAIN Instant : IsDate(ws) /\ Named(ws) = Instant[ws]

Accepted == outcome = "done" /\ m_error = 0

FirstBlank(ls) == IF Blanks(ls) = {} THEN Len(ls) + 1 ELSE Min(Blanks(ls))
HeadLines(ls) == SubSeq(ls, 1, FirstBlank(ls) - 1)
Body(ls) == [i \in 1 .. Len(ls) - FirstBlank(ls) + 1 |-> Text(ls[FirstBlank(ls) + i - 1])]
OfType(ls, type) == {i \in DOMAIN ls : ls[i].type = type}
LastOf(ls, type) == ls[Max(OfType(ls, type))]

\* no line of the body looks like a header
PlainBody(ls) == \A i \in FirstBlank(ls) .. Len(ls) : ls[i].type \notin HeaderTypes
Whole == m_request_lines = sent

\* a header line with which nothing is wrong; a carriage return alone is an
\* empty host name, which a later line may replace
WellFormed(l) ==
    /\ l.type = "Host" => (l.words # <<>> \/ l.cr) /\ (Len(l.words) > 1 => l.words[2].v # <<>>)
    /\ l.type = "If-Modified-Since" => IsDate(NonEmpty(l.words))

\* what is let pass besides: six words that end in GMT are not read where the
\* first has not four letters, and nothing is read after the year of asctime
Unread(ws) == EndsInGmt(ws) /\ ws[1].text \notin FourLetters
Tolerated(l) ==
    /\ l.type = "If-Modified-Since"
    /\ Unread(NonEmpty(l.words)) \/ BeginsAsAsctime(NonEmpty(l.words))

\* A request with a line that is neither well formed nor let pass is not
\* accepted, whatever lines come after it: main() looks at errors() once, when
\* the constructor is done, and a later Host or date line is read as if nothing
\* had been wrong.
NoFaultIsHealed ==
    Accepted => \A i \in 2 .. Len(m_request_lines) :
                    WellFormed(m_request_lines[i]) \/ Tolerated(m_request_lines[i])

\* A conditional request that arrives whole, with line feeds alone, is taken
\* for the instant that its last date names, in either format; but the last
\* second before 1970 is refused, since timegm's -1 is taken for a failure.
DatesMeanTheirInstants ==
    LET ds == OfType(sent, "If-Modified-Since")
        Means(i) == Named(NonEmpty(sent[i].words))
    IN  /\ outcome = "done" /\ Whole /\ ds # {}
        /\ \A i \in 2 .. Len(sent) : WellFormed(sent[i]) /\ ~sent[i].cr
        /\ m_method # "" /\ m_path # "" /\ m_host # ""
        => IF \E i \in ds : Means(i) = -1 THEN m_error = 1
           ELSE m_error = 0 /\ m_if_modified_since = Means(Max(ds))

\* The date of a line that ends in CR LF is not taken, since "GMT" and the year
\* are compared with the carriage return in them: unless a space comes before
\* it, or more words after the year.  So a client that ends its lines as HTTP
\* wants it never gets an answer to a conditional request of either format.
DatesNeedBareLineFeeds ==
    Accepted => \A i \in OfType(m_request_lines, "If-Modified-Since") :
        LET ws == m_request_lines[i].words
        IN  m_request_lines[i].cr =>
                \/ ws # <<>> /\ Last(ws).text = ""
                \/ Len(NonEmpty(ws)) > 5 /\ BeginsAsAsctime(NonEmpty(ws))

\* The process ends in the constructor, by an exception that main() does not
\* catch or by an element that a vector does not have, only for a line that
\* the client has malformed or that the one read() has cut: a whole request of
\* well-formed lines is always parsed to the end.
EndsOnlyByMalformedOrCutLine ==
    outcome \in {"throws", "undefined"} =>
        \/ \E i \in DOMAIN sent : i > 1 /\ ~WellFormed(sent[i])
        \/ m_request_lines[Len(m_request_lines)] # sent[Len(m_request_lines)]

\* the cookie lines that set k
CookieLines(ls, k) == {i \in OfType(ls, "Cookie") : Setting(ls[i], k) # {}}

\* If no line of the body looks like a header, the head decides: host, referer
\* and date are those of its last line of the kind, so that the domain asked for
\* is the one the client named; and a cookie has the value that is given last in
\* the last of the Cookie lines that give it one, if there is one.
HeadDecides ==
    LET h == HeadLines(m_request_lines)
    IN  Accepted /\ PlainBody(m_request_lines) =>
        /\ m_host = LastOf(h, "Host").words[1].text
        /\ m_if_modified_since = IF OfType(h, "If-Modified-Since") = {} THEN 0
                                 ELSE ParseDate(LastOf(h, "If-Modified-Since")).date
        /\ m_referer = IF OfType(h, "Referer") = {} THEN <<>>
                       ELSE Trim(Parts(LastOf(h, "Referer")))
        /\ \A k \in CookieNames :
              LET is == CookieLines(h, k)
                  l == h[Max(is)]
              IN  m_cookies[k] = IF is = {} THEN NoCookie ELSE l.words[Max(Setting(l, k))].v

\* words without what is no part of their text: the numbers read in them
TextOf(ws) ==
    [i \in DOMAIN ws |-> [text |-> ws[i].text, cr |-> ws[i].cr, joined |-> ws[i].joined]]

\* Of a request that one read() did not get whole, wherever it stopped, what is
\* accepted has the client's method and path, and for post data a beginning of
\* what the client sent from its first blank line on: the line feeds left out,
\* so that words of two lines become one, and the end of a word maybe missing.
\* Blank lines and lines that look like headers are no end of it.  (A host may
\* have lost its end.)
CutRequestLosesOnlyItsEnd ==
    Accepted =>
        /\ m_method = sent[1].words[1].text /\ m_path = sent[1].words[2].text
        /\ m_method = "POST" =>
              LET all == FlattenSeq(Body(sent))
              IN  /\ \E ws \in CutWords(all) : TextOf(m_post_data) = TextOf(Trim(ws))
                  /\ Whole => TextOf(m_post_data) = TextOf(Trim(all))
=============================================================================
