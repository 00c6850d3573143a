----------------------------- MODULE MCRequest -----------------------------
EXTENDS Request, TLC

W(t, v, exact) == [text |-> t, v |-> v, exact |-> exact, cr |-> FALSE, joined |-> FALSE]
Plain(t) == W(t, <<>>, FALSE)
Num(n) == W("number", <<n>>, TRUE)
\* a text that only begins with a number: "05", "19X9"
Inexact(n) == W("no number", <<n>>, FALSE)
Time(v) == W("time", v, FALSE)
Cookie(k, v) == W(k, v, FALSE)

\* a word that is cut: a number loses digits, a time its end, and a cookie its
\* value's text, the value or the "="; of other texts some beginning is left
MCBeginnings(t, v) ==
    CASE t = "" -> {}
      [] t = "number" -> {Num(v[1] \div d) : d \in {d \in {10, 100, 1000} : d <= v[1]}}
      [] t = "no number" -> {Inexact(v[1]), Inexact(v[1] \div 10)}
      [] t = "time" -> {Time(SubSeq(v, 1, n)) : n \in 1 .. Len(v) - 1}
                       \cup {Time([v EXCEPT ![Len(v)] = @ \div 10])}
      [] t \in {"k", "l"} -> {Cookie(t, <<>>), Cookie(t, <<0>>)} \ {Cookie(t, v)}
      [] OTHER -> {Plain("beginning")}

L(t, ws) == [type |-> t, words |-> ws, cr |-> FALSE]

Rfc1123(wday, d, m, y, t) == <<Plain(wday), d, Plain(m), y, Time(t), Plain("GMT")>>
Asctime(d, m, y, t) == <<Plain("Mon"), Plain(m), d, Time(t), y>>

MCInstant ==
    (Rfc1123("Sat,", Num(29), "Oct", Num(1994), <<19, 43, 31>>) :> 783459811)
    @@ (Asctime(Num(5), "May", Num(2014), <<12, 56, 24>>) :> 1399294584)
    @@ (Asctime(Num(29), "Feb", Num(2000), <<0, 0, 0>>) :> 951782400)
    @@ (Rfc1123("Wed,", Num(30), "Feb", Num(1994), <<0, 0, 0>>) :> 762566400)
    @@ (Rfc1123("Wed,", Num(31), "Dec", Num(1969), <<23, 59, 59>>) :> -1)
    @@ (Rfc1123("Monday,", Num(31), "Dec", Num(2001), <<23, 59, 59>>) :> 0)

\* a space before the line's end, and words after the year
LooseDates == {
    Asctime(Num(5), "May", Num(2014), <<12, 56, 24>>) \o <<Plain("")>>,
    Asctime(Num(5), "May", Num(2014), <<12, 56, 24>>) \o <<Plain("GMT")>>,
    Asctime(Num(5), "May", Num(2014), <<12, 56, 24>>) \o <<Plain("UTC"), Plain("0")>> }

\* no number where one belongs, a month that does not exist, the year 19X9, a
\* time without seconds, RFC 850, a date that ends early, and one after it
BadDates == {
    Rfc1123("Sat,", Plain("XX"), "Oct", Num(1999), <<19, 43, 31>>),
    Rfc1123("Sat,", Inexact(1), "Xxx", Num(1994), <<19, 43, 31>>),
    Rfc1123("Sat,", Inexact(1), "Oct", Inexact(19), <<19, 43, 31>>),
    Rfc1123("Sat,", Inexact(1), "Oct", Num(1999), <<19, 43>>),
    Asctime(Num(5), "May", Plain("XXXX"), <<12, 56, 24>>),
    Asctime(Num(32), "May", Num(2014), <<12, 56, 24>>),
    <<Plain("Sunday,"), Inexact(6), Time(<<8, 49, 37>>), Plain("GMT")>>,
    <<Plain("Mon"), Plain("May")>>, <<>> }

MCTexts == STRING
MCFourLetters == {"Sat,", "Wed,"}

Start(m) == L("", <<Plain(m), Plain("/a"), Plain("HTTP/1.1")>>)
Host(h) == L("Host", <<Plain(h)>>)
HostPort(h, p) == L("Host", <<Plain(h), p>>)
Date(d) == L("If-Modified-Since", d)
Blank == L("", <<>>)
Data(ws) == L("", ws)

Hosts == { <<>>, <<Host("h1")>>, <<L("Host", <<>>)>>, <<HostPort("h1", Num(8080))>>,
           <<HostPort("h2", Plain("XXX")), Host("h1")>>,
           <<Host("h2"), Host("h1")>> }
Dates == {<<>>} \cup {<<Date(d)>> : d \in DOMAIN MCInstant \cup LooseDates \cup BadDates}
         \cup {<<Date(d), Date(Asctime(Num(29), "Feb", Num(2000), <<0, 0, 0>>))>> :
                  d \in DOMAIN MCInstant}
Others == { <<>>, <<L("Cookie", <<Cookie("k", <<1>>), Cookie("k", <<0>>), Cookie("l", <<>>)>>),
                    L("Cookie", <<Cookie("l", <<2>>), Cookie("l", <<3>>)>>),
                    L("Referer", <<Plain("r")>>), L("Accept", <<Plain("x")>>)>> }
Bodies == { <<>>, <<Blank>>, <<Blank, Data(<<Plain("b1"), Plain("b2")>>)>>,
            <<Blank, Data(<<Plain("b1")>>), Blank, Host("h2")>> }

\* a request's lines up to the blank one end in CR LF
CrLf(r) == [i \in DOMAIN r |-> [r[i] EXCEPT !.cr = i <= FirstBlank(r)]]

Texts1 ==
    {<<Start("GET")>> \o h \o d \o b : h \in Hosts, d \in Dates, b \in {<<>>, <<Blank>>}}
    \cup {<<Start(m)>> \o o \o h \o b : m \in {"POST", "PUT"}, o \in Others, h \in Hosts, b \in Bodies}
    \cup {<<Start("POST")>> \o d \o <<Host("h1")>> \o b : d \in Dates, b \in Bodies}
    \cup {<<L("", <<Plain("GET"), Plain("/a")>>), Host("h1")>>, <<Blank>>}

MCRequests == Texts1 \cup {CrLf(r) : r \in Texts1}
=============================================================================
