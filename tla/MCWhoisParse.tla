---------------------------- MODULE MCWhoisParse ----------------------------
(* The kinds of lines that registries send, and texts of a few of them: all *)
(* the shapes of lines for the scan, and for each part of Parse and         *)
(* ParseIPWhois the lines that it looks at.                                 *)
EXTENDS WhoisParse

CONSTANTS s1, s2, tOk, tHold

Empty == [empty |-> TRUE, date |-> FALSE, ascii |-> TRUE, server |-> NoServer, statuses |-> <<>>,
          state |-> "none", range |-> "none"]
Word == [Empty EXCEPT !.empty = FALSE, !.statuses = <<tOk>>]
Foreign == [Word EXCEPT !.ascii = FALSE]
Date == [Word EXCEPT !.date = TRUE]
Two == [Word EXCEPT !.statuses = <<tHold, tOk>>]
Server(s) == [Word EXCEPT !.server = s]
State(kind) == [Word EXCEPT !.state = kind]
Network(form) == [Word EXCEPT !.range = form]

MCValues == {Empty, Word, Foreign, Date, Two} \cup {Server(s) : s \in {s1, s2}} \cup
            {State(d) : d \in {"date", "other"}} \cup {Network(f) : f \in {"slash", "dash"}}

Say(key, value, whole) ==
  [key |-> key, plain |-> TRUE, value |-> value, whole |-> whole, notice |-> "no"]

Plain == [blank |-> FALSE, noise |-> FALSE, dated |-> FALSE, bracket |-> FALSE, open |-> FALSE,
          colon |-> FALSE, header |-> FALSE, named |-> TRUE, ns |-> FALSE, valued |-> FALSE,
          says |-> Say("text", Empty, Word)]

Blank == [Plain EXCEPT !.blank = TRUE, !.named = FALSE, !.says = Say("text", Empty, Empty)]
Comment == [Plain EXCEPT !.noise = TRUE]
Header(key) == [Plain EXCEPT !.colon = TRUE, !.header = TRUE, !.says = Say(key, Empty, Word)]
Titling(key) == [Plain EXCEPT !.says = Say(key, Empty, Word)]
Field(key, value) ==
  [Plain EXCEPT !.colon = TRUE, !.header = TRUE, !.valued = TRUE, !.says = Say(key, value, Word)]
Dated == [Plain EXCEPT !.dated = TRUE, !.says = Say("record created on", Date, Word)]
Bracketed(key, value) ==
  [Plain EXCEPT !.bracket = TRUE, !.open = TRUE, !.says = Say(key, value, Word)]
Telling(line, notice) == [line EXCEPT !.says.notice = notice]

\* ns1.example.uk, p. [Name Server] ns2, and ns1.a 2001:db8::1
Value == [Plain EXCEPT !.says = Say("text", Empty, Server(s1))]
Lettered == [Plain EXCEPT !.bracket = TRUE, !.says = Say("name server", Server(s2), Word)]
Addressed == [Plain EXCEPT !.colon = TRUE, !.valued = TRUE, !.says = Say("text", Word, Server(s1))]
Unnamed == [Field("text", Word) EXCEPT !.named = FALSE]
Servers == [Header("name servers") EXCEPT !.ns = TRUE]
BareServers == [Titling("nameservers") EXCEPT !.ns = TRUE]
ServerField == [Field("nserver", Server(s1)) EXCEPT !.ns = TRUE]

Shapes == {Blank, Value, Dated, Bracketed("state", Word), Addressed, Header("registrar"),
           Field("registrar", Word), Servers, BareServers}
Rare == {Comment, Lettered, Unnamed}
Aliased == {Field("domain", Word), Field("domain name", Word), Field("created", Date),
            Field("creation date", Word), Field("dnssec", Foreign), Field("dnssec status", Word),
            Field("status", Two), Field("domain status", Word), ServerField}
Blocked == {Blank, Titling("registrar"), Header("registrar"), Header("admin contact"),
            Field("name", Word), Field("organization", Word), Header("organization"), Value}
Special == {Bracketed("state", State("date")), Bracketed("state", State("other")),
            Field("expires", Date), Field("organization", Word), Field("registrar", Word),
            Field("organization name", Word)}
Notices == {Blank, Telling(Comment, "whole"), Telling(Plain, "head"), Telling(Plain, "tail"),
            Field("domain", Word), Field("registrar", Word)}
Ranged == {Field("inetnum", Network("slash")), Field("inetnum", Network("dash")),
           Field("inetnum", Word), Field("cidr", Network("slash")), Field("created", Date),
           Field("status", Word), Telling(Plain, "whole")}

MCLines == Shapes \cup Rare \cup Aliased \cup Blocked \cup Special \cup Notices \cup Ranged
MCKeys == {l.says.key : l \in MCLines}
MCSayings == {l.says : l \in MCLines}

Upto(n, S) == UNION {[1..m -> S] : m \in 1..n}
Call(function, tld, texts) == [function |-> function, tld |-> tld, texts |-> texts]

MCCalls == {
  Call("Parse", "com", Upto(5, Shapes \ {Dated})), Call("Parse", "com", Upto(4, Shapes \cup Rare)),
  Call("Parse", "com", Upto(4, Aliased)), Call("Parse", "com", Upto(4, Notices)),
  Call("Parse", "eu", Upto(3, Blocked)), Call("Parse", "it", Upto(4, Blocked)),
  Call("Parse", "jp", Upto(4, Special)), Call("Parse", "tr", Upto(3, Special)),
  Call("ParseIPWhois", "none", Upto(4, Ranged)), Call("ParseIPWhois", "none", Upto(3, Notices))}
MCTexts == UNION {c.texts : c \in MCCalls}
=============================================================================
