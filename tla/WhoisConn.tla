----------------------------- MODULE WhoisConn -----------------------------
(***************************************************************************)
(* queryServer (whois.go): one exchange with a port-43 server.  Dial under *)
(* a timeout and a context, set one deadline, write the query, read until  *)
(* the server closes or the limit is reached, close.  Time is counted from *)
(* the start of the exchange.  The server is external: it may refuse, stay *)
(* silent, send as slowly as it likes or without end, and close or break   *)
(* the connection after any part of its text.                              *)
(***************************************************************************)
EXTENDS Naturals

CONSTANTS
  Timeout,  \* c.timeout
  Limit,    \* what the LimitReader lets through, 2<<20 bytes in the code
  MaxSize   \* the most that a server sends

ASSUME ConnAssumption == Timeout \in Nat /\ Limit \in Nat /\ MaxSize \in Nat

VARIABLES
  at,         \* where queryServer is
  cancelled,  \* the context is done
  elapsed,    \* time since the exchange began
  deadline,   \* of the connection, once there is one
  open,       \* the connection is open on this side
  peer,       \* the server's side: "none", "up", "closed" or "broken"
  sent,       \* what the server has sent
  got,        \* what io.ReadAll has of it
  result      \* "text", or "error", when it returns

connVars == <<at, cancelled, elapsed, deadline, open, peer, sent, got, result>>

ConnInit ==
  /\ at = "idle" /\ cancelled = FALSE /\ elapsed = 0 /\ deadline = 0
  /\ open = FALSE /\ peer = "none" /\ sent = 0 /\ got = 0 /\ result = "none"

-----------------------------------------------------------------------------
\* DialContext starts; a context that is done already fails it.
Start ==
  /\ at = "idle"
  /\ at' = "dial" /\ elapsed' = 0 /\ deadline' = 0 /\ sent' = 0 /\ got' = 0
  /\ result' = "none"
  /\ cancelled' \in BOOLEAN
  /\ UNCHANGED <<open, peer>>

\* The caller cancels the context, or its deadline passes.
Cancel ==
  /\ at # "idle" /\ ~ cancelled
  /\ cancelled' = TRUE
  /\ UNCHANGED <<at, elapsed, deadline, open, peer, sent, got, result>>

\* Faulty: no deadline covers the exchange, only its idle spells.
ReceiveRenewing ==
  /\ at = "read" /\ got < Limit /\ got < sent
  /\ got' = got + 1 /\ deadline' = elapsed + Timeout
  /\ UNCHANGED <<at, cancelled, elapsed, open, peer, sent, result>>

\* The connection is there in time: its deadline is set, once.
Connected ==
  /\ at = "dial" /\ ~ cancelled
  /\ at' = "write" /\ open' = TRUE /\ deadline' = elapsed + Timeout
  /\ peer' = "up"
  /\ UNCHANGED <<cancelled, elapsed, sent, got, result>>

\* The server's side of a connection that is in use: it sends some more, ...
PeerSends ==
  /\ at \in {"write", "read"} /\ peer = "up" /\ sent < MaxSize
  /\ sent' = sent + 1
  /\ UNCHANGED <<at, cancelled, elapsed, deadline, open, peer, got, result>>

\* ... closes, whether it has sent all of its text or a part, ...
PeerCloses ==
  /\ at \in {"write", "read"} /\ peer = "up"
  /\ peer' = "closed"
  /\ UNCHANGED <<at, cancelled, elapsed, deadline, open, sent, got, result>>

\* ... or the connection is reset, before it closed or after.
PeerBreaks ==
  /\ at \in {"write", "read"} /\ peer \in {"up", "closed"}
  /\ peer' = "broken"
  /\ UNCHANGED <<at, cancelled, elapsed, deadline, open, sent, got, result>>

Returns(r) == at' = "return" /\ result' = r

\* Refused, unreachable, cancelled, or out of time.
DialFails ==
  /\ at = "dial" /\ Returns("error")
  /\ UNCHANGED <<cancelled, elapsed, deadline, open, peer, sent, got>>

\* When the operation that is under way is ended by the clock.
Expiry ==
  CASE at = "dial" -> Timeout
    [] at \in {"write", "read"} -> deadline
    [] OTHER -> 0

\* What makes a Write or a Read fail.
Fails == peer = "broken" \/ elapsed >= Expiry

Written ==
  /\ at = "write" /\ at' = "read"
  /\ UNCHANGED <<cancelled, elapsed, deadline, open, peer, sent, got, result>>

\* Faulty: the error path of the write leaves the connection open.
WriteFailsLeaking ==
  /\ at = "write" /\ Fails /\ at' = "idle" /\ result' = "error"
  /\ UNCHANGED <<cancelled, elapsed, deadline, open, peer, sent, got>>

WriteFails ==
  /\ at = "write" /\ Fails /\ Returns("error")
  /\ UNCHANGED <<cancelled, elapsed, deadline, open, peer, sent, got>>

Receive ==
  /\ at = "read" /\ got < Limit /\ got < sent
  /\ got' = got + 1
  /\ UNCHANGED <<at, cancelled, elapsed, deadline, open, peer, sent, result>>

\* io.EOF: the server has closed and all it sent is read, or the LimitReader
\* says so, which asks the connection no more.
ReadEnds ==
  /\ at = "read" /\ Returns("text")
  /\ got = Limit \/ (peer = "closed" /\ got = sent)
  /\ UNCHANGED <<cancelled, elapsed, deadline, open, peer, sent, got>>

\* Faulty: what was read until the error is taken for the text.
ReadFailsKeeping ==
  /\ at = "read" /\ got < Limit /\ Fails
  /\ Returns(IF got > 0 THEN "text" ELSE "error")
  /\ UNCHANGED <<cancelled, elapsed, deadline, open, peer, sent, got>>

\* The connection is reset, or the deadline passes: what was read is lost.
ReadFails ==
  /\ at = "read" /\ got < Limit /\ Fails /\ Returns("error")
  /\ UNCHANGED <<cancelled, elapsed, deadline, open, peer, sent, got>>

\* The deferred Close, where there is a connection, and the return.
Close ==
  /\ at = "return"
  /\ at' = "idle" /\ open' = FALSE /\ peer' = "none"
  /\ UNCHANGED <<cancelled, elapsed, deadline, sent, got, result>>

\* Time passes while the network is waited for, up to that moment.
Tick ==
  /\ at \in {"dial", "write", "read"} /\ elapsed < Expiry
  /\ elapsed' = elapsed + 1
  /\ UNCHANGED <<at, cancelled, deadline, open, peer, sent, got, result>>

\* Faulty: the deadline covers the write alone.
TimesOutWriting == elapsed >= Expiry /\ (DialFails \/ WriteFails)

\* Whatever the server does, an expired operation returns its error.
TimesOut == elapsed >= Expiry /\ (DialFails \/ WriteFails \/ ReadFails)

ConnNext ==
  \/ Start \/ Cancel \/ Connected \/ PeerSends \/ PeerCloses \/ PeerBreaks
  \/ DialFails \/ Written \/ WriteFails \/ Receive \/ ReadEnds \/ ReadFails
  \/ Close \/ Tick

\* Time goes on, an expired operation fails, the LimitReader ends what has
\* reached its limit, and the deferred Close runs; the server owes nothing.
ConnFairness ==
  /\ WF_connVars(Tick) /\ WF_connVars(TimesOut) /\ WF_connVars(Close)
  /\ WF_connVars(got = Limit /\ ReadEnds)

ConnSpec == ConnInit /\ [][ConnNext]_connVars /\ ConnFairness

-----------------------------------------------------------------------------
ConnTypeOK ==
  /\ at \in {"idle", "dial", "write", "read", "return"}
  /\ cancelled \in BOOLEAN /\ open \in BOOLEAN
  /\ elapsed \in Nat /\ deadline \in Nat
  /\ peer \in {"none", "up", "closed", "broken"}
  /\ sent \in 0..MaxSize /\ got \in 0..Limit
  /\ result \in {"none", "text", "error"}

\* However slowly a server sends, an exchange takes no longer than the dial's
\* timeout and the connection's: the deadline is absolute.
EndsInTime == at # "idle" => elapsed <= 2 * Timeout

\* No connection outlives its exchange, on any path out of queryServer.
NothingLeaks == at \in {"idle", "dial"} => ~ open

\* A text that is returned is all that the server sent before it closed, or
\* as much of it as the limit lets through: what a reset or the deadline cut
\* off is an error and never parsed.  A server that closes in the middle of
\* its text cannot be told from one that has no more to say.
AllThatWasSent ==
  at = "return" /\ result = "text" => got = Limit \/ (peer = "closed" /\ got = sent)

\* Why an exchange ends in time: the deadline is set within the dial's
\* timeout, and the clock stops neither operation later than its own.
ConnInv ==
  /\ ConnTypeOK
  /\ at = "dial" => elapsed <= Timeout
  /\ at \in {"write", "read"} => elapsed <= deadline /\ deadline <= 2 * Timeout
  /\ EndsInTime
  /\ NothingLeaks
  /\ at \in {"dial", "write", "read"} => result = "none"
  /\ got <= sent
  /\ AllThatWasSent

\* Every exchange ends, with silent servers too.
ExchangeEnds == at = "dial" ~> at = "idle"
=============================================================================
