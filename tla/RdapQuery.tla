----------------------------- MODULE RdapQuery -----------------------------
(***************************************************************************)
(* The RDAP side of a Client: rdapGet's redirect loop (rdap.go) and the    *)
(* switch on the final status that rdapQuery, rdapQueryIP and              *)
(* QueryASNContext share.  Every caller is a goroutine with one fetch at a *)
(* time; all state of a fetch is local to its caller.                      *)
(*                                                                         *)
(* The web is external.  It is described by what is true of an object (its *)
(* TLD or range has an RDAP deployment, it is registered) and it answers   *)
(* truthfully or not at all: Responses lists what a URL may answer.        *)
(***************************************************************************)
EXTENDS Integers

CONSTANTS
  Callers,        \* goroutines that share one Client
  Objects,        \* domains, addresses and AS numbers a caller may ask for
  Kind,           \* Kind[o] \in {"domain", "ip", "autnum"}: the path asked for
  Deployed,       \* the objects whose TLD or range has an RDAP service
  Existing,       \* the objects that are registered
  Sites,          \* the hosts that serve RDAP, the configured one included
  RdapBase,       \* c.rdapBase
  RdapBootstrap,  \* c.rdapBootstrap: RdapBase is a redirector like rdap.org
  NoSite,         \* a Location header that is missing or does not parse
  MaxRequests,    \* the loop's bound, 5 in the code
  Redirections,   \* the 3xx statuses the web uses
  Refusals,       \* statuses other than 200, 404 and 3xx the web uses
  Bodies          \* what a body of status 200 can be

\* What the constants are.  (Client assumes it of its own.)
FetchAssumption ==
  /\ Objects # {}
  /\ Kind \in [Objects -> {"domain", "ip", "autnum"}]
  /\ Deployed \subseteq Objects
  /\ Existing \subseteq Objects
  /\ RdapBase \in Sites
  /\ NoSite \notin Sites
  /\ RdapBootstrap \in BOOLEAN
  /\ MaxRequests \in Nat
  /\ Redirections \subseteq 300..399
  /\ Refusals \subseteq (100..599) \ (300..399 \cup {200, 404})
  /\ Bodies \subseteq {"object", "expiring", "notJSON"}
  \* WithRDAPBaseURL: a custom endpoint is authoritative for what it is asked.
  /\ RdapBootstrap \/ Deployed = Objects

VARIABLE fetch  \* fetch[c]: the rdapGet call of caller c

(***************************************************************************)
(* at: where the call is.  url, i and redirected are the loop's variables, *)
(* url standing for the host as the path never changes; status is the      *)
(* final response's.  outcome is what the call returns: a record (found or *)
(* notFound, with url as its Server), ErrNoRDAP, or any other error.       *)
(***************************************************************************)
Outcomes == {"none", "found", "notFound", "NoRDAP", "failed"}

NotFetching ==
  [at |-> "idle", obj |-> CHOOSE o \in Objects : TRUE, url |-> RdapBase, i |-> 0,
   redirected |-> FALSE, status |-> 0, outcome |-> "none"]

FetchInit == fetch = [c \in Callers |-> NotFetching]

-----------------------------------------------------------------------------
(* The web (external).                                                     *)

IsRedirect(status) == status >= 300 /\ status < 400

Reply(statuses, locations) == [status : statuses, loc : locations]

\* A redirector knows who serves an object; an authority knows the object.
\* Either may point elsewhere, with or without a usable Location, or refuse.
Responses(url, o) ==
  Reply(Refusals, {NoSite}) \cup
  IF url = RdapBase /\ RdapBootstrap
  THEN IF o \in Deployed THEN Reply(Redirections, Sites \cup {NoSite})
                         ELSE Reply({404}, {NoSite})
  ELSE Reply(Redirections, Sites \cup {NoSite}) \cup
       Reply({IF o \in Existing THEN 200 ELSE 404}, {NoSite})

-----------------------------------------------------------------------------
(* rdapGet.                                                                *)

Fetch(c, o) ==
  /\ fetch[c].at = "idle"
  /\ fetch' = [fetch EXCEPT ![c] = [NotFetching EXCEPT !.at = "loop", !.obj = o]]

Finish(c, outcome) ==
  fetch' = [fetch EXCEPT ![c].at = "done", ![c].outcome = outcome]

\* Faulty: the bound is off by one.
RequestingOnceMore(c) == fetch[c].at = "loop" /\ fetch[c].i <= MaxRequests

Requesting(c) == fetch[c].at = "loop" /\ fetch[c].i < MaxRequests

\* NewRequest or Do fails: a bad URL, a transport error, the HTTP client's
\* timeout, a context that is done.
RequestFails(c) == Requesting(c) /\ Finish(c, "failed")

\* Faulty: a redirect does not count against the bound.
FollowRedirectUncounted(c) ==
  /\ Requesting(c)
  /\ \E r \in Responses(fetch[c].url, fetch[c].obj) :
       /\ IsRedirect(r.status) /\ r.loc # NoSite
       /\ fetch' = [fetch EXCEPT ![c].url = r.loc, ![c].redirected = TRUE]

\* Faulty: the redirect is followed silently, as net/http would.
FollowRedirectSilently(c) ==
  /\ Requesting(c)
  /\ \E r \in Responses(fetch[c].url, fetch[c].obj) :
       /\ IsRedirect(r.status) /\ r.loc # NoSite
       /\ fetch' = [fetch EXCEPT ![c].url = r.loc, ![c].i = @ + 1]

\* A 3xx with a usable Location: the next request goes there.
FollowRedirect(c) ==
  /\ Requesting(c)
  /\ \E r \in Responses(fetch[c].url, fetch[c].obj) :
       /\ IsRedirect(r.status) /\ r.loc # NoSite
       /\ fetch' = [fetch EXCEPT ![c].url = r.loc, ![c].redirected = TRUE, ![c].i = @ + 1]

\* A 3xx whose Location is missing or does not parse ends the call.
RefuseRedirect(c) ==
  /\ Requesting(c)
  /\ \E r \in Responses(fetch[c].url, fetch[c].obj) : IsRedirect(r.status) /\ r.loc = NoSite
  /\ Finish(c, "failed")

\* Any other status leaves the loop with the response.
TakeResponse(c) ==
  /\ Requesting(c)
  /\ \E r \in Responses(fetch[c].url, fetch[c].obj) :
       /\ ~ IsRedirect(r.status)
       /\ fetch' = [fetch EXCEPT ![c].at = "body", ![c].status = r.status]

TooManyRedirects(c) ==
  fetch[c].at = "loop" /\ fetch[c].i >= MaxRequests /\ Finish(c, "failed")

\* The connection breaks while the body is read.
ReadFails(c) == fetch[c].at = "body" /\ Finish(c, "failed")

\* Faulty: the 404 of an authority reached by a redirect is taken for the
\* bootstrap's.
GetErrorIgnoringRedirects(f) ==
  CASE f.status = 404 /\ RdapBootstrap -> "NoRDAP"
    [] f.status >= 400 /\ f.status # 404 -> "failed"
    [] OTHER -> "none"

\* Faulty: every 404 is the registry's; there is no ErrNoRDAP.
GetErrorTrustingEvery404(f) ==
  IF f.status >= 400 /\ f.status # 404 THEN "failed" ELSE "none"

\* rdapGet's closing switch: the error it returns, if any.
GetError(f) ==
  CASE f.status = 404 /\ RdapBootstrap /\ ~ f.redirected -> "NoRDAP"
    [] f.status >= 400 /\ f.status # 404 -> "failed"
    [] OTHER -> "none"

\* The callers' switch on the status rdapGet returned.
Verdict(f, body) ==
  CASE GetError(f) # "none" -> GetError(f)
    [] GetError(f) = "none" /\ f.status = 404 -> "notFound"
    [] GetError(f) = "none" /\ f.status = 200 /\ body # "notJSON" -> "found"
    [] OTHER -> "failed"

\* rdapDates dereferences the expiry it is given, and QueryIP and QueryASN
\* give it nil: a body with an expiration event of theirs is fatal.
Fatal(f, body) == f.status = 200 /\ body = "expiring" /\ Kind[f.obj] # "domain"

ReadBody(c) ==
  /\ fetch[c].at = "body"
  /\ \E body \in Bodies : ~ Fatal(fetch[c], body) /\ Finish(c, Verdict(fetch[c], body))

Panic(c) ==
  /\ fetch[c].at = "body"
  /\ \E body \in Bodies : Fatal(fetch[c], body)
  /\ fetch' = [fetch EXCEPT ![c].at = "panicked"]

\* The caller takes the outcome.
Release(c) ==
  /\ fetch[c].at = "done"
  /\ fetch' = [fetch EXCEPT ![c] = NotFetching]

\* A panic nobody recovers ends the process, all its goroutines included.
Running == \A c \in Callers : fetch[c].at # "panicked"

FetchStep(c) ==
  /\ Running
  /\ \/ RequestFails(c) \/ FollowRedirect(c) \/ RefuseRedirect(c) \/ TakeResponse(c)
     \/ TooManyRedirects(c) \/ ReadFails(c) \/ ReadBody(c) \/ Panic(c)

FetchNext ==
  /\ Running
  /\ \E c \in Callers : FetchStep(c) \/ Release(c) \/ \E o \in Objects : Fetch(c, o)

\* Every request and every read ends, in an answer or in an error, because
\* the HTTP client has a timeout.  Nobody has to ask.
FetchFairness == \A c \in Callers : WF_fetch(FetchStep(c))

FetchSpec == FetchInit /\ [][FetchNext]_fetch /\ FetchFairness

-----------------------------------------------------------------------------
FetchTypeOK ==
  fetch \in [Callers ->
    [at : {"idle", "loop", "body", "done", "panicked"}, obj : Objects, url : Sites,
     i : 0..MaxRequests, redirected : BOOLEAN, status : 0..599, outcome : Outcomes]]

\* What a finished fetch says of its object is true, whatever chain of
\* redirects it followed: a record that says registered or available
\* describes the registry, and ErrNoRDAP is only said of an object that no
\* RDAP service covers (rdapGet's "the first hop tells us").
TruthfulOutcome(f) ==
  /\ f.outcome = "found" => f.obj \in Existing
  /\ f.outcome = "notFound" => f.obj \in Deployed \ Existing
  /\ f.outcome = "NoRDAP" => f.obj \notin Deployed

Truthful == \A c \in Callers : TruthfulOutcome(fetch[c])

\* The Server of a record is an authority, never the redirector that was
\* asked first (Record.Server: the server that produced the answer).
AuthorityOutcome(f) ==
  f.outcome \in {"found", "notFound"} => ~ (RdapBootstrap /\ f.url = RdapBase)

AnsweredByAuthority == \A c \in Callers : AuthorityOutcome(fetch[c])

\* Why the two above hold: up to its first redirect a fetch is at the
\* bootstrap, which redirects for deployed objects only, and the status that
\* left the loop is one that its last host gives for its object.
Coherent(f) ==
  /\ f.outcome # "none" => f.at = "done"
  /\ RdapBootstrap /\ f.at \in {"loop", "body"} =>
       IF f.redirected THEN f.obj \in Deployed ELSE f.url = RdapBase
  /\ f.at = "body" =>
       \E r \in Responses(f.url, f.obj) : r.status = f.status /\ ~ IsRedirect(r.status)
  /\ TruthfulOutcome(f)
  /\ AuthorityOutcome(f)

FetchInv == FetchTypeOK /\ \A c \in Callers : Coherent(fetch[c])

\* Every fetch ends, even among sites that redirect to each other forever,
\* unless a panic ends them all.
FetchEnds == \A c \in Callers : fetch[c].at = "loop" ~> fetch[c].at = "done" \/ ~ Running

\* No answer of a server takes the program down: a call ends with a record
\* or an error (Client: "QueryIP looks up the registration ... RDAP first").
NeverPanics == Running
=============================================================================
