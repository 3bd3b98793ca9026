-------------------------- MODULE RdapQueryProofs --------------------------
(***************************************************************************)
(* RdapQuery's type invariant, and that what a finished fetch says is true *)
(* and comes from an authority, for any web of sites, any objects and any  *)
(* bound on the redirects.  The inductive invariant is FetchInv: the last  *)
(* three conjuncts of Coherent follow from the two that say where the      *)
(* fetch has been.                                                         *)
(***************************************************************************)
EXTENDS RdapQuery, TLAPS

LEMMA ReplyFields ==
  ASSUME NEW S, NEW L, NEW r \in Reply(S, L)
  PROVE  r.status \in S /\ r.loc \in L
  BY DEF Reply

\* The answers of a host, case by case.
LEMMA ResponseCases ==
  ASSUME NEW url, NEW o, NEW r \in Responses(url, o)
  PROVE  \/ r.status \in Refusals /\ r.loc = NoSite
         \/ /\ r.status \in Redirections /\ r.loc \in Sites \cup {NoSite}
            /\ url = RdapBase /\ RdapBootstrap => o \in Deployed
         \/ /\ r.status = 404 /\ r.loc = NoSite
            /\ url = RdapBase /\ RdapBootstrap /\ o \notin Deployed
         \/ /\ r.status = (IF o \in Existing THEN 200 ELSE 404) /\ r.loc = NoSite
            /\ ~ (url = RdapBase /\ RdapBootstrap)
<1>1. CASE r \in Reply(Refusals, {NoSite})
  BY <1>1, ReplyFields
<1>2. CASE url = RdapBase /\ RdapBootstrap /\ r \notin Reply(Refusals, {NoSite})
  <2>1. CASE o \in Deployed
    <3>1. r \in Reply(Redirections, Sites \cup {NoSite})
      BY <1>2, <2>1 DEF Responses
    <3>2. QED
      BY <2>1, <3>1, ReplyFields
  <2>2. CASE o \notin Deployed
    <3>1. r \in Reply({404}, {NoSite})
      BY <1>2, <2>2 DEF Responses
    <3>2. QED
      BY <1>2, <2>2, <3>1, ReplyFields
  <2>3. QED
    BY <2>1, <2>2
<1>3. CASE ~ (url = RdapBase /\ RdapBootstrap) /\ r \notin Reply(Refusals, {NoSite})
  <2>1. \/ r \in Reply(Redirections, Sites \cup {NoSite})
        \/ r \in Reply({IF o \in Existing THEN 200 ELSE 404}, {NoSite})
    BY <1>3 DEF Responses
  <2>2. QED
    BY <1>3, <2>1, ReplyFields
<1>4. QED
  BY <1>1, <1>2, <1>3

\* The statuses and hosts a URL may answer with are of their types.
LEMMA ResponsesType ==
  ASSUME FetchAssumption, NEW url, NEW o, NEW r \in Responses(url, o)
  PROVE  r.status \in 0..599 /\ r.loc \in Sites \cup {NoSite}
<1>1. r.loc \in Sites \cup {NoSite}
  BY ResponseCases
<1>2. r.status \in Refusals \cup Redirections \cup {200, 404}
  BY ResponseCases
<1>3. Refusals \cup Redirections \cup {200, 404} \subseteq 0..599
  BY DEF FetchAssumption
<1>4. QED
  BY <1>1, <1>2, <1>3

\* Only a deployed object is redirected by the bootstrap.
LEMMA BootstrapRedirectsDeployed ==
  ASSUME FetchAssumption,
         NEW o, NEW r \in Responses(RdapBase, o), RdapBootstrap, IsRedirect(r.status)
  PROVE  o \in Deployed
<1>1. r.status \in 0..599
  BY ResponsesType
<1>2. r.status \notin Refusals /\ r.status # 404
  BY <1>1 DEF FetchAssumption, IsRedirect
<1>3. CASE o \in Deployed
  BY <1>3
<1>4. CASE o \notin Deployed
  <2>1. r \in Reply(Refusals, {NoSite}) \/ r \in Reply({404}, {NoSite})
    BY <1>4 DEF Responses
  <2>2. QED
    BY <1>2, <2>1, ReplyFields
<1>5. QED
  BY <1>3, <1>4

\* What the verdict says of a response that was read (rdapGet's switch and
\* its callers'), whatever the body is.
LEMMA VerdictTells ==
  ASSUME FetchAssumption,
         NEW f \in [at : {"idle", "loop", "body", "done", "panicked"}, obj : Objects, url : Sites,
                    i : 0..MaxRequests, redirected : BOOLEAN, status : 0..599, outcome : Outcomes],
         NEW body \in Bodies, f.at = "body", Coherent(f)
  PROVE  /\ Verdict(f, body) \in {"found", "notFound", "NoRDAP", "failed"}
         /\ Verdict(f, body) = "found" => f.obj \in Existing
         /\ Verdict(f, body) = "notFound" => f.obj \in Deployed \ Existing
         /\ Verdict(f, body) = "NoRDAP" => f.obj \notin Deployed
         /\ Verdict(f, body) \in {"found", "notFound"} => ~ (RdapBootstrap /\ f.url = RdapBase)
<1>1. PICK r \in Responses(f.url, f.obj) : r.status = f.status /\ ~ IsRedirect(r.status)
  BY DEF Coherent
<1>2. RdapBootstrap => IF f.redirected THEN f.obj \in Deployed ELSE f.url = RdapBase
  BY DEF Coherent
<1>3. f.redirected \in BOOLEAN /\ f.status \in 0..599 /\ f.obj \in Objects
  OBVIOUS
<1>4. CASE f.status \in Refusals
  BY <1>4 DEF FetchAssumption, Verdict, GetError
<1>5. CASE f.status \notin Refusals /\ f.url = RdapBase /\ RdapBootstrap
  <2>1. f.status = 404 /\ f.obj \notin Deployed
    BY <1>1, <1>5, ResponseCases DEF FetchAssumption, IsRedirect
  <2>2. ~ f.redirected
    BY <1>2, <1>5, <2>1
  <2>3. Verdict(f, body) = "NoRDAP"
    BY <1>5, <2>1, <2>2 DEF Verdict, GetError
  <2>4. QED
    BY <2>1, <2>3
<1>6. CASE f.status \notin Refusals /\ ~ (f.url = RdapBase /\ RdapBootstrap)
  <2>1. f.status = IF f.obj \in Existing THEN 200 ELSE 404
    BY <1>1, <1>6, ResponseCases DEF FetchAssumption, IsRedirect
  <2>2. RdapBootstrap => f.redirected
    BY <1>2, <1>6
  <2>3. f.obj \in Deployed
    BY <1>2, <1>3, <2>2 DEF FetchAssumption
  <2>4. GetError(f) = "none"
    BY <2>1, <2>2 DEF GetError
  <2>5. CASE f.obj \in Existing
    <3>1. Verdict(f, body) \in {"found", "failed"}
      BY <2>1, <2>4, <2>5 DEF Verdict
    <3>2. QED
      BY <1>6, <2>5, <3>1
  <2>6. CASE f.obj \notin Existing
    <3>1. Verdict(f, body) = "notFound"
      BY <2>1, <2>4, <2>6 DEF Verdict
    <3>2. QED
      BY <1>6, <2>3, <2>6, <3>1
  <2>7. QED
    BY <2>5, <2>6
<1>7. QED
  BY <1>4, <1>5, <1>6

LEMMA FetchInitInv ==
  ASSUME FetchAssumption PROVE FetchInit => FetchInv
  BY DEF FetchAssumption, FetchInit, NotFetching, FetchInv, FetchTypeOK, Outcomes, Coherent,
      TruthfulOutcome, AuthorityOutcome

\* A step of a fetch preserves the invariant, one case per action.
LEMMA FetchStepInv ==
  ASSUME FetchAssumption PROVE FetchInv /\ [FetchNext]_fetch => FetchInv'
<1> DEFINE Call == [at : {"idle", "loop", "body", "done", "panicked"}, obj : Objects, url : Sites,
                    i : 0..MaxRequests, redirected : BOOLEAN, status : 0..599, outcome : Outcomes]
<1> SUFFICES ASSUME FetchInv, [FetchNext]_fetch PROVE FetchInv'
  OBVIOUS
<1>1. fetch \in [Callers -> Call] /\ \A c \in Callers : Coherent(fetch[c])
  BY DEF FetchInv, FetchTypeOK
\* An action rewrites one call: what it makes of it is all that matters.
<1>2. ASSUME NEW c \in Callers, NEW f \in Call, Coherent(f), fetch' = [fetch EXCEPT ![c] = f]
      PROVE  FetchInv'
  <2>1. fetch' \in [Callers -> Call]
    BY <1>1, <1>2
  <2>2. \A d \in Callers : fetch'[d] = IF d = c THEN f ELSE fetch[d]
    BY <1>1, <1>2
  <2>3. \A d \in Callers : Coherent(fetch'[d])
    BY <1>1, <1>2, <2>2
  <2>4. QED
    BY <2>1, <2>3 DEF FetchInv, FetchTypeOK, Coherent, TruthfulOutcome, AuthorityOutcome
<1>3. ASSUME NEW c \in Callers, FetchStep(c) PROVE FetchInv'
  <2> DEFINE f == fetch[c]
  <2>1. f \in Call /\ Coherent(f)
    BY <1>1
  \* The calls that end without a record.
  <2>2. ASSUME Finish(c, "failed") PROVE FetchInv'
    <3> DEFINE g == [f EXCEPT !.at = "done", !.outcome = "failed"]
    <3>1. g \in Call
      BY <2>1 DEF Outcomes
    <3>2. g.at = "done" /\ g.outcome = "failed"
      BY <2>1
    <3>3. Coherent(g)
      BY <3>2 DEF Coherent, TruthfulOutcome, AuthorityOutcome
    <3>4. fetch' = [fetch EXCEPT ![c] = g]
      BY <1>1, <2>2 DEF Finish
    <3>5. QED
      BY <1>2, <3>1, <3>3, <3>4
  <2>3. CASE RequestFails(c) \/ RefuseRedirect(c) \/ TooManyRedirects(c) \/ ReadFails(c)
    BY <2>2, <2>3 DEF RequestFails, RefuseRedirect, TooManyRedirects, ReadFails
  <2>4. CASE FollowRedirect(c)
    <3>1. PICK r \in Responses(f.url, f.obj) :
            /\ IsRedirect(r.status) /\ r.loc # NoSite
            /\ fetch' = [fetch EXCEPT ![c].url = r.loc, ![c].redirected = TRUE, ![c].i = @ + 1]
      BY <2>4 DEF FollowRedirect
    <3> DEFINE g == [f EXCEPT !.url = r.loc, !.redirected = TRUE, !.i = f.i + 1]
    <3>2. f.at = "loop" /\ f.i < MaxRequests /\ f.outcome = "none"
      BY <2>1, <2>4 DEF FollowRedirect, Requesting, Coherent
    <3>3. r.loc \in Sites
      BY <2>1, <3>1, ResponsesType
    <3>4. RdapBootstrap => f.obj \in Deployed
      BY <2>1, <3>1, <3>2, BootstrapRedirectsDeployed DEF Coherent
    <3>5. g \in Call
      <4>1. f.i + 1 \in 0..MaxRequests
        BY <2>1, <3>2 DEF FetchAssumption
      <4>2. QED
        BY <2>1, <3>3, <4>1
    <3>6. Coherent(g)
      BY <2>1, <3>2, <3>4 DEF Coherent, TruthfulOutcome, AuthorityOutcome
    <3>7. fetch' = [fetch EXCEPT ![c] = g]
      BY <1>1, <3>1
    <3>8. QED
      BY <1>2, <3>5, <3>6, <3>7
  <2>5. CASE TakeResponse(c)
    <3>1. PICK r \in Responses(f.url, f.obj) :
            /\ ~ IsRedirect(r.status)
            /\ fetch' = [fetch EXCEPT ![c].at = "body", ![c].status = r.status]
      BY <2>5 DEF TakeResponse
    <3> DEFINE g == [f EXCEPT !.at = "body", !.status = r.status]
    <3>2. f.at = "loop" /\ f.outcome = "none"
      BY <2>1, <2>5 DEF TakeResponse, Requesting, Coherent
    <3>3. r.status \in 0..599
      BY <2>1, <3>1, ResponsesType
    <3>4. g \in Call
      BY <2>1, <3>3
    <3>5. g.url = f.url /\ g.obj = f.obj /\ g.status = r.status /\ g.redirected = f.redirected
          /\ g.at = "body" /\ g.outcome = "none"
      BY <2>1, <3>2
    <3>6. Coherent(g)
      BY <2>1, <3>1, <3>2, <3>5 DEF Coherent, TruthfulOutcome, AuthorityOutcome
    <3>7. fetch' = [fetch EXCEPT ![c] = g]
      BY <1>1, <3>1
    <3>8. QED
      BY <1>2, <3>4, <3>6, <3>7, ZenonT(40)
  <2>6. CASE ReadBody(c)
    <3>1. PICK body \in Bodies : Finish(c, Verdict(f, body))
      BY <2>6 DEF ReadBody
    <3> DEFINE v == Verdict(f, body)
               g == [f EXCEPT !.at = "done", !.outcome = v]
    <3>2. f.at = "body"
      BY <2>6 DEF ReadBody
    <3>3. /\ v \in {"found", "notFound", "NoRDAP", "failed"}
          /\ v = "found" => f.obj \in Existing
          /\ v = "notFound" => f.obj \in Deployed \ Existing
          /\ v = "NoRDAP" => f.obj \notin Deployed
          /\ v \in {"found", "notFound"} => ~ (RdapBootstrap /\ f.url = RdapBase)
      BY <2>1, <3>2, VerdictTells
    <3> HIDE DEF v
    <3>4. g \in Call
      BY <2>1, <3>3 DEF Outcomes
    <3>5. Coherent(g)
      BY <2>1, <3>3 DEF Coherent, TruthfulOutcome, AuthorityOutcome
    <3>6. fetch' = [fetch EXCEPT ![c] = g]
      BY <1>1, <3>1 DEF Finish, v
    <3>7. QED
      BY <1>2, <3>4, <3>5, <3>6
  <2>7. CASE Panic(c)
    <3> DEFINE g == [f EXCEPT !.at = "panicked"]
    <3>1. f.outcome = "none"
      BY <2>1, <2>7 DEF Panic, Coherent
    <3>2. g \in Call /\ Coherent(g)
      BY <2>1, <3>1 DEF Coherent, TruthfulOutcome, AuthorityOutcome
    <3>3. fetch' = [fetch EXCEPT ![c] = g]
      BY <1>1, <2>7 DEF Panic
    <3>4. QED
      BY <1>2, <3>2, <3>3
  <2>8. QED
    BY <1>3, <2>3, <2>4, <2>5, <2>6, <2>7 DEF FetchStep
<1>4. NotFetching \in Call /\ Coherent(NotFetching)
  BY DEF FetchAssumption, NotFetching, Coherent, TruthfulOutcome, AuthorityOutcome, Outcomes
<1>5. ASSUME NEW o \in Objects
      PROVE  LET g == [NotFetching EXCEPT !.at = "loop", !.obj = o]
             IN g \in Call /\ Coherent(g)
  <2> DEFINE g == [NotFetching EXCEPT !.at = "loop", !.obj = o]
  <2>1. NotFetching.url = RdapBase /\ NotFetching.redirected = FALSE /\ NotFetching.outcome = "none"
    BY DEF NotFetching
  <2>2. g \in Call
    BY <1>4, <1>5, ZenonT(40)
  <2>3. g.at = "loop" /\ g.url = RdapBase /\ g.redirected = FALSE /\ g.outcome = "none"
    BY <1>4, <2>1
  <2>4. Coherent(g)
    BY <2>3 DEF Coherent, TruthfulOutcome, AuthorityOutcome
  <2>5. QED
    BY <2>2, <2>4
<1>6. ASSUME NEW c \in Callers, NEW o \in Objects, Fetch(c, o) PROVE FetchInv'
  BY <1>2, <1>5, <1>6, ZenonT(40) DEF Fetch
<1>7. ASSUME NEW c \in Callers, Release(c) PROVE FetchInv'
  BY <1>2, <1>4, <1>7 DEF Release
<1>8. CASE UNCHANGED fetch
  BY <1>8 DEF FetchInv, FetchTypeOK, Coherent, TruthfulOutcome, AuthorityOutcome
<1>9. QED
  BY <1>3, <1>6, <1>7, <1>8 DEF FetchNext

\* Every reachable state of the RDAP side satisfies the invariant.
THEOREM FetchInvariant ==
  ASSUME FetchAssumption PROVE FetchSpec => []FetchInv
<1>1. FetchInit => FetchInv
  BY FetchInitInv
<1>2. FetchInv /\ [FetchNext]_fetch => FetchInv'
  BY FetchStepInv
<1>3. QED
  BY <1>1, <1>2, PTL DEF FetchSpec

\* The variable keeps its type; in particular a fetch never makes more than
\* MaxRequests requests (rdapGet's loop).
THEOREM FetchTypeCorrect ==
  ASSUME FetchAssumption PROVE FetchSpec => []FetchTypeOK
<1>1. FetchInv => FetchTypeOK
  BY DEF FetchInv
<1>2. QED
  BY <1>1, FetchInvariant, PTL

\* "Registered", "available" and ErrNoRDAP are said of the objects they are
\* true of, whatever redirects led there (rdapGet, rdapQuery, rdapQueryIP,
\* QueryASNContext).
THEOREM FetchTruthful ==
  ASSUME FetchAssumption PROVE FetchSpec => []Truthful
<1>1. FetchInv => Truthful
  BY DEF FetchInv, Coherent, Truthful
<1>2. QED
  BY <1>1, FetchInvariant, PTL

\* A record's Server is never the bootstrap redirector.
THEOREM FetchAnsweredByAuthority ==
  ASSUME FetchAssumption PROVE FetchSpec => []AnsweredByAuthority
<1>1. FetchInv => AnsweredByAuthority
  BY DEF FetchInv, Coherent, AnsweredByAuthority
<1>2. QED
  BY <1>1, FetchInvariant, PTL
=============================================================================
