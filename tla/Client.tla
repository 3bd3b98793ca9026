------------------------------- MODULE Client -------------------------------
(***************************************************************************)
(* A Client shared by goroutines that call QueryContext, QueryIPContext    *)
(* and QueryASNContext on it: RDAP first, then the fall-back to WHOIS with *)
(* the resolution of the server, the exchange with it, and the referral to *)
(* the registrar's server (client.go, whois.go, ip.go).  It composes       *)
(* RdapQuery and ServerCache; the calls share nothing but serverCache.     *)
(*                                                                         *)
(* Port-43 servers are external.  A reply is described by what the parser  *)
(* can tell of it, and by what its author means by it.                     *)
(***************************************************************************)
EXTENDS Naturals

CONSTANTS
  Callers,                       \* goroutines
  Domains, Addresses, ASNs,      \* objects, by kind
  TldOf,                         \* TldOf[d]: the last label of d
  Malformed, NoObject,           \* an unusable input, no input
  Deployed, Existing,            \* see RdapQuery
  Sites, RdapBase, RdapBootstrap, NoSite, MaxRequests, Redirections, Refusals, Bodies,
  TLDs, Servers, NoServer, Overrides, Table, Referrals,  \* see ServerCache
  Options,                       \* the settings New may be given
  Fields,                        \* the fields of ParsedInfo that matter
  WhoisReplies                   \* the texts a port-43 server may send

Objects == Domains \cup Addresses \cup ASNs
Kind == [o \in Objects |->
           IF o \in Domains THEN "domain" ELSE IF o \in Addresses THEN "ip" ELSE "autnum"]

(***************************************************************************)
(* A reply: blank when nothing but white space; notFound when one of       *)
(* notFoundPatterns occurs in it; named when a domain name, or an address  *)
(* range, is extracted; pairs, how many key/value pairs are (2 for two or  *)
(* more); refer, the registrar's server it advertises, schemed when behind *)
(* "whois://"; fields, the other fields it fills.  says is what it means:  *)
(* the object is registered, it is free, or the query is refused.          *)
(***************************************************************************)
ASSUME ClientAssumption ==
  /\ Options \subseteq [preferRDAP : BOOLEAN, fallbackWhois : BOOLEAN, followReferral : BOOLEAN]
  /\ Malformed \notin Objects /\ NoObject \notin Objects \cup {Malformed}
  /\ TldOf \in [Domains -> TLDs]
  /\ WhoisReplies \subseteq
       [blank : BOOLEAN, notFound : BOOLEAN, named : BOOLEAN, pairs : 0..2,
        refer : Servers \cup {NoServer}, schemed : BOOLEAN,
        fields : SUBSET (Fields \ {"WhoisServer"}), says : {"registered", "free", "refused"}]

VARIABLES
  opts,     \* the options New was given that the calls branch on
  call,     \* call[c]: the locals of c's call
  fetch,                                \* RdapQuery
  serverCache, resolving, discovered    \* ServerCache

Rdap == INSTANCE RdapQuery
Cache == INSTANCE ServerCache

ASSUME ComponentsAssumption == Rdap!FetchAssumption /\ Cache!CacheAssumption

cacheVars == <<serverCache, resolving, discovered>>
vars == <<opts, call, fetch, serverCache, resolving, discovered>>

\* A ParsedInfo says of each field which server filled it.
NoInfo == [f \in Fields |-> NoServer]

\* raw and registryRaw name the servers whose texts Raw and RegistryRaw hold;
\* errs is what the error that was returned mentions.
NoResult == [source |-> "none", found |-> FALSE, server |-> NoServer, raw |-> NoServer,
             registryRaw |-> NoServer, parsed |-> NoInfo, errs |-> {}]

NoCall == [at |-> "idle", obj |-> NoObject, rdapErr |-> "none", server |-> NoServer,
           parsed |-> NoInfo, refer |-> NoServer, result |-> NoResult]

\* New, given WithPreferRDAP, WithWhoisFallback and WithReferralFollowing.
Init ==
  /\ opts \in Options
  /\ call = [c \in Callers |-> NoCall]
  /\ Rdap!FetchInit
  /\ Cache!CacheInit

-----------------------------------------------------------------------------
(* Helpers.                                                                *)

KeyOf(o) == IF o \in Domains THEN Cache!TldKey(TldOf[o]) ELSE Cache!RirKey(o)

UsesRdap(o) == o \in ASNs \/ opts.preferRDAP
MayFallBack(o) == o \notin ASNs /\ opts.fallbackWhois

Deliver(c, r) == call' = [call EXCEPT ![c].at = "done", ![c].result = r]
Error(errs) == [NoResult EXCEPT !.source = "error", !.errs = errs]

\* Faulty: an echoed name wins over an availability notice.
RegisteredByName(reply) == reply.named \/ (~ reply.notFound /\ reply.pairs >= 2)

\* determineRegistered, and the end of ParseIPWhois.
Registered(reply) == ~ reply.notFound /\ (reply.named \/ reply.pairs >= 2)

\* Parse: the fields a reply of server s fills.
Parsed(reply, s) ==
  [f \in Fields |-> IF f \in reply.fields \/ (f = "WhoisServer" /\ reply.refer # NoServer)
                    THEN s ELSE NoServer]

FillEmpty(dst, src) == IF dst = NoServer THEN src ELSE dst

\* mergeParsed has no line for WhoisServer and none for Extra.
MergedFields == Fields \ {"WhoisServer", "Extra"}

\* Faulty: the registrar's answer replaces the registry's.
MergeParsedReplacing(dst, src) == dst

MergeParsed(dst, src) ==
  [f \in Fields |-> IF f \in MergedFields THEN FillEmpty(dst[f], src[f]) ELSE dst[f]]

\* The record of a whoisQuery or whoisQueryIP whose server answered.
WhoisRecord(c, found, parsed) ==
  [NoResult EXCEPT !.source = "whois", !.found = found, !.server = call[c].server,
                   !.raw = call[c].server, !.parsed = parsed]

\* A registrar may not know a domain that the registry does.
HonestReplies(o) ==
  {r \in WhoisReplies : /\ r.says = "registered" => o \in Existing
                        /\ r.says = "free" => o \notin Existing}

-----------------------------------------------------------------------------
(* The call and its RDAP half.                                             *)

Query(c) ==
  /\ call[c].at = "idle"
  /\ \E o \in Objects \cup {Malformed} :
       call' = [call EXCEPT ![c] = [NoCall EXCEPT !.at = "start", !.obj = o]]
  /\ UNCHANGED <<opts, fetch, cacheVars>>

\* normalizeDomain or ParseAddr refuses the input.
Reject(c) ==
  /\ call[c].at = "start" /\ call[c].obj = Malformed
  /\ Deliver(c, Error({"input"}))
  /\ UNCHANGED <<opts, fetch, cacheVars>>

StartRdap(c) ==
  /\ call[c].at = "start" /\ call[c].obj # Malformed /\ UsesRdap(call[c].obj)
  /\ Rdap!Fetch(c, call[c].obj)
  /\ call' = [call EXCEPT ![c].at = "rdap"]
  /\ UNCHANGED <<opts, cacheVars>>

StartWhois(c) ==
  /\ call[c].at = "start" /\ call[c].obj # Malformed /\ ~ UsesRdap(call[c].obj)
  /\ Cache!Resolve(c, KeyOf(call[c].obj))
  /\ call' = [call EXCEPT ![c].at = "resolve"]
  /\ UNCHANGED <<opts, fetch>>

RdapStep(c) ==
  /\ call[c].at = "rdap"
  /\ Rdap!FetchStep(c)
  /\ UNCHANGED <<opts, call, cacheVars>>

RdapReturns(c) == call[c].at = "rdap" /\ Rdap!Release(c)

\* A 200 or a 404 of the authority is the answer: WHOIS is not consulted.
RdapAnswers(c) ==
  /\ RdapReturns(c) /\ fetch[c].outcome \in {"found", "notFound"}
  /\ Deliver(c, [NoResult EXCEPT !.source = "rdap", !.found = (fetch[c].outcome = "found"),
                                 !.server = fetch[c].url, !.raw = fetch[c].url])
  /\ UNCHANGED <<opts, cacheVars>>

\* Faulty: a request that failed is taken up again where it stopped.
RdapFailsRetrying(c) ==
  /\ call[c].at = "rdap" /\ fetch[c].at = "done" /\ fetch[c].outcome = "failed"
  /\ fetch' = [fetch EXCEPT ![c].at = "loop", ![c].outcome = "none"]
  /\ UNCHANGED <<opts, call, cacheVars>>

RdapFails(c) ==
  /\ RdapReturns(c) /\ fetch[c].outcome \in {"NoRDAP", "failed"}
  /\ ~ MayFallBack(call[c].obj)
  /\ Deliver(c, Error({IF fetch[c].outcome = "NoRDAP" THEN "NoRDAP" ELSE "rdap"}))
  /\ UNCHANGED <<opts, cacheVars>>

\* Faulty: the RDAP error is dropped, for a domain too.
FallBackForgetting(c) ==
  /\ RdapReturns(c) /\ fetch[c].outcome \in {"NoRDAP", "failed"}
  /\ MayFallBack(call[c].obj)
  /\ Cache!Resolve(c, KeyOf(call[c].obj))
  /\ call' = [call EXCEPT ![c].at = "resolve"]
  /\ UNCHANGED opts

\* Only QueryContext remembers the error (rdapErr).
FallBack(c) ==
  /\ RdapReturns(c) /\ fetch[c].outcome \in {"NoRDAP", "failed"}
  /\ MayFallBack(call[c].obj)
  /\ Cache!Resolve(c, KeyOf(call[c].obj))
  /\ call' = [call EXCEPT ![c].at = "resolve",
                          ![c].rdapErr = IF call[c].obj \in Domains THEN fetch[c].outcome ELSE @]
  /\ UNCHANGED opts

-----------------------------------------------------------------------------
(* The WHOIS half.                                                         *)

\* Faulty: rdapErr is reported whether there is one or not.
WhoisFailsWithAny(c, err) == Deliver(c, Error({err, call[c].rdapErr}))

\* QueryContext reports an RDAP failure with it, unless it was ErrNoRDAP.
WhoisFails(c, err) ==
  Deliver(c, Error({err} \cup IF call[c].rdapErr = "failed" THEN {"rdap"} ELSE {}))

ResolveStep(c) ==
  /\ call[c].at = "resolve"
  /\ Cache!CacheStep(c)
  /\ UNCHANGED <<opts, call, fetch>>

ResolveFails(c) ==
  /\ call[c].at = "resolve" /\ Cache!Resolved(c) /\ resolving[c].err # "none"
  /\ WhoisFails(c, IF resolving[c].err = "iana" THEN "whois" ELSE "NoWhoisServer")
  /\ UNCHANGED <<opts, fetch>>

\* Faulty: the server passes through a field that all the calls share.
ResolveAnswersShared(c) ==
  /\ call[c].at = "resolve" /\ Cache!Resolved(c) /\ resolving[c].err = "none"
  /\ \E d \in Callers :
       /\ resolving[d].at = "done" /\ resolving[d].err = "none"
       /\ call' = [call EXCEPT ![c].at = "exchange", ![c].server = resolving[d].server]
  /\ UNCHANGED <<opts, fetch>>

ResolveAnswers(c) ==
  /\ call[c].at = "resolve" /\ Cache!Resolved(c) /\ resolving[c].err = "none"
  /\ call' = [call EXCEPT ![c].at = "exchange", ![c].server = resolving[c].server]
  /\ UNCHANGED <<opts, fetch>>

\* Faulty: the entry of a server that does not answer is deleted.
ExchangeFailsEvicting(c) ==
  /\ call[c].at = "exchange"
  /\ WhoisFails(c, "whois")
  /\ serverCache' = [serverCache EXCEPT ![KeyOf(call[c].obj)] = NoServer]
  /\ UNCHANGED <<opts, fetch, resolving, discovered>>

\* queryServer fails, or what it read is blank.
ExchangeFails(c) ==
  /\ call[c].at = "exchange"
  /\ WhoisFails(c, "whois")
  /\ UNCHANGED <<opts, fetch, cacheVars>>

\* The reply names a registrar's server that is worth asking as well.
Refers(c, reply) ==
  /\ call[c].obj \in Domains /\ Registered(reply) /\ opts.followReferral
  /\ reply.refer # NoServer
  /\ reply.schemed \/ reply.refer # call[c].server

ExchangeAnswers(c) ==
  /\ call[c].at = "exchange"
  /\ \E reply \in HonestReplies(call[c].obj) :
       /\ ~ reply.blank
       /\ LET parsed == Parsed(reply, call[c].server)
          IN IF Refers(c, reply)
             THEN call' = [call EXCEPT ![c].at = "referral", ![c].refer = reply.refer,
                                       ![c].parsed = parsed]
             ELSE Deliver(c, WhoisRecord(c, Registered(reply), parsed))
  /\ UNCHANGED <<opts, fetch, cacheVars>>

\* Faulty: when the referral fails the registry is asked again.
ReferralDroppedRetrying(c) ==
  /\ call[c].at = "referral"
  /\ call' = [call EXCEPT ![c].at = "exchange"]
  /\ UNCHANGED <<opts, fetch, cacheVars>>

\* A referral that fails, or whose text says not registered, is dropped.
ReferralDropped(c) ==
  /\ call[c].at = "referral"
  /\ Deliver(c, WhoisRecord(c, TRUE, call[c].parsed))
  /\ UNCHANGED <<opts, fetch, cacheVars>>

\* The registrar's text becomes the record's, the registry's fills its gaps.
ReferralMerged(c) ==
  /\ call[c].at = "referral"
  /\ \E reply \in WhoisReplies :
       /\ Registered(reply)
       /\ Deliver(c, [WhoisRecord(c, TRUE, MergeParsed(Parsed(reply, call[c].refer), call[c].parsed))
                        EXCEPT !.raw = call[c].refer, !.registryRaw = call[c].server])
  /\ UNCHANGED <<opts, fetch, cacheVars>>

Return(c) ==
  /\ call[c].at = "done"
  /\ call' = [call EXCEPT ![c] = NoCall]
  /\ UNCHANGED <<opts, fetch, cacheVars>>

-----------------------------------------------------------------------------
CallStep(c) ==
  \/ Reject(c) \/ StartRdap(c) \/ StartWhois(c)
  \/ RdapStep(c) \/ RdapAnswers(c) \/ RdapFails(c) \/ FallBack(c)
  \/ ResolveStep(c) \/ ResolveFails(c) \/ ResolveAnswers(c)
  \/ ExchangeFails(c) \/ ExchangeAnswers(c) \/ ReferralDropped(c) \/ ReferralMerged(c)

Next ==
  /\ Rdap!Running
  /\ \E c \in Callers : Query(c) \/ CallStep(c) \/ Return(c)

\* A call goes on: every network operation ends, in an answer or in an error
\* (the HTTP client's timeout, the dial timeout and the deadline of port 43).
Fairness == \A c \in Callers : WF_vars(Rdap!Running /\ CallStep(c))

Spec == Init /\ [][Next]_vars /\ Fairness

-----------------------------------------------------------------------------
Hosts == Sites \cup Servers \cup {NoServer}
Infos == [Fields -> Servers \cup {NoServer}]
Errors == {"input", "NoRDAP", "rdap", "whois", "NoWhoisServer"}

Results ==
  [source : {"none", "rdap", "whois", "error"}, found : BOOLEAN, server : Hosts, raw : Hosts,
   registryRaw : Hosts, parsed : Infos, errs : SUBSET Errors]

CallType ==
  [at : {"idle", "start", "rdap", "resolve", "exchange", "referral", "done"},
   obj : Objects \cup {NoObject, Malformed}, rdapErr : {"none", "NoRDAP", "failed"},
   server : Servers \cup {NoServer}, parsed : Infos, refer : Servers \cup {NoServer},
   result : Results]

TypeOK ==
  /\ opts \in Options
  /\ call \in [Callers -> CallType]
  /\ Rdap!FetchTypeOK
  /\ Cache!CacheTypeOK

(***************************************************************************)
(* The Client implements LookupPromise.                                    *)
(***************************************************************************)
Told(r) ==
  CASE r.source = "none" -> "none"
    [] r.source = "error" -> "error"
    [] OTHER -> IF r.found THEN "registered" ELSE "available"

Promise == INSTANCE LookupPromise WITH
  asked <- [c \in Callers |-> call[c].obj],
  answer <- [c \in Callers |-> Told(call[c].result)]

\* A call is answered once, with an error or with the truth about its own
\* object, however the calls interleave (Client: "safe for concurrent use").
AnswersTruly == Promise!PromiseInit /\ [][Promise!PromiseNext]_(Promise!promiseVars)

\* Every call is answered, through whatever sequence of protocols.
AnswersEventually == Promise!PromiseFairness

\* The replies' authors and the parser mean the same: what reads as
\* registered says so, and what is not blank and does not says free.
Legible ==
  \A reply \in WhoisReplies :
    /\ Registered(reply) => reply.says = "registered"
    /\ ~ reply.blank /\ ~ Registered(reply) => reply.says = "free"

\* A call's record comes from the server that its own object leads to: the
\* pinned, listed or referred server of the domain's TLD, or the address's
\* registry, whatever the other callers have looked up through the cache.
AskedOwnServer ==
  \A c \in Callers :
    call[c].at \in {"exchange", "referral"} \/ call[c].result.source = "whois" =>
      call[c].server \in Cache!Rightful(KeyOf(call[c].obj))

\* What RdapQuery promises of its fetches is kept by the fetches of a Client:
\* registered, available and ErrNoRDAP are said only of objects they are true
\* of, whatever chain of redirects was followed (rdapGet's "the first hop
\* tells us") ...
Truthful == Rdap!Truthful

\* ... a record never comes from the redirector that was asked first
\* (Record.Server: the server that produced the answer) ...
AnsweredByAuthority == Rdap!AnsweredByAuthority

\* ... and every fetch ends, even among authorities that redirect to each
\* other forever, unless a panic ends them all (rdapGet's five requests).
FetchEnds == Rdap!FetchEnds

\* An error accounts for the protocols that were tried.  ErrNoRDAP is never
\* returned where a fall-back is enabled; when a domain's error blames WHOIS
\* alone though RDAP came first, the TLD really has no RDAP service.  The
\* error of an address blames RDAP only where there is no fall-back: QueryIP
\* drops it otherwise.
Accounted(o, errs) ==
  /\ "NoRDAP" \in errs => ~ MayFallBack(o) /\ o \notin Deployed
  /\ "rdap" \in errs => UsesRdap(o) /\ (o \in Domains \/ ~ MayFallBack(o))
  /\ "NoWhoisServer" \in errs =>
       Cache!Override(KeyOf(o)) = NoServer /\ Cache!TableEntry(KeyOf(o)) = NoServer
  /\ /\ errs \cap {"whois", "NoWhoisServer"} # {}
     /\ o \in Domains /\ opts.preferRDAP /\ o \in Deployed
     => "rdap" \in errs

ErrorsAccount == \A c \in Callers : Accounted(call[c].obj, call[c].result.errs)

\* Following a referral only adds.  A record that was not merged is one of
\* the server that was asked, and when a referral was followed in vain it is
\* the registry's as it was, WhoisServer included; ...
Unmerged(k, r) ==
  /\ r.raw = k.server /\ r.registryRaw = NoServer
  /\ \A f \in Fields : r.parsed[f] \in {k.server, NoServer}
  /\ k.refer # NoServer => r.found /\ r.parsed = k.parsed

\* ... in a merged one a field that the registrar does not state is the
\* registry's, or empty if it is one of the two that mergeParsed, against its
\* comment, leaves out (whois.go:134); Raw and RegistryRaw are their texts.
Merged(k, r) ==
  /\ k.refer # NoServer /\ r.found
  /\ r.raw = k.refer /\ r.registryRaw = k.server
  /\ \A f \in Fields :
       \/ r.parsed[f] = k.refer
       \/ r.parsed[f] = IF f \in MergedFields THEN k.parsed[f] ELSE NoServer

OnlyAdds(k, r) == r.source = "whois" => Unmerged(k, r) \/ Merged(k, r)

ReferralOnlyAdds == \A c \in Callers : OnlyAdds(call[c], call[c].result)

\* The composition drives its parts by their own rules, so what RdapQuery and
\* ServerCache guarantee holds of a Client.
ObeysRdapQuery == Rdap!FetchInit /\ [][Rdap!FetchNext]_fetch
ObeysServerCache == Cache!CacheInit /\ [][Cache!CacheNext]_cacheVars

\* Why a call asks its own server: the fetch and the lookup that work for it
\* are its own and of its object, and a server is taken from the lookup only.
CallOK(k, f, r) ==
  /\ k.at = "idle" => k = NoCall
  /\ k.at # "idle" => k.obj \in Objects \cup {Malformed}
  /\ k.at # "done" => k.result = NoResult
  /\ k.at = "done" => k.result.source # "none"
  /\ k.at \in {"rdap", "resolve", "exchange", "referral"} => k.obj \in Objects
  /\ k.at \in {"resolve", "exchange", "referral"} => k.obj \notin ASNs
  /\ k.at = "rdap" => f.at # "idle" /\ f.obj = k.obj
  /\ k.at = "resolve" => r.at # "idle" /\ r.key = KeyOf(k.obj)
  /\ k.at \in {"exchange", "referral"} \/ k.result.source = "whois" =>
       k.server \in Cache!Rightful(KeyOf(k.obj))

ClientInv ==
  /\ Rdap!FetchInv
  /\ Cache!CacheInv
  /\ call \in [Callers -> CallType]
  /\ opts \in Options
  /\ \A c \in Callers : CallOK(call[c], fetch[c], resolving[c])

\* Why a call is answered with the truth: it goes to the registrar's server
\* only when the registry has said "registered", and what it was told is one
\* of the truths about its object.
CallTrue(k) ==
  /\ k.at = "referral" => k.obj \in Existing
  /\ k.at = "done" => Told(k.result) \in Promise!Truths(k.obj)

TrueInv == ClientInv /\ \A c \in Callers : CallTrue(call[c])

\* Why errors account for what was tried: an error of RDAP is remembered only
\* of a domain, and always if RDAP came first; a lookup finds no server only
\* after the overrides and the table.
CallAccounts(k, r) ==
  /\ k.at \in {"idle", "start", "rdap"} => k.rdapErr = "none"
  /\ k.at = "rdap" => UsesRdap(k.obj)
  /\ k.rdapErr # "none" => k.obj \in Domains /\ opts.preferRDAP
  /\ k.rdapErr = "NoRDAP" => k.obj \notin Deployed
  /\ k.at \in {"resolve", "exchange", "referral"} =>
       (k.obj \in Domains /\ opts.preferRDAP => k.rdapErr # "none")
  /\ r.err = "NoWhoisServer" =>
       Cache!Override(r.key) = NoServer /\ Cache!TableEntry(r.key) = NoServer
  /\ Accounted(k.obj, k.result.errs)

AccountInv == ClientInv /\ \A c \in Callers : CallAccounts(call[c], resolving[c])

\* Why a referral only adds: what is kept for the merge is the registry's.
CallAdds(k) ==
  /\ k.at \notin {"referral", "done"} => k.parsed = NoInfo /\ k.refer = NoServer
  /\ k.at = "referral" =>
       k.refer # NoServer /\ \A f \in Fields : k.parsed[f] \in {k.server, NoServer}
  /\ OnlyAdds(k, k.result)

AddsInv == ClientInv /\ \A c \in Callers : CallAdds(call[c])

(***************************************************************************)
(* What the documentation says and the code does not do.                   *)
(***************************************************************************)

\* README.md, "Availability detection": throttled answers are reported as
\* errors, never as "available".
RefusalsAreErrors ==
  \A c \in Callers :
    Told(call[c].result) = "available" => call[c].obj \notin Existing

\* types.go, Record.Server: the server that produced the final answer, and
\* Record.Raw is that answer.
ServerProducedAnswer ==
  \A c \in Callers : call[c].result.server = call[c].result.raw
=============================================================================
