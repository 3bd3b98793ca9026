---------------------------- MODULE ClientProofs ----------------------------
(***************************************************************************)
(* What holds of a Client for any number of goroutines, objects, servers   *)
(* and options: it drives its components by their rules, so their          *)
(* invariants are its own; a call asks its own object's server, its errors *)
(* account for what was tried, and a referral only adds; and, provided     *)
(* that port-43 replies are legible, it implements the safety of           *)
(* LookupPromise.                                                          *)
(***************************************************************************)
EXTENDS Client, TLAPS

RdapProofs == INSTANCE RdapQueryProofs
CacheProofs == INSTANCE ServerCacheProofs

(***************************************************************************)
(* The lemmas about the components, carried over: the two instances of a   *)
(* component are the same formulas.                                        *)
(***************************************************************************)
LEMMA FetchInitInv == Rdap!FetchInit => Rdap!FetchInv
<1>1. RdapProofs!FetchAssumption
  BY ComponentsAssumption DEF Rdap!FetchAssumption, RdapProofs!FetchAssumption
<1>2. Rdap!FetchInit <=> RdapProofs!FetchInit
  BY DEF Rdap!FetchInit, RdapProofs!FetchInit, Rdap!NotFetching, RdapProofs!NotFetching
<1>3. Rdap!FetchInv <=> RdapProofs!FetchInv
  BY DEF Rdap!Outcomes, RdapProofs!Outcomes, Rdap!IsRedirect, RdapProofs!IsRedirect,
      Rdap!Reply, RdapProofs!Reply, Rdap!Responses, RdapProofs!Responses,
      Rdap!FetchTypeOK, RdapProofs!FetchTypeOK, Rdap!TruthfulOutcome,
      RdapProofs!TruthfulOutcome, Rdap!AuthorityOutcome, RdapProofs!AuthorityOutcome,
      Rdap!Coherent, RdapProofs!Coherent, Rdap!FetchInv, RdapProofs!FetchInv
<1>4. QED
  BY <1>1, <1>2, <1>3, RdapProofs!FetchInitInv

LEMMA FetchStepInv == Rdap!FetchInv /\ [Rdap!FetchNext]_fetch => Rdap!FetchInv'
<1>1. RdapProofs!FetchAssumption
  BY ComponentsAssumption DEF Rdap!FetchAssumption, RdapProofs!FetchAssumption
<1>2. Rdap!FetchNext <=> RdapProofs!FetchNext
  BY DEF Rdap!NotFetching, RdapProofs!NotFetching, Rdap!IsRedirect, RdapProofs!IsRedirect,
      Rdap!Reply, RdapProofs!Reply, Rdap!Responses, RdapProofs!Responses, Rdap!Fetch,
      RdapProofs!Fetch, Rdap!Finish, RdapProofs!Finish, Rdap!Requesting,
      RdapProofs!Requesting, Rdap!RequestFails, RdapProofs!RequestFails,
      Rdap!FollowRedirect, RdapProofs!FollowRedirect, Rdap!RefuseRedirect,
      RdapProofs!RefuseRedirect, Rdap!TakeResponse, RdapProofs!TakeResponse,
      Rdap!TooManyRedirects, RdapProofs!TooManyRedirects, Rdap!ReadFails,
      RdapProofs!ReadFails, Rdap!GetError, RdapProofs!GetError, Rdap!Verdict,
      RdapProofs!Verdict, Rdap!Fatal, RdapProofs!Fatal, Rdap!ReadBody,
      RdapProofs!ReadBody, Rdap!Panic, RdapProofs!Panic, Rdap!Release,
      RdapProofs!Release, Rdap!Running, RdapProofs!Running, Rdap!FetchStep,
      RdapProofs!FetchStep, Rdap!FetchNext, RdapProofs!FetchNext
<1>3. Rdap!FetchInv <=> RdapProofs!FetchInv
  BY DEF Rdap!Outcomes, RdapProofs!Outcomes, Rdap!IsRedirect, RdapProofs!IsRedirect,
      Rdap!Reply, RdapProofs!Reply, Rdap!Responses, RdapProofs!Responses,
      Rdap!FetchTypeOK, RdapProofs!FetchTypeOK, Rdap!TruthfulOutcome,
      RdapProofs!TruthfulOutcome, Rdap!AuthorityOutcome, RdapProofs!AuthorityOutcome,
      Rdap!Coherent, RdapProofs!Coherent, Rdap!FetchInv, RdapProofs!FetchInv
<1>4. Rdap!FetchInv' <=> RdapProofs!FetchInv'
  BY DEF Rdap!Outcomes, RdapProofs!Outcomes, Rdap!IsRedirect, RdapProofs!IsRedirect,
      Rdap!Reply, RdapProofs!Reply, Rdap!Responses, RdapProofs!Responses,
      Rdap!FetchTypeOK, RdapProofs!FetchTypeOK, Rdap!TruthfulOutcome,
      RdapProofs!TruthfulOutcome, Rdap!AuthorityOutcome, RdapProofs!AuthorityOutcome,
      Rdap!Coherent, RdapProofs!Coherent, Rdap!FetchInv, RdapProofs!FetchInv
<1>5. QED
  BY <1>1, <1>2, <1>3, <1>4, RdapProofs!FetchStepInv

LEMMA CacheInitInv == Cache!CacheInit => Cache!CacheInv
<1>1. CacheProofs!CacheAssumption
  BY ComponentsAssumption
  DEF Cache!CacheAssumption, CacheProofs!CacheAssumption, Cache!Keys, CacheProofs!Keys,
      Cache!TldKey, CacheProofs!TldKey, Cache!RirKey, CacheProofs!RirKey
<1>2. Cache!CacheInit <=> CacheProofs!CacheInit
  BY DEF Cache!CacheInit, CacheProofs!CacheInit, Cache!NotResolving, CacheProofs!NotResolving,
      Cache!Keys, CacheProofs!Keys, Cache!TldKey, CacheProofs!TldKey, Cache!RirKey,
      CacheProofs!RirKey
<1>3. Cache!CacheInv <=> CacheProofs!CacheInv
  BY DEF Cache!TldKey, CacheProofs!TldKey, Cache!RirKey, CacheProofs!RirKey, Cache!Keys,
      CacheProofs!Keys, Cache!Override, CacheProofs!Override, Cache!TableEntry,
      CacheProofs!TableEntry, Cache!CacheTypeOK, CacheProofs!CacheTypeOK,
      Cache!Rightful, CacheProofs!Rightful, Cache!OwnServer, CacheProofs!OwnServer,
      Cache!Discovery, CacheProofs!Discovery, Cache!Underway, CacheProofs!Underway,
      Cache!CacheInv, CacheProofs!CacheInv
<1>4. QED
  BY <1>1, <1>2, <1>3, CacheProofs!CacheInitInv

LEMMA CacheStepInv == Cache!CacheInv /\ [Cache!CacheNext]_cacheVars => Cache!CacheInv'
<1>1. CacheProofs!CacheAssumption
  BY ComponentsAssumption
  DEF Cache!CacheAssumption, CacheProofs!CacheAssumption, Cache!Keys, CacheProofs!Keys,
      Cache!TldKey, CacheProofs!TldKey, Cache!RirKey, CacheProofs!RirKey
<1>2. Cache!CacheNext <=> CacheProofs!CacheNext
  BY DEF Cache!TldKey, CacheProofs!TldKey, Cache!RirKey, CacheProofs!RirKey, Cache!Keys,
      CacheProofs!Keys, Cache!NotResolving, CacheProofs!NotResolving, Cache!Override,
      CacheProofs!Override, Cache!TableEntry, CacheProofs!TableEntry, Cache!Done,
      CacheProofs!Done, Cache!Resolve, CacheProofs!Resolve, Cache!LoadHit,
      CacheProofs!LoadHit, Cache!LoadMiss, CacheProofs!LoadMiss, Cache!StoreTable,
      CacheProofs!StoreTable, Cache!AskingIana, CacheProofs!AskingIana, Cache!IanaFails,
      CacheProofs!IanaFails, Cache!IanaSilent, CacheProofs!IanaSilent, Cache!IanaRefers,
      CacheProofs!IanaRefers, Cache!StoreReferral, CacheProofs!StoreReferral,
      Cache!Resolved, CacheProofs!Resolved, Cache!CacheStep, CacheProofs!CacheStep,
      Cache!CacheNext, CacheProofs!CacheNext
<1>3. Cache!CacheInv <=> CacheProofs!CacheInv
  BY DEF Cache!TldKey, CacheProofs!TldKey, Cache!RirKey, CacheProofs!RirKey, Cache!Keys,
      CacheProofs!Keys, Cache!Override, CacheProofs!Override, Cache!TableEntry,
      CacheProofs!TableEntry, Cache!CacheTypeOK, CacheProofs!CacheTypeOK,
      Cache!Rightful, CacheProofs!Rightful, Cache!OwnServer, CacheProofs!OwnServer,
      Cache!Discovery, CacheProofs!Discovery, Cache!Underway, CacheProofs!Underway,
      Cache!CacheInv, CacheProofs!CacheInv
<1>4. Cache!CacheInv' <=> CacheProofs!CacheInv'
  BY DEF Cache!TldKey, CacheProofs!TldKey, Cache!RirKey, CacheProofs!RirKey, Cache!Keys,
      CacheProofs!Keys, Cache!Override, CacheProofs!Override, Cache!TableEntry,
      CacheProofs!TableEntry, Cache!CacheTypeOK, CacheProofs!CacheTypeOK,
      Cache!Rightful, CacheProofs!Rightful, Cache!OwnServer, CacheProofs!OwnServer,
      Cache!Discovery, CacheProofs!Discovery, Cache!Underway, CacheProofs!Underway,
      Cache!CacheInv, CacheProofs!CacheInv
<1>5. (UNCHANGED cacheVars) <=> UNCHANGED CacheProofs!cacheVars
  BY DEF cacheVars, CacheProofs!cacheVars
<1>6. QED
  BY <1>1, <1>2, <1>3, <1>4, <1>5, CacheProofs!CacheStepInv

(***************************************************************************)
(* What a step of a component does to the caller it works for.             *)
(***************************************************************************)
Others(c) == \A d \in Callers : d # c => fetch'[d] = fetch[d] /\ resolving'[d] = resolving[d]

LEMMA FetchShape ==
  ASSUME Rdap!FetchInv
  PROVE  \A c \in Callers :
           /\ fetch[c].obj \in Objects /\ fetch[c].url \in Sites
           /\ fetch[c].outcome \in {"none", "found", "notFound", "NoRDAP", "failed"}
           /\ fetch[c].outcome = "found" => fetch[c].obj \in Existing
           /\ fetch[c].outcome = "notFound" => fetch[c].obj \notin Existing
           /\ fetch[c].outcome = "NoRDAP" => fetch[c].obj \notin Deployed
<1>1. \A c \in Callers : Rdap!TruthfulOutcome(fetch[c])
  BY DEF Rdap!FetchInv, Rdap!Coherent
<1>2. \A c \in Callers : fetch[c].obj \in Objects /\ fetch[c].url \in Sites
                        /\ fetch[c].outcome \in {"none", "found", "notFound", "NoRDAP", "failed"}
  BY ZenonT(40) DEF Rdap!FetchInv, Rdap!FetchTypeOK, Rdap!Outcomes
<1>3. QED
  BY <1>1, <1>2 DEF Rdap!TruthfulOutcome

LEMMA FetchStepOwn ==
  ASSUME Rdap!FetchInv, NEW c \in Callers, Rdap!FetchStep(c)
  PROVE  /\ fetch'[c].obj = fetch[c].obj /\ fetch'[c].at # "idle"
         /\ \A d \in Callers : d # c => fetch'[d] = fetch[d]
<1>1. fetch \in [Callers -> [at : {"idle", "loop", "body", "done", "panicked"}, obj : Objects,
                             url : Sites, i : 0..MaxRequests, redirected : BOOLEAN,
                             status : 0..599, outcome : Rdap!Outcomes]]
  BY DEF Rdap!FetchInv, Rdap!FetchTypeOK
<1>2. ASSUME NEW o, Rdap!Finish(c, o)
      PROVE  /\ fetch'[c].obj = fetch[c].obj /\ fetch'[c].at # "idle"
             /\ \A d \in Callers : d # c => fetch'[d] = fetch[d]
  BY <1>1, <1>2 DEF Rdap!Finish
<1>3. CASE Rdap!RequestFails(c) \/ Rdap!RefuseRedirect(c) \/ Rdap!TooManyRedirects(c)
           \/ Rdap!ReadFails(c) \/ Rdap!ReadBody(c)
  BY <1>2, <1>3 DEF Rdap!RequestFails, Rdap!RefuseRedirect, Rdap!TooManyRedirects,
                    Rdap!ReadFails, Rdap!ReadBody
<1>4. CASE Rdap!FollowRedirect(c)
  <2>1. fetch[c].at = "loop"
    BY <1>4 DEF Rdap!FollowRedirect, Rdap!Requesting
  <2>2. PICK r : fetch' = [fetch EXCEPT ![c].url = r.loc, ![c].redirected = TRUE, ![c].i = @ + 1]
    BY <1>4 DEF Rdap!FollowRedirect
  <2>3. QED
    BY <1>1, <2>1, <2>2
<1>5. CASE Rdap!TakeResponse(c) \/ Rdap!Panic(c)
  BY <1>1, <1>5 DEF Rdap!TakeResponse, Rdap!Panic
<1>6. QED
  BY <1>3, <1>4, <1>5 DEF Rdap!FetchStep

LEMMA FetchOwn ==
  ASSUME Rdap!FetchInv, NEW c \in Callers, NEW o \in Objects, Rdap!Fetch(c, o)
  PROVE  /\ fetch'[c].obj = o /\ fetch'[c].at # "idle"
         /\ \A d \in Callers : d # c => fetch'[d] = fetch[d]
<1>1. fetch' = [fetch EXCEPT ![c] = [Rdap!NotFetching EXCEPT !.at = "loop", !.obj = o]]
      /\ DOMAIN fetch = Callers
  BY DEF Rdap!Fetch, Rdap!FetchInv, Rdap!FetchTypeOK
<1>2. fetch'[c] = [Rdap!NotFetching EXCEPT !.at = "loop", !.obj = o]
  BY <1>1
<1>3. fetch'[c].obj = o /\ fetch'[c].at = "loop"
  BY <1>2 DEF Rdap!NotFetching
<1>4. QED
  BY <1>1, <1>3

LEMMA CacheShape ==
  ASSUME Cache!CacheInv
  PROVE  \A c \in Callers :
           /\ resolving[c].server \in Servers \cup {NoServer}
           /\ resolving[c].err \in {"none", "iana", "NoWhoisServer"}
           /\ resolving[c].at = "done" /\ resolving[c].err = "none" =>
                resolving[c].server \in Cache!Rightful(resolving[c].key)
  BY DEF Cache!CacheInv, Cache!CacheTypeOK, Cache!OwnServer

LEMMA CacheStepOwn ==
  ASSUME Cache!CacheInv, NEW c \in Callers, Cache!CacheStep(c)
  PROVE  /\ resolving'[c].key = resolving[c].key /\ resolving'[c].at # "idle"
         /\ \A d \in Callers : d # c => resolving'[d] = resolving[d]
<1>1. resolving \in [Callers -> [at : {"idle", "load", "missed", "referred", "done"},
                                 key : Cache!Keys, server : Servers \cup {NoServer},
                                 err : {"none", "iana", "NoWhoisServer"}]]
  BY DEF Cache!CacheInv, Cache!CacheTypeOK
<1>2. CASE Cache!LoadHit(c) \/ Cache!StoreTable(c) \/ Cache!IanaFails(c) \/ Cache!IanaSilent(c)
  BY <1>1, <1>2 DEF Cache!LoadHit, Cache!StoreTable, Cache!IanaFails, Cache!IanaSilent, Cache!Done
<1>3. CASE Cache!LoadMiss(c) \/ Cache!IanaRefers(c) \/ Cache!StoreReferral(c)
  BY <1>1, <1>3 DEF Cache!LoadMiss, Cache!IanaRefers, Cache!StoreReferral
<1>4. QED
  BY <1>2, <1>3 DEF Cache!CacheStep

LEMMA ResolveOwn ==
  ASSUME Cache!CacheInv, NEW c \in Callers, NEW k, Cache!Resolve(c, k)
  PROVE  /\ resolving'[c].key = k /\ resolving'[c].at # "idle"
         /\ \A d \in Callers : d # c => resolving'[d] = resolving[d]
<1>1. DOMAIN resolving = Callers
  BY DEF Cache!CacheInv, Cache!CacheTypeOK
<1> DEFINE r == IF Cache!Override(k) # NoServer
                THEN [Cache!NotResolving EXCEPT !.at = "done", !.key = k, !.server = Cache!Override(k)]
                ELSE [Cache!NotResolving EXCEPT !.at = "load", !.key = k]
<1>2. resolving' = [resolving EXCEPT ![c] = r]
  BY DEF Cache!Resolve
<1>3. r.key = k /\ r.at # "idle"
  BY DEF Cache!NotResolving
<1> HIDE DEF r
<1>4. QED
  BY <1>1, <1>2, <1>3

\* A domain's TLD and an address are keys of the cache.
LEMMA KeyOfKeys ==
  ASSUME NEW o \in Objects, o \notin ASNs
  PROVE  KeyOf(o) \in Cache!Keys
<1>1. CASE o \in Domains
  BY <1>1, ClientAssumption DEF KeyOf, Cache!Keys
<1>2. CASE o \notin Domains
  BY <1>2 DEF KeyOf, Cache!Keys, Objects
<1>3. QED
  BY <1>1, <1>2

(***************************************************************************)
(* Every step of a Client is a step of each component, or leaves it alone. *)
(***************************************************************************)
LEMMA StepObeysRdap ==
  ASSUME ClientInv, [Next]_vars
  PROVE  [Rdap!FetchNext]_fetch
<1>1. CASE UNCHANGED fetch
  BY <1>1
<1>2. ASSUME NEW c \in Callers, Rdap!Running,
             Rdap!FetchStep(c) \/ Rdap!Release(c) \/ \E o \in Objects : Rdap!Fetch(c, o)
      PROVE  Rdap!FetchNext
  BY <1>2 DEF Rdap!FetchNext
<1>3. ASSUME NEW c \in Callers, Rdap!Running, StartRdap(c) PROVE Rdap!FetchNext
  <2>1. call[c].obj \in Objects
    BY <1>3 DEF StartRdap, ClientInv, CallOK
  <2>2. QED
    BY <1>2, <1>3, <2>1 DEF StartRdap
<1>4. ASSUME NEW c \in Callers, Rdap!Running,
             RdapStep(c) \/ RdapAnswers(c) \/ RdapFails(c) \/ FallBack(c)
      PROVE  Rdap!FetchNext
  BY <1>2, <1>4 DEF RdapStep, RdapAnswers, RdapFails, FallBack, RdapReturns
<1>5. ASSUME NEW c \in Callers,
             \/ Query(c) \/ Return(c) \/ Reject(c) \/ StartWhois(c) \/ ResolveStep(c)
             \/ ResolveFails(c) \/ ResolveAnswers(c) \/ ExchangeFails(c) \/ ExchangeAnswers(c)
             \/ ReferralDropped(c) \/ ReferralMerged(c)
      PROVE  UNCHANGED fetch
  BY <1>5 DEF Query, Return, Reject, StartWhois, ResolveStep, ResolveFails, ResolveAnswers,
              ExchangeFails, ExchangeAnswers, ReferralDropped, ReferralMerged
<1>6. CASE UNCHANGED vars
  BY <1>6 DEF vars
<1>7. QED
  BY <1>1, <1>3, <1>4, <1>5, <1>6 DEF Next, CallStep

LEMMA StepObeysCache ==
  ASSUME ClientInv, [Next]_vars
  PROVE  [Cache!CacheNext]_cacheVars
<1>1. ASSUME NEW c \in Callers,
             Cache!CacheStep(c) \/ Cache!Resolved(c) \/ \E k \in Cache!Keys : Cache!Resolve(c, k)
      PROVE  Cache!CacheNext
  BY <1>1 DEF Cache!CacheNext
<1>2. ASSUME NEW c \in Callers, StartWhois(c) PROVE Cache!CacheNext
  <2>1. call[c].obj \in Objects /\ call[c].obj \notin ASNs
    BY <1>2 DEF StartWhois, UsesRdap, ClientInv, CallOK
  <2>2. QED
    BY <1>1, <1>2, <2>1, KeyOfKeys DEF StartWhois
<1>3. ASSUME NEW c \in Callers, FallBack(c) PROVE Cache!CacheNext
  <2>1. call[c].obj \in Objects /\ call[c].obj \notin ASNs
    BY <1>3 DEF FallBack, RdapReturns, MayFallBack, ClientInv, CallOK
  <2>2. QED
    BY <1>1, <1>3, <2>1, KeyOfKeys DEF FallBack
<1>4. ASSUME NEW c \in Callers, ResolveStep(c) \/ ResolveFails(c) \/ ResolveAnswers(c)
      PROVE  Cache!CacheNext
  BY <1>1, <1>4 DEF ResolveStep, ResolveFails, ResolveAnswers
<1>5. ASSUME NEW c \in Callers,
             \/ Query(c) \/ Return(c) \/ Reject(c) \/ StartRdap(c) \/ RdapStep(c)
             \/ RdapAnswers(c) \/ RdapFails(c) \/ ExchangeFails(c) \/ ExchangeAnswers(c)
             \/ ReferralDropped(c) \/ ReferralMerged(c)
      PROVE  UNCHANGED cacheVars
  BY <1>5 DEF Query, Return, Reject, StartRdap, RdapStep, RdapAnswers, RdapFails,
              ExchangeFails, ExchangeAnswers, ReferralDropped, ReferralMerged
<1>6. CASE UNCHANGED vars
  BY <1>6 DEF vars, cacheVars
<1>7. QED
  BY <1>2, <1>3, <1>4, <1>5, <1>6 DEF Next, CallStep

(***************************************************************************)
(* The invariant.  A step replaces the locals of one caller; the calls of  *)
(* the others are as they were.                                            *)
(***************************************************************************)
LEMMA NoCallTyped == NoCall \in CallType /\ NoResult \in Results
<1>1. NoInfo \in Infos
  BY DEF NoInfo, Infos
<1>2. NoResult \in Results
  BY <1>1 DEF NoResult, Results, Hosts
<1>3. QED
  BY <1>1, <1>2 DEF NoCall, CallType

LEMMA InitInv == Init => ClientInv
<1>1. SUFFICES ASSUME Init PROVE ClientInv
  OBVIOUS
<1>2. Rdap!FetchInv /\ Cache!CacheInv /\ opts \in Options
  BY <1>1, FetchInitInv, CacheInitInv DEF Init
<1>3. call = [c \in Callers |-> NoCall]
  BY <1>1 DEF Init
<1>4. call \in [Callers -> CallType]
  BY <1>3, NoCallTyped
<1>5. ASSUME NEW c \in Callers PROVE CallOK(call[c], fetch[c], resolving[c])
  BY <1>3 DEF CallOK, NoCall, NoResult
<1>6. QED
  BY <1>2, <1>4, <1>5 DEF ClientInv

LEMMA CallerStep ==
  ASSUME ClientInv, Rdap!FetchInv', Cache!CacheInv', UNCHANGED opts,
         NEW c \in Callers, NEW k \in CallType, call' = [call EXCEPT ![c] = k],
         Others(c), CallOK(k, fetch'[c], resolving'[c])
  PROVE  ClientInv'
<1>1. call' \in [Callers -> CallType] /\ opts' \in Options
  BY DEF ClientInv
<1>2. ASSUME NEW d \in Callers PROVE CallOK(call'[d], fetch'[d], resolving'[d])
  <2>1. CASE d = c
    BY <2>1 DEF ClientInv
  <2>2. CASE d # c
    <3>1. call'[d] = call[d] /\ fetch'[d] = fetch[d] /\ resolving'[d] = resolving[d]
      BY <2>2 DEF Others
    <3>2. QED
      BY <3>1 DEF ClientInv
  <2>3. QED
    BY <2>1, <2>2
<1>3. QED
  BY <1>1, <1>2 DEF ClientInv

\* A caller that is told the result r, which for WHOIS came from its server.
LEMMA Delivered ==
  ASSUME ClientInv, Rdap!FetchInv', Cache!CacheInv', UNCHANGED opts,
         NEW c \in Callers, NEW r \in Results, Deliver(c, r), Others(c),
         call[c].at # "idle", r.source # "none",
         r.source = "whois" => call[c].server \in Cache!Rightful(KeyOf(call[c].obj))
  PROVE  ClientInv'
<1> DEFINE k == [call[c] EXCEPT !.at = "done", !.result = r]
<1>1. call[c] \in CallType /\ DOMAIN call = Callers /\ call[c].obj \in Objects \cup {Malformed}
  BY DEF ClientInv, CallOK
<1>2. call' = [call EXCEPT ![c] = k]
  BY DEF Deliver
<1>3. k \in CallType
  BY <1>1 DEF CallType
<1>4. /\ k.at = "done" /\ k.result = r /\ k.obj = call[c].obj /\ k.server = call[c].server
  BY <1>1 DEF CallType
<1>5. CallOK(k, fetch'[c], resolving'[c])
  BY <1>1, <1>4 DEF CallOK
<1> HIDE DEF k
<1>6. QED
  BY <1>2, <1>3, <1>5, CallerStep

\* Every step that is not the end of a call: the caller's next locals.
LEMMA ResolvedOwn ==
  ASSUME NEW c \in Callers, Cache!Resolved(c), Cache!CacheInv
  PROVE  \A d \in Callers : d # c => resolving'[d] = resolving[d]
  BY DEF Cache!Resolved, Cache!CacheInv, Cache!CacheTypeOK

LEMMA ReleaseOwn ==
  ASSUME NEW c \in Callers, Rdap!Release(c), Rdap!FetchInv
  PROVE  \A d \in Callers : d # c => fetch'[d] = fetch[d]
  BY DEF Rdap!Release, Rdap!FetchInv, Rdap!FetchTypeOK

\* An error is a result, and the record of a server's answer is one.
LEMMA ErrorTyped ==
  ASSUME NEW errs \in SUBSET Errors
  PROVE  Error(errs) \in Results /\ Error(errs).source = "error"
<1>1. NoInfo \in Infos
  BY DEF NoInfo, Infos
<1>2. QED
  BY <1>1 DEF Error, NoResult, Results, Hosts

LEMMA WhoisRecordTyped ==
  ASSUME ClientInv, NEW c \in Callers, NEW found \in BOOLEAN, NEW p \in Infos
  PROVE  /\ WhoisRecord(c, found, p) \in Results
         /\ WhoisRecord(c, found, p).source = "whois"
         /\ WhoisRecord(c, found, p).found = found
<1>1. call[c].server \in Hosts
  BY DEF ClientInv, CallType, Hosts
<1>2. NoInfo \in Infos
  BY DEF NoInfo, Infos
<1>3. NoServer \in Hosts
  BY DEF Hosts
<1>4. QED
  BY <1>1, <1>2, <1>3 DEF WhoisRecord, NoResult, Results

LEMMA ParsedTyped ==
  ASSUME NEW reply \in WhoisReplies, NEW s \in Servers \cup {NoServer}
  PROVE  Parsed(reply, s) \in Infos
  BY DEF Parsed, Infos

LEMMA MergeTyped ==
  ASSUME NEW p \in Infos, NEW q \in Infos
  PROVE  MergeParsed(p, q) \in Infos
  BY DEF MergeParsed, FillEmpty, Infos

\* WHOIS fails: the call ends with an error.
LEMMA WhoisFailsInv ==
  ASSUME ClientInv, Rdap!FetchInv', Cache!CacheInv', UNCHANGED opts,
         NEW c \in Callers, NEW err \in Errors, WhoisFails(c, err), Others(c),
         call[c].at # "idle"
  PROVE  ClientInv'
<1> DEFINE errs == {err} \cup IF call[c].rdapErr = "failed" THEN {"rdap"} ELSE {}
<1>1. errs \in SUBSET Errors
  BY DEF Errors
<1>2. Deliver(c, Error(errs))
  BY DEF WhoisFails
<1> HIDE DEF errs
<1>3. Error(errs) \in Results /\ Error(errs).source = "error"
  BY <1>1, ErrorTyped
<1>4. QED
  BY <1>2, <1>3, Delivered

(***************************************************************************)
(* One case per action.                                                    *)
(***************************************************************************)
LEMMA StepInv ==
  ASSUME ClientInv, [Next]_vars
  PROVE  ClientInv'
<1>1. Rdap!FetchInv' /\ Cache!CacheInv'
  BY StepObeysRdap, StepObeysCache, FetchStepInv, CacheStepInv DEF ClientInv
<1>2. Rdap!FetchInv /\ Cache!CacheInv
  BY DEF ClientInv
<1>3. \A c \in Callers : call[c] \in CallType /\ CallOK(call[c], fetch[c], resolving[c])
  BY DEF ClientInv
<1>4. DOMAIN call = Callers
  BY DEF ClientInv
<1>5. ASSUME NEW c \in Callers, Query(c) PROVE ClientInv'
  <2>1. PICK o \in Objects \cup {Malformed} :
          call' = [call EXCEPT ![c] = [NoCall EXCEPT !.at = "start", !.obj = o]]
    BY <1>5 DEF Query
  <2> DEFINE k == [NoCall EXCEPT !.at = "start", !.obj = o]
  <2>2. k \in CallType
    BY NoCallTyped DEF CallType
  <2>3. k.at = "start" /\ k.obj = o /\ k.result = NoResult /\ NoResult.source = "none"
    BY DEF NoCall, NoResult
  <2>4. CallOK(k, fetch'[c], resolving'[c])
    BY <2>3 DEF CallOK
  <2>5. UNCHANGED opts /\ Others(c) /\ call' = [call EXCEPT ![c] = k]
    BY <1>5, <2>1 DEF Query, Others, cacheVars
  <2> HIDE DEF k
  <2>6. QED
    BY <1>1, <2>2, <2>4, <2>5, CallerStep
<1>6. ASSUME NEW c \in Callers, Reject(c) PROVE ClientInv'
  <2>1. Error({"input"}) \in Results /\ Error({"input"}).source = "error"
    BY ErrorTyped DEF Errors
  <2>2. UNCHANGED opts /\ Others(c) /\ Deliver(c, Error({"input"})) /\ call[c].at = "start"
    BY <1>6 DEF Reject, Others, cacheVars
  <2>3. QED
    BY <1>1, <2>1, <2>2, Delivered
<1>7. ASSUME NEW c \in Callers, StartRdap(c) PROVE ClientInv'
  <2> DEFINE k == [call[c] EXCEPT !.at = "rdap"]
  <2>1. call[c].obj \in Objects /\ call[c].result = NoResult
    BY <1>3, <1>7 DEF StartRdap, CallOK
  <2>2. fetch'[c].obj = call[c].obj /\ fetch'[c].at # "idle" /\ Others(c)
    BY <1>2, <1>7, <2>1, FetchOwn DEF StartRdap, Others, cacheVars
  <2>3. k \in CallType
    BY <1>3 DEF CallType
  <2>4. k.at = "rdap" /\ k.obj = call[c].obj /\ k.result = NoResult /\ NoResult.source = "none"
    BY <1>3, <2>1 DEF CallType, NoResult
  <2>5. CallOK(k, fetch'[c], resolving'[c])
    BY <2>1, <2>2, <2>4 DEF CallOK
  <2>6. UNCHANGED opts /\ call' = [call EXCEPT ![c] = k]
    BY <1>7 DEF StartRdap
  <2> HIDE DEF k
  <2>7. QED
    BY <1>1, <2>2, <2>3, <2>5, <2>6, CallerStep
<1>8. ASSUME NEW c \in Callers, StartWhois(c) PROVE ClientInv'
  <2> DEFINE k == [call[c] EXCEPT !.at = "resolve"]
  <2>1. call[c].obj \in Objects /\ call[c].obj \notin ASNs /\ call[c].result = NoResult
    BY <1>3, <1>8 DEF StartWhois, UsesRdap, CallOK
  <2>2. resolving'[c].key = KeyOf(call[c].obj) /\ resolving'[c].at # "idle" /\ Others(c)
    BY <1>2, <1>8, ResolveOwn DEF StartWhois, Others
  <2>3. k \in CallType
    BY <1>3 DEF CallType
  <2>4. k.at = "resolve" /\ k.obj = call[c].obj /\ k.result = NoResult /\ NoResult.source = "none"
    BY <1>3, <2>1 DEF CallType, NoResult
  <2>5. CallOK(k, fetch'[c], resolving'[c])
    BY <2>1, <2>2, <2>4 DEF CallOK
  <2>6. UNCHANGED opts /\ call' = [call EXCEPT ![c] = k]
    BY <1>8 DEF StartWhois
  <2> HIDE DEF k
  <2>7. QED
    BY <1>1, <2>2, <2>3, <2>5, <2>6, CallerStep
<1>9. ASSUME NEW c \in Callers, RdapStep(c) \/ ResolveStep(c) PROVE ClientInv'
  <2>1. Others(c) /\ UNCHANGED <<opts, call>>
    BY <1>2, <1>9, FetchStepOwn, CacheStepOwn DEF RdapStep, ResolveStep, Others, cacheVars
  <2>2. CallOK(call[c], fetch'[c], resolving'[c])
    <3>1. CASE RdapStep(c)
      BY <1>2, <1>3, <3>1, FetchStepOwn DEF RdapStep, CallOK, cacheVars
    <3>2. CASE ResolveStep(c)
      BY <1>2, <1>3, <3>2, CacheStepOwn DEF ResolveStep, CallOK
    <3>3. QED
      BY <1>9, <3>1, <3>2
  <2>3. call' = [call EXCEPT ![c] = call[c]]
    BY <1>4, <2>1 DEF ClientInv
  <2>4. QED
    BY <1>1, <1>3, <2>1, <2>2, <2>3, CallerStep
<1>10. ASSUME NEW c \in Callers, RdapAnswers(c) PROVE ClientInv'
  <2> DEFINE r == [NoResult EXCEPT !.source = "rdap", !.found = (fetch[c].outcome = "found"),
                                   !.server = fetch[c].url, !.raw = fetch[c].url]
  <2>1. fetch[c].url \in Hosts
    BY <1>2, FetchShape DEF Hosts
  <2>2. r \in Results
    BY <2>1, NoCallTyped DEF Results
  <2>3. r.source = "rdap"
    BY DEF NoResult
  <2>4. Deliver(c, r) /\ UNCHANGED opts /\ call[c].at = "rdap" /\ Others(c)
    BY <1>2, <1>10, ReleaseOwn DEF RdapAnswers, RdapReturns, Others, cacheVars
  <2> HIDE DEF r
  <2>5. QED
    BY <1>1, <2>2, <2>3, <2>4, Delivered
<1>11. ASSUME NEW c \in Callers, RdapFails(c) PROVE ClientInv'
  <2> DEFINE errs == {IF fetch[c].outcome = "NoRDAP" THEN "NoRDAP" ELSE "rdap"}
  <2>1. errs \in SUBSET Errors
    BY DEF Errors
  <2>2. Deliver(c, Error(errs)) /\ UNCHANGED opts /\ call[c].at = "rdap" /\ Others(c)
    BY <1>2, <1>11, ReleaseOwn DEF RdapFails, RdapReturns, Others, cacheVars
  <2> HIDE DEF errs
  <2>3. Error(errs) \in Results /\ Error(errs).source = "error"
    BY <2>1, ErrorTyped
  <2>4. QED
    BY <1>1, <2>2, <2>3, Delivered
<1>12. ASSUME NEW c \in Callers, FallBack(c) PROVE ClientInv'
  <2> DEFINE e == IF call[c].obj \in Domains THEN fetch[c].outcome ELSE call[c].rdapErr
  <2> DEFINE k == [call[c] EXCEPT !.at = "resolve", !.rdapErr = e]
  <2>1. call[c].obj \in Objects /\ call[c].obj \notin ASNs /\ call[c].result = NoResult
    BY <1>3, <1>12 DEF FallBack, RdapReturns, MayFallBack, CallOK
  <2>2. resolving'[c].key = KeyOf(call[c].obj) /\ resolving'[c].at # "idle" /\ Others(c)
    BY <1>2, <1>12, ResolveOwn, ReleaseOwn DEF FallBack, RdapReturns, Others
  <2>3. e \in {"none", "NoRDAP", "failed"}
    BY <1>3, <1>12 DEF FallBack, CallType
  <2> HIDE DEF e
  <2>4. k \in CallType
    BY <1>3, <2>3 DEF CallType
  <2>5. k.at = "resolve" /\ k.obj = call[c].obj /\ k.result = NoResult /\ NoResult.source = "none"
    BY <1>3, <2>1 DEF CallType, NoResult
  <2>6. CallOK(k, fetch'[c], resolving'[c])
    BY <2>1, <2>2, <2>5 DEF CallOK
  <2>7. UNCHANGED opts /\ call' = [call EXCEPT ![c] = k]
    BY <1>12 DEF FallBack, e
  <2> HIDE DEF k
  <2>8. QED
    BY <1>1, <2>2, <2>4, <2>6, <2>7, CallerStep
<1>13. ASSUME NEW c \in Callers, ResolveFails(c) PROVE ClientInv'
  <2> DEFINE err == IF resolving[c].err = "iana" THEN "whois" ELSE "NoWhoisServer"
  <2>1. err \in Errors
    BY DEF Errors
  <2>2. WhoisFails(c, err) /\ UNCHANGED opts /\ call[c].at = "resolve" /\ Others(c)
    BY <1>2, <1>13, ResolvedOwn DEF ResolveFails, Others
  <2> HIDE DEF err
  <2>3. QED
    BY <1>1, <2>1, <2>2, WhoisFailsInv
<1>14. ASSUME NEW c \in Callers, ResolveAnswers(c) PROVE ClientInv'
  <2> DEFINE k == [call[c] EXCEPT !.at = "exchange", !.server = resolving[c].server]
  <2>1. /\ call[c].obj \in Objects /\ call[c].obj \notin ASNs /\ call[c].result = NoResult
        /\ resolving[c].key = KeyOf(call[c].obj)
    BY <1>3, <1>14 DEF ResolveAnswers, CallOK
  <2>2. /\ resolving[c].server \in Servers \cup {NoServer}
        /\ resolving[c].server \in Cache!Rightful(KeyOf(call[c].obj))
    BY <1>2, <1>14, <2>1, CacheShape DEF ResolveAnswers, Cache!Resolved
  <2>3. k \in CallType
    BY <1>3, <2>2 DEF CallType
  <2>4. /\ k.at = "exchange" /\ k.obj = call[c].obj /\ k.server = resolving[c].server
        /\ k.result = NoResult /\ NoResult.source = "none"
    BY <1>3, <2>1 DEF CallType, NoResult
  <2>5. CallOK(k, fetch'[c], resolving'[c])
    BY <2>1, <2>2, <2>4 DEF CallOK
  <2>6. UNCHANGED opts /\ call' = [call EXCEPT ![c] = k] /\ Others(c)
    BY <1>2, <1>14, ResolvedOwn DEF ResolveAnswers, Others
  <2> HIDE DEF k
  <2>7. QED
    BY <1>1, <2>3, <2>5, <2>6, CallerStep
<1>15. ASSUME NEW c \in Callers, ExchangeFails(c) PROVE ClientInv'
  BY <1>1, <1>15, WhoisFailsInv DEF ExchangeFails, Errors, Others, cacheVars
<1>16. ASSUME NEW c \in Callers, ExchangeAnswers(c) PROVE ClientInv'
  <2>1. UNCHANGED opts /\ Others(c) /\ call[c].at = "exchange"
    BY <1>16 DEF ExchangeAnswers, Others, cacheVars
  <2>2. /\ call[c].obj \in Objects /\ call[c].obj \notin ASNs /\ call[c].result = NoResult
        /\ call[c].server \in Servers \cup {NoServer}
        /\ call[c].server \in Cache!Rightful(KeyOf(call[c].obj))
    BY <1>3, <2>1 DEF CallOK, CallType
  <2>3. PICK reply \in WhoisReplies :
          IF Refers(c, reply)
          THEN call' = [call EXCEPT ![c].at = "referral", ![c].refer = reply.refer,
                                    ![c].parsed = Parsed(reply, call[c].server)]
          ELSE Deliver(c, WhoisRecord(c, Registered(reply), Parsed(reply, call[c].server)))
    BY <1>16 DEF ExchangeAnswers, HonestReplies
  <2> DEFINE p == Parsed(reply, call[c].server)
  <2>4. p \in Infos
    BY <2>2, ParsedTyped
  <2> HIDE DEF p
  <2>5. CASE Refers(c, reply)
    <3> DEFINE k == [call[c] EXCEPT !.at = "referral", !.refer = reply.refer, !.parsed = p]
    <3>1. reply.refer \in Servers \cup {NoServer}
      BY ClientAssumption
    <3>2. k \in CallType
      BY <1>3, <2>4, <3>1 DEF CallType
    <3>3. /\ k.at = "referral" /\ k.obj = call[c].obj /\ k.server = call[c].server
          /\ k.result = NoResult /\ NoResult.source = "none"
      BY <1>3, <2>2 DEF CallType, NoResult
    <3>4. CallOK(k, fetch'[c], resolving'[c])
      BY <2>2, <3>3 DEF CallOK
    <3>5. call' = [call EXCEPT ![c] = k]
      BY <2>3, <2>5 DEF p
    <3> HIDE DEF k
    <3>6. QED
      BY <1>1, <2>1, <3>2, <3>4, <3>5, CallerStep
  <2>6. CASE ~ Refers(c, reply)
    <3>1. Registered(reply) \in BOOLEAN
      BY DEF Registered
    <3>2. /\ WhoisRecord(c, Registered(reply), p) \in Results
          /\ WhoisRecord(c, Registered(reply), p).source = "whois"
      BY <2>4, <3>1, WhoisRecordTyped
    <3>3. Deliver(c, WhoisRecord(c, Registered(reply), p))
      BY <2>3, <2>6 DEF p
    <3>4. QED
      BY <1>1, <2>1, <2>2, <3>2, <3>3, Delivered
  <2>7. QED
    BY <2>5, <2>6
<1>17. ASSUME NEW c \in Callers, ReferralDropped(c) PROVE ClientInv'
  <2>1. /\ UNCHANGED opts /\ Others(c) /\ call[c].at = "referral"
        /\ Deliver(c, WhoisRecord(c, TRUE, call[c].parsed))
    BY <1>17 DEF ReferralDropped, Others, cacheVars
  <2>2. call[c].parsed \in Infos /\ call[c].server \in Cache!Rightful(KeyOf(call[c].obj))
    BY <1>3, <2>1 DEF CallType, CallOK
  <2>3. /\ WhoisRecord(c, TRUE, call[c].parsed) \in Results
        /\ WhoisRecord(c, TRUE, call[c].parsed).source = "whois"
    BY <2>2, WhoisRecordTyped
  <2>4. QED
    BY <1>1, <2>1, <2>2, <2>3, Delivered
<1>18. ASSUME NEW c \in Callers, ReferralMerged(c) PROVE ClientInv'
  <2>1. /\ UNCHANGED opts /\ Others(c) /\ call[c].at = "referral"
    BY <1>18 DEF ReferralMerged, Others, cacheVars
  <2>2. /\ call[c].parsed \in Infos /\ call[c].server \in Cache!Rightful(KeyOf(call[c].obj))
        /\ call[c].refer \in Servers \cup {NoServer} /\ call[c].server \in Servers \cup {NoServer}
    BY <1>3, <2>1 DEF CallType, CallOK
  <2>3. PICK reply \in WhoisReplies :
          Deliver(c, [WhoisRecord(c, TRUE,
                                  MergeParsed(Parsed(reply, call[c].refer), call[c].parsed))
                        EXCEPT !.raw = call[c].refer, !.registryRaw = call[c].server])
    BY <1>18 DEF ReferralMerged
  <2> DEFINE w == WhoisRecord(c, TRUE, MergeParsed(Parsed(reply, call[c].refer), call[c].parsed))
  <2> DEFINE r == [w EXCEPT !.raw = call[c].refer, !.registryRaw = call[c].server]
  <2>4. w \in Results /\ w.source = "whois"
    BY <2>2, ParsedTyped, MergeTyped, WhoisRecordTyped
  <2> HIDE DEF w
  <2>5. r \in Results /\ r.source = "whois"
    BY <2>2, <2>4 DEF Results, Hosts
  <2>6. Deliver(c, r)
    BY <2>3 DEF w
  <2> HIDE DEF r
  <2>7. QED
    BY <1>1, <2>1, <2>2, <2>5, <2>6, Delivered
<1>19. ASSUME NEW c \in Callers, Return(c) PROVE ClientInv'
  <2>1. CallOK(NoCall, fetch'[c], resolving'[c])
    BY DEF CallOK, NoCall, NoResult
  <2>2. UNCHANGED opts /\ Others(c) /\ call' = [call EXCEPT ![c] = NoCall]
    BY <1>19 DEF Return, Others, cacheVars
  <2>3. QED
    BY <1>1, <2>1, <2>2, NoCallTyped, CallerStep
<1>20. CASE UNCHANGED vars
  BY <1>1, <1>20 DEF ClientInv, vars
<1>21. QED
  BY <1>5, <1>6, <1>7, <1>8, <1>9, <1>10, <1>11, <1>12, <1>13, <1>14, <1>15, <1>16, <1>17,
     <1>18, <1>19, <1>20 DEF Next, CallStep

(***************************************************************************)
(* Towards the promise: what a step does to the call of its caller.        *)
(***************************************************************************)
Moves(c) ==
  /\ \A d \in Callers : d # c => call'[d] = call[d]
  /\ \/ call[c].at = "idle" /\ call'[c].at = "start"
     \/ call[c].at \notin {"idle", "done"} /\ call'[c].at # "idle" /\ call'[c].obj = call[c].obj
     \/ call[c].at = "done" /\ call'[c].at = "idle"

LEMMA StepMoves ==
  ASSUME ClientInv, NEW caller \in Callers, Query(caller) \/ CallStep(caller) \/ Return(caller)
  PROVE  UNCHANGED call \/ Moves(caller)
<1>1. call \in [Callers -> CallType]
  BY DEF ClientInv
<1>2. ASSUME NEW c \in Callers, NEW r, Deliver(c, r), call[c].at \notin {"idle", "done"}
      PROVE  Moves(c)
  BY <1>1, <1>2 DEF Deliver, Moves, CallType
<1>3. ASSUME NEW c \in Callers, Query(c) PROVE Moves(c)
  BY <1>1, <1>3 DEF Query, Moves, NoCall
<1>4. ASSUME NEW c \in Callers, Return(c) PROVE Moves(c)
  BY <1>1, <1>4 DEF Return, Moves, NoCall
<1>5. ASSUME NEW c \in Callers,
             \/ StartRdap(c) \/ StartWhois(c) \/ FallBack(c) \/ ResolveAnswers(c)
      PROVE  Moves(c)
  BY <1>1, <1>5 DEF StartRdap, StartWhois, FallBack, RdapReturns, ResolveAnswers, Moves, CallType
<1>6. ASSUME NEW c \in Callers,
             \/ Reject(c) \/ RdapAnswers(c) \/ RdapFails(c) \/ ResolveFails(c)
             \/ ExchangeFails(c) \/ ReferralDropped(c) \/ ReferralMerged(c)
      PROVE  Moves(c)
  <2>1. (\E r : Deliver(c, r)) /\ call[c].at \in {"start", "rdap", "resolve", "exchange", "referral"}
    BY <1>6 DEF Reject, RdapAnswers, RdapFails, RdapReturns, ResolveFails, WhoisFails,
                ExchangeFails, ReferralDropped, ReferralMerged
  <2>2. QED
    BY <1>2, <2>1
<1>7. ASSUME NEW c \in Callers, ExchangeAnswers(c) PROVE Moves(c)
  <2>1. PICK reply \in HonestReplies(call[c].obj) :
          IF Refers(c, reply)
          THEN call' = [call EXCEPT ![c].at = "referral", ![c].refer = reply.refer,
                                    ![c].parsed = Parsed(reply, call[c].server)]
          ELSE Deliver(c, WhoisRecord(c, Registered(reply), Parsed(reply, call[c].server)))
    BY <1>7 DEF ExchangeAnswers
  <2>2. call[c].at = "exchange"
    BY <1>7 DEF ExchangeAnswers
  <2>3. CASE Refers(c, reply)
    BY <1>1, <2>1, <2>2, <2>3 DEF Moves, CallType
  <2>4. CASE ~ Refers(c, reply)
    BY <1>2, <2>1, <2>2, <2>4
  <2>5. QED
    BY <2>3, <2>4
<1>8. ASSUME NEW c \in Callers, RdapStep(c) \/ ResolveStep(c) PROVE UNCHANGED call
  BY <1>8 DEF RdapStep, ResolveStep
<1>9. QED
  BY <1>3, <1>4, <1>5, <1>6, <1>7, <1>8 DEF CallStep

(***************************************************************************)
(* The truth of the answers, provided that the replies are legible.        *)
(***************************************************************************)
LEMMA DeliveredTrue ==
  ASSUME ClientInv, NEW c \in Callers, NEW r, Deliver(c, r),
         Told(r) \in Promise!Truths(call[c].obj)
  PROVE  CallTrue(call'[c])
<1>1. call'[c].at = "done" /\ call'[c].result = r /\ call'[c].obj = call[c].obj
  BY DEF Deliver, ClientInv, CallType
<1>2. QED
  BY <1>1 DEF CallTrue

LEMMA ErrorTrue ==
  ASSUME ClientInv, NEW c \in Callers, NEW errs \in SUBSET Errors, Deliver(c, Error(errs))
  PROVE  CallTrue(call'[c])
<1>1. Told(Error(errs)) = "error"
  BY ErrorTyped DEF Told
<1>2. Told(Error(errs)) \in Promise!Truths(call[c].obj)
  BY <1>1 DEF Promise!Truths
<1>3. QED
  BY <1>2, DeliveredTrue

LEMMA WhoisRecordTrue ==
  ASSUME ClientInv, NEW c \in Callers, NEW r,
         Deliver(c, r), call[c].at \in {"rdap", "exchange", "referral"},
         r.source \in {"whois", "rdap"}, r.found \in BOOLEAN,
         r.found <=> call[c].obj \in Existing
  PROVE  CallTrue(call'[c])
<1>1. Told(r) = IF call[c].obj \in Existing THEN "registered" ELSE "available"
  BY DEF Told
<1>2. call[c].obj \in Objects /\ call[c].obj # Malformed
  BY ClientAssumption DEF ClientInv, CallOK
<1>3. Told(r) \in Promise!Truths(call[c].obj)
  BY <1>1, <1>2 DEF Promise!Truths
<1>4. QED
  BY <1>3, DeliveredTrue

LEMMA StepTrue ==
  ASSUME Legible, TrueInv, [Next]_vars
  PROVE  \A c \in Callers : CallTrue(call'[c])
<1>1. ClientInv /\ Rdap!FetchInv /\ call \in [Callers -> CallType]
  BY DEF TrueInv, ClientInv
<1>2. \A c \in Callers : CallTrue(call[c])
  BY DEF TrueInv
<1>3. ASSUME NEW c \in Callers,
             call'[c].at \notin {"referral", "done"}
      PROVE  CallTrue(call'[c])
  BY <1>3 DEF CallTrue
<1>4. ASSUME NEW c \in Callers, CallTrue(call'[c]), Moves(c)
      PROVE  \A d \in Callers : CallTrue(call'[d])
  BY <1>2, <1>4 DEF Moves
<1>5. ASSUME NEW c \in Callers, Query(c) \/ Return(c) PROVE CallTrue(call'[c])
  <2>1. call'[c].at \in {"start", "idle"}
    <3>1. CASE Query(c)
      <4>1. PICK o : call' = [call EXCEPT ![c] = [NoCall EXCEPT !.at = "start", !.obj = o]]
        BY <3>1 DEF Query
      <4>2. QED
        BY <1>1, <4>1 DEF NoCall
    <3>2. CASE Return(c)
      BY <1>1, <3>2 DEF Return, NoCall
    <3>3. QED
      BY <1>5, <3>1, <3>2
  <2>2. QED
    BY <1>3, <2>1
<1>6. ASSUME NEW c \in Callers, StartRdap(c) \/ StartWhois(c) \/ FallBack(c) \/ ResolveAnswers(c)
      PROVE  CallTrue(call'[c])
  BY <1>1, <1>6 DEF StartRdap, StartWhois, FallBack, ResolveAnswers, CallTrue, CallType
<1>7. ASSUME NEW c \in Callers,
             Reject(c) \/ RdapFails(c) \/ ResolveFails(c) \/ ExchangeFails(c)
      PROVE  CallTrue(call'[c])
  <2>1. \E errs \in SUBSET Errors : Deliver(c, Error(errs))
    BY <1>7 DEF Reject, RdapFails, ResolveFails, ExchangeFails, WhoisFails, Errors
  <2>2. QED
    BY <1>1, <2>1, ErrorTrue
<1>8. ASSUME NEW c \in Callers, RdapAnswers(c) PROVE CallTrue(call'[c])
  <2> DEFINE r == [NoResult EXCEPT !.source = "rdap", !.found = (fetch[c].outcome = "found"),
                                   !.server = fetch[c].url, !.raw = fetch[c].url]
  <2>1. r.source = "rdap" /\ r.found = (fetch[c].outcome = "found")
    BY DEF NoResult
  <2>2. Deliver(c, r) /\ call[c].at = "rdap" /\ fetch[c].outcome \in {"found", "notFound"}
    BY <1>8 DEF RdapAnswers, RdapReturns
  <2>3. fetch[c].obj = call[c].obj
    BY <1>1, <2>2 DEF ClientInv, CallOK
  <2>4. (fetch[c].outcome = "found") <=> call[c].obj \in Existing
    BY <1>1, <2>2, <2>3, FetchShape
  <2> HIDE DEF r
  <2>5. QED
    BY <1>1, <2>1, <2>2, <2>4, WhoisRecordTrue
<1>9. ASSUME NEW c \in Callers, ExchangeAnswers(c) PROVE CallTrue(call'[c])
  <2>1. PICK reply \in HonestReplies(call[c].obj) :
          /\ ~ reply.blank
          /\ IF Refers(c, reply)
             THEN call' = [call EXCEPT ![c].at = "referral", ![c].refer = reply.refer,
                                       ![c].parsed = Parsed(reply, call[c].server)]
             ELSE Deliver(c, WhoisRecord(c, Registered(reply), Parsed(reply, call[c].server)))
    BY <1>9 DEF ExchangeAnswers
  <2>2. call[c].at = "exchange" /\ call[c].server \in Servers \cup {NoServer}
    BY <1>1, <1>9 DEF ExchangeAnswers, CallType
  <2>3. Registered(reply) \in BOOLEAN /\ (Registered(reply) <=> call[c].obj \in Existing)
    BY <2>1 DEF Legible, HonestReplies, Registered
  <2>4. CASE Refers(c, reply)
    <3>1. call[c].obj \in Existing
      BY <2>3, <2>4 DEF Refers
    <3>2. call' = [call EXCEPT ![c].at = "referral", ![c].refer = reply.refer,
                               ![c].parsed = Parsed(reply, call[c].server)]
      BY <2>1, <2>4
    <3>3. call'[c].at = "referral" /\ call'[c].obj = call[c].obj
      BY <1>1, <3>2 DEF CallType
    <3>4. QED
      BY <3>1, <3>3 DEF CallTrue
  <2>5. CASE ~ Refers(c, reply)
    <3> DEFINE r == WhoisRecord(c, Registered(reply), Parsed(reply, call[c].server))
    <3>1. Parsed(reply, call[c].server) \in Infos
      BY <2>2, ParsedTyped DEF HonestReplies
    <3>2. r.source = "whois" /\ r.found = Registered(reply)
      BY <1>1, <2>3, <3>1, WhoisRecordTyped
    <3>3. Deliver(c, r)
      BY <2>1, <2>5
    <3> HIDE DEF r
    <3>4. QED
      BY <1>1, <2>2, <2>3, <3>2, <3>3, WhoisRecordTrue
  <2>6. QED
    BY <2>4, <2>5
<1>10. ASSUME NEW c \in Callers, ReferralDropped(c) \/ ReferralMerged(c) PROVE CallTrue(call'[c])
  <2>1. call[c].at = "referral" /\ call[c].obj \in Existing
    BY <1>2, <1>10 DEF ReferralDropped, ReferralMerged, CallTrue
  <2>2. /\ call[c].parsed \in Infos /\ call[c].refer \in Servers \cup {NoServer}
        /\ call[c].server \in Servers \cup {NoServer}
    BY <1>1 DEF CallType
  <2>3. ASSUME NEW r, Deliver(c, r), r.source = "whois", r.found = TRUE PROVE CallTrue(call'[c])
    BY <1>1, <2>1, <2>3, WhoisRecordTrue
  <2>4. CASE ReferralDropped(c)
    BY <1>1, <2>2, <2>3, <2>4, WhoisRecordTyped DEF ReferralDropped
  <2>5. CASE ReferralMerged(c)
    <3>1. PICK reply \in WhoisReplies :
            Deliver(c, [WhoisRecord(c, TRUE,
                                    MergeParsed(Parsed(reply, call[c].refer), call[c].parsed))
                          EXCEPT !.raw = call[c].refer, !.registryRaw = call[c].server])
      BY <2>5 DEF ReferralMerged
    <3> DEFINE w == WhoisRecord(c, TRUE,
                                MergeParsed(Parsed(reply, call[c].refer), call[c].parsed))
    <3>2. w \in Results /\ w.source = "whois" /\ w.found = TRUE
      BY <1>1, <2>2, ParsedTyped, MergeTyped, WhoisRecordTyped
    <3>3. Deliver(c, [w EXCEPT !.raw = call[c].refer, !.registryRaw = call[c].server])
      BY <3>1
    <3> HIDE DEF w
    <3> DEFINE r == [w EXCEPT !.raw = call[c].refer, !.registryRaw = call[c].server]
    <3>4. r.source = "whois" /\ r.found = TRUE
      BY <3>2 DEF Results
    <3> HIDE DEF r
    <3>5. QED
      BY <2>3, <3>3, <3>4 DEF r
  <2>6. QED
    BY <1>10, <2>4, <2>5
<1>11. CASE UNCHANGED call
  BY <1>2, <1>11
<1>12. ASSUME NEW c \in Callers, RdapStep(c) \/ ResolveStep(c) PROVE UNCHANGED call
  BY <1>12 DEF RdapStep, ResolveStep
<1>13. ASSUME NEW c \in Callers, Query(c) \/ CallStep(c) \/ Return(c)
       PROVE  CallTrue(call'[c]) \/ UNCHANGED call
  BY <1>5, <1>6, <1>7, <1>8, <1>9, <1>10, <1>12, <1>13 DEF CallStep
<1>14. CASE UNCHANGED vars
  BY <1>11, <1>14 DEF vars
<1>15. CASE Next
  <2>1. PICK c \in Callers : Query(c) \/ CallStep(c) \/ Return(c)
    BY <1>15 DEF Next
  <2>2. CASE UNCHANGED call
    BY <1>11, <2>2
  <2>3. CASE ~ UNCHANGED call
    <3>1. Moves(c)
      BY <1>1, <2>1, <2>3, StepMoves
    <3>2. CallTrue(call'[c])
      BY <1>13, <2>1, <2>3
    <3>3. QED
      BY <1>4, <3>1, <3>2
  <2>4. QED
    BY <2>2, <2>3
<1>16. QED
  BY <1>14, <1>15

(***************************************************************************)
(* The refinement: a step asks, answers, returns, or shows nothing.        *)
(***************************************************************************)
LEMMA InitPromise == Init => Promise!PromiseInit
  BY DEF Init, Promise!PromiseInit, NoCall, NoResult, Told

\* What is told before a call is done: nothing.
LEMMA ToldNothing ==
  ASSUME NEW k, k.result = NoResult
  PROVE  Told(k.result) = "none"
  BY DEF Told, NoResult

LEMMA StepPromise ==
  ASSUME TrueInv, TrueInv', [Next]_vars
  PROVE  [Promise!PromiseNext]_(Promise!promiseVars)
<1> DEFINE asked == [c \in Callers |-> call[c].obj]
<1> DEFINE answer == [c \in Callers |-> Told(call[c].result)]
<1>1. call \in [Callers -> CallType] /\ call' \in [Callers -> CallType]
  BY DEF TrueInv, ClientInv
<1>2. \A c \in Callers :
        /\ call[c].at = "idle" => call[c] = NoCall
        /\ call[c].at # "idle" => call[c].obj \in Objects \cup {Malformed}
        /\ call[c].at # "done" => call[c].result = NoResult
        /\ call[c].at = "done" => call[c].result.source # "none"
  BY DEF TrueInv, ClientInv, CallOK
<1>3. \A c \in Callers :
        /\ call'[c].at = "idle" => call'[c] = NoCall
        /\ call'[c].at # "idle" => call'[c].obj \in Objects \cup {Malformed}
        /\ call'[c].at # "done" => call'[c].result = NoResult
        /\ call'[c].at = "done" => Told(call'[c].result) \in Promise!Truths(call'[c].obj)
  BY DEF TrueInv, ClientInv, CallOK, CallTrue
<1>4. NoCall.obj = NoObject /\ NoCall.result = NoResult /\ Told(NoResult) = "none"
  BY DEF NoCall, NoResult, Told
<1>5. NoObject \notin Objects \cup {Malformed}
  BY ClientAssumption
<1>6. CASE UNCHANGED call
  BY <1>6 DEF Promise!promiseVars
<1>7. ASSUME NEW c \in Callers, Moves(c) PROVE [Promise!PromiseNext]_(Promise!promiseVars)
  <2>1. CASE call[c].at = "idle" /\ call'[c].at = "start"
    <3>1. asked' = [asked EXCEPT ![c] = call'[c].obj] /\ answer' = answer
      BY <1>2, <1>3, <1>4, <1>7, <2>1 DEF Moves
    <3>2. asked[c] = NoObject /\ call'[c].obj \in Objects \cup {Malformed}
      BY <1>2, <1>3, <1>4, <2>1
    <3>3. Promise!Ask(c)
      BY <3>1, <3>2 DEF Promise!Ask
    <3>4. QED
      BY <3>3 DEF Promise!PromiseNext
  <2>2. CASE /\ call[c].at \notin {"idle", "done"} /\ call'[c].at \notin {"idle", "done"}
             /\ call'[c].obj = call[c].obj
    <3>1. call'[c].result = call[c].result
      BY <1>2, <1>3, <2>2
    <3>2. asked' = asked /\ answer' = answer
      BY <1>7, <2>2, <3>1 DEF Moves
    <3>3. QED
      BY <3>2 DEF Promise!promiseVars
  <2>3. CASE /\ call[c].at \notin {"idle", "done"} /\ call'[c].at = "done"
             /\ call'[c].obj = call[c].obj
    <3>1. asked' = asked
      BY <1>7, <2>3 DEF Moves
    <3>2. answer' = [answer EXCEPT ![c] = Told(call'[c].result)]
      BY <1>7 DEF Moves
    <3>3. asked[c] # NoObject /\ answer[c] = "none"
      BY <1>2, <1>4, <1>5, <2>3
    <3>4. Told(call'[c].result) \in Promise!Truths(asked[c])
      BY <1>3, <2>3
    <3>5. Promise!Answer(c)
      BY <3>1, <3>2, <3>3, <3>4 DEF Promise!Answer
    <3>6. QED
      BY <3>5 DEF Promise!PromiseNext
  <2>4. CASE call[c].at = "done" /\ call'[c].at = "idle"
    <3>1. call'[c] = NoCall
      BY <1>3, <2>4
    <3>2. /\ asked' = [asked EXCEPT ![c] = NoObject]
          /\ answer' = [answer EXCEPT ![c] = "none"]
      BY <1>4, <1>7, <3>1 DEF Moves
    <3>3. answer[c] # "none"
      BY <1>2, <2>4 DEF Told
    <3>4. Promise!Return(c)
      BY <3>2, <3>3 DEF Promise!Return
    <3>5. QED
      BY <3>4 DEF Promise!PromiseNext
  <2>5. QED
    BY <1>7, <2>1, <2>2, <2>3, <2>4 DEF Moves
<1>8. ClientInv
  BY DEF TrueInv
<1>9. CASE UNCHANGED vars
  BY <1>6, <1>9 DEF vars
<1>10. CASE Next
  <2>1. PICK c \in Callers : Query(c) \/ CallStep(c) \/ Return(c)
    BY <1>10 DEF Next
  <2>2. QED
    BY <1>6, <1>7, <1>8, <2>1, StepMoves
<1>11. QED
  BY <1>9, <1>10

(***************************************************************************)
(* What errors account for, and that a referral only adds.                 *)
(***************************************************************************)
LEMMA QueryOrReturn ==
  ASSUME ClientInv, NEW c \in Callers, Query(c) \/ Return(c)
  PROVE  /\ call'[c].parsed = NoInfo /\ call'[c].result = NoResult
         /\ call'[c].at \in {"idle", "start"} /\ call'[c].rdapErr = "none"
         /\ call'[c].refer = NoServer
<1>1. call \in [Callers -> CallType]
  BY DEF ClientInv
<1>2. CASE Query(c)
  <2>1. PICK o \in Objects \cup {Malformed} :
          call' = [call EXCEPT ![c] = [NoCall EXCEPT !.at = "start", !.obj = o]]
    BY <1>2 DEF Query
  <2>2. QED
    BY <1>1, <2>1 DEF NoCall
<1>3. CASE Return(c)
  BY <1>1, <1>3 DEF Return, NoCall
<1>4. QED
  BY <1>2, <1>3

LEMMA DeliveredAdds ==
  ASSUME ClientInv, NEW c \in Callers, NEW r, Deliver(c, r), OnlyAdds(call[c], r)
  PROVE  CallAdds(call'[c])
<1>1. /\ call'[c].at = "done" /\ call'[c].result = r /\ call'[c].parsed = call[c].parsed
      /\ call'[c].refer = call[c].refer /\ call'[c].server = call[c].server
  BY DEF Deliver, ClientInv, CallType
<1>2. OnlyAdds(call'[c], call'[c].result)
  BY <1>1 DEF OnlyAdds, Unmerged, Merged
<1>3. QED
  BY <1>1, <1>2 DEF CallAdds

LEMMA RecordOfServer ==
  ASSUME NEW c \in Callers, NEW found \in BOOLEAN, NEW p
  PROVE  /\ WhoisRecord(c, found, p).source = "whois" /\ WhoisRecord(c, found, p).errs = {}
         /\ WhoisRecord(c, found, p).raw = call[c].server
         /\ WhoisRecord(c, found, p).registryRaw = NoServer
         /\ WhoisRecord(c, found, p).found = found
         /\ WhoisRecord(c, found, p).parsed = p
  BY DEF WhoisRecord, NoResult

LEMMA StepAdds ==
  ASSUME AddsInv, [Next]_vars
  PROVE  \A c \in Callers : CallAdds(call'[c])
<1>1. ClientInv /\ call \in [Callers -> CallType]
  BY DEF AddsInv, ClientInv
<1>2. \A c \in Callers : CallAdds(call[c]) /\ CallOK(call[c], fetch[c], resolving[c])
  BY DEF AddsInv, ClientInv
<1>3. ASSUME NEW c \in Callers, Query(c) \/ Return(c) PROVE CallAdds(call'[c])
  <2>1. call'[c].result.source # "whois"
    BY <1>1, <1>3, QueryOrReturn DEF NoResult
  <2>2. QED
    BY <1>1, <1>3, <2>1, QueryOrReturn DEF CallAdds, OnlyAdds
<1>4. ASSUME NEW c \in Callers, StartRdap(c) \/ StartWhois(c) \/ FallBack(c) \/ ResolveAnswers(c)
      PROVE  CallAdds(call'[c])
  <2>1. /\ call[c].at \in {"start", "rdap", "resolve"}
        /\ call'[c].at \in {"rdap", "resolve", "exchange"}
        /\ call'[c].parsed = call[c].parsed /\ call'[c].result = call[c].result
        /\ call'[c].refer = call[c].refer
    BY <1>1, <1>4 DEF StartRdap, StartWhois, FallBack, RdapReturns, ResolveAnswers, CallType
  <2>2. call[c].parsed = NoInfo /\ call[c].refer = NoServer /\ call[c].result.source # "whois"
    BY <1>2, <2>1 DEF CallAdds, CallOK, NoResult
  <2>3. QED
    BY <2>1, <2>2 DEF CallAdds, OnlyAdds
<1>5. ASSUME NEW c \in Callers,
             Reject(c) \/ RdapFails(c) \/ ResolveFails(c) \/ ExchangeFails(c)
      PROVE  CallAdds(call'[c])
  <2>1. PICK errs \in SUBSET Errors : Deliver(c, Error(errs))
    BY <1>5 DEF Reject, RdapFails, ResolveFails, ExchangeFails, WhoisFails, Errors
  <2>2. OnlyAdds(call[c], Error(errs))
    BY ErrorTyped DEF OnlyAdds
  <2>3. QED
    BY <1>1, <2>1, <2>2, DeliveredAdds
<1>6. ASSUME NEW c \in Callers, RdapAnswers(c) PROVE CallAdds(call'[c])
  <2> DEFINE r == [NoResult EXCEPT !.source = "rdap", !.found = (fetch[c].outcome = "found"),
                                   !.server = fetch[c].url, !.raw = fetch[c].url]
  <2>1. Deliver(c, r)
    BY <1>6 DEF RdapAnswers
  <2>2. OnlyAdds(call[c], r)
    BY DEF OnlyAdds, NoResult
  <2> HIDE DEF r
  <2>3. QED
    BY <1>1, <2>1, <2>2, DeliveredAdds
<1>7. ASSUME NEW c \in Callers, ExchangeAnswers(c) PROVE CallAdds(call'[c])
  <2>1. PICK reply \in WhoisReplies :
          IF Refers(c, reply)
          THEN call' = [call EXCEPT ![c].at = "referral", ![c].refer = reply.refer,
                                    ![c].parsed = Parsed(reply, call[c].server)]
          ELSE Deliver(c, WhoisRecord(c, Registered(reply), Parsed(reply, call[c].server)))
    BY <1>7 DEF ExchangeAnswers, HonestReplies
  <2>2. call[c].at = "exchange" /\ call[c].refer = NoServer /\ call[c].result.source # "whois"
    BY <1>2, <1>7 DEF ExchangeAnswers, CallAdds, CallOK, NoResult
  <2> DEFINE p == Parsed(reply, call[c].server)
  <2>3. \A f \in Fields : p[f] \in {call[c].server, NoServer}
    BY DEF Parsed
  <2> HIDE DEF p
  <2>4. CASE Refers(c, reply)
    <3>1. /\ call'[c].at = "referral" /\ call'[c].parsed = p
          /\ call'[c].server = call[c].server /\ call'[c].result = call[c].result
          /\ call'[c].refer = reply.refer
      BY <1>1, <2>1, <2>4 DEF p, CallType
    <3>2. reply.refer # NoServer
      BY <2>4 DEF Refers
    <3>3. QED
      BY <2>2, <2>3, <3>1, <3>2 DEF CallAdds, OnlyAdds
  <2>5. CASE ~ Refers(c, reply)
    <3> DEFINE w == WhoisRecord(c, Registered(reply), p)
    <3>1. Deliver(c, w)
      BY <2>1, <2>5 DEF p
    <3>2. w.raw = call[c].server /\ w.registryRaw = NoServer /\ w.parsed = p
      <4>1. Registered(reply) \in BOOLEAN
        BY DEF Registered
      <4>2. QED
        BY <4>1, RecordOfServer
    <3> HIDE DEF w
    <3>3. OnlyAdds(call[c], w)
      BY <2>2, <2>3, <3>2 DEF OnlyAdds, Unmerged
    <3>4. QED
      BY <1>1, <3>1, <3>3, DeliveredAdds
  <2>6. QED
    BY <2>4, <2>5
<1>8. ASSUME NEW c \in Callers, ReferralDropped(c) PROVE CallAdds(call'[c])
  <2> DEFINE w == WhoisRecord(c, TRUE, call[c].parsed)
  <2>1. Deliver(c, w) /\ call[c].at = "referral"
    BY <1>8 DEF ReferralDropped
  <2>2. /\ w.raw = call[c].server /\ w.registryRaw = NoServer
        /\ w.found /\ w.parsed = call[c].parsed
    BY DEF WhoisRecord, NoResult
  <2> HIDE DEF w
  <2>3. \A f \in Fields : call[c].parsed[f] \in {call[c].server, NoServer}
    BY <1>2, <2>1 DEF CallAdds
  <2>4. OnlyAdds(call[c], w)
    BY <2>2, <2>3 DEF OnlyAdds, Unmerged
  <2>5. QED
    BY <1>1, <2>1, <2>4, DeliveredAdds
<1>9. ASSUME NEW c \in Callers, ReferralMerged(c) PROVE CallAdds(call'[c])
  <2>1. PICK reply \in WhoisReplies :
          Deliver(c, [WhoisRecord(c, TRUE,
                                  MergeParsed(Parsed(reply, call[c].refer), call[c].parsed))
                        EXCEPT !.raw = call[c].refer, !.registryRaw = call[c].server])
    BY <1>9 DEF ReferralMerged
  <2> DEFINE theirs == Parsed(reply, call[c].refer)
  <2> DEFINE merged == MergeParsed(theirs, call[c].parsed)
  <2> DEFINE w == WhoisRecord(c, TRUE, merged)
  <2> DEFINE r == [w EXCEPT !.raw = call[c].refer, !.registryRaw = call[c].server]
  <2>2. Deliver(c, r)
    BY <2>1
  <2>3. w.parsed = merged /\ r.parsed = merged
        /\ r.raw = call[c].refer /\ r.registryRaw = call[c].server /\ r.found
    BY DEF WhoisRecord, NoResult
  <2>4. \A f \in Fields : theirs[f] \in {call[c].refer, NoServer}
    BY DEF Parsed
  <2>5. call[c].refer # NoServer
    BY <1>2, <1>9 DEF ReferralMerged, CallAdds
  <2> HIDE DEF theirs
  <2>6. \A f \in Fields :
          merged[f] = IF f \in MergedFields /\ theirs[f] = NoServer THEN call[c].parsed[f]
                                                                    ELSE theirs[f]
    BY DEF MergeParsed, FillEmpty
  <2> HIDE DEF merged, w, r
  <2>7. OnlyAdds(call[c], r)
    BY <2>3, <2>4, <2>5, <2>6 DEF OnlyAdds, Merged
  <2>8. QED
    BY <1>1, <2>2, <2>7, DeliveredAdds
<1>10. CASE UNCHANGED call
  BY <1>2, <1>10
<1>11. ASSUME NEW c \in Callers, CallAdds(call'[c]), Moves(c)
       PROVE  \A d \in Callers : CallAdds(call'[d])
  BY <1>2, <1>11 DEF Moves
<1>12. ASSUME NEW c \in Callers, Query(c) \/ CallStep(c) \/ Return(c)
       PROVE  UNCHANGED call \/ CallAdds(call'[c])
  BY <1>3, <1>4, <1>5, <1>6, <1>7, <1>8, <1>9, <1>12 DEF CallStep, RdapStep, ResolveStep
<1>13. CASE UNCHANGED vars
  BY <1>10, <1>13 DEF vars
<1>14. QED
  BY <1>1, <1>10, <1>11, <1>12, <1>13, StepMoves DEF Next

\* A lookup without a server had none pinned and none in the table.
Unserved(r) ==
  r.err = "NoWhoisServer" =>
    Cache!Override(r.key) = NoServer /\ Cache!TableEntry(r.key) = NoServer

LEMMA StepUnserved ==
  ASSUME Cache!CacheInv, NEW c \in Callers, Unserved(resolving[c]),
         Cache!CacheStep(c) \/ Cache!Resolved(c) \/ (\E k \in Cache!Keys : Cache!Resolve(c, k))
  PROVE  Unserved(resolving'[c])
<1>1. resolving \in [Callers -> [at : {"idle", "load", "missed", "referred", "done"},
                                 key : Cache!Keys, server : Servers \cup {NoServer},
                                 err : {"none", "iana", "NoWhoisServer"}]]
  BY DEF Cache!CacheInv, Cache!CacheTypeOK
<1>2. CASE Cache!LoadHit(c) \/ Cache!StoreTable(c) \/ Cache!IanaFails(c)
  BY <1>1, <1>2 DEF Cache!LoadHit, Cache!StoreTable, Cache!IanaFails, Cache!Done, Unserved
<1>3. CASE Cache!IanaSilent(c)
  <2>1. /\ Cache!Override(resolving[c].key) = NoServer
        /\ Cache!TableEntry(resolving[c].key) = NoServer
    BY <1>3 DEF Cache!IanaSilent, Cache!AskingIana, Cache!CacheInv, Cache!Underway
  <2>2. resolving'[c].key = resolving[c].key
    BY <1>1, <1>3 DEF Cache!IanaSilent, Cache!Done
  <2>3. QED
    BY <2>1, <2>2 DEF Unserved
<1>4. CASE Cache!LoadMiss(c) \/ Cache!IanaRefers(c) \/ Cache!StoreReferral(c)
  <2>1. resolving'[c].key = resolving[c].key /\ resolving'[c].err = resolving[c].err
    BY <1>1, <1>4 DEF Cache!LoadMiss, Cache!IanaRefers, Cache!StoreReferral
  <2>2. QED
    BY <2>1 DEF Unserved
<1>5. CASE Cache!Resolved(c)
  BY <1>1, <1>5 DEF Cache!Resolved, Cache!NotResolving, Unserved
<1>6. ASSUME NEW k \in Cache!Keys, Cache!Resolve(c, k) PROVE Unserved(resolving'[c])
  <2>1. resolving'[c].err = "none"
    BY <1>1, <1>6 DEF Cache!Resolve, Cache!NotResolving
  <2>2. QED
    BY <2>1 DEF Unserved
<1>7. QED
  BY <1>2, <1>3, <1>4, <1>5, <1>6 DEF Cache!CacheStep

\* A step is about the call and the lookup of its own caller.
LEMMA StepOwn ==
  ASSUME ClientInv, NEW c \in Callers, Query(c) \/ CallStep(c) \/ Return(c)
  PROVE  /\ \A d \in Callers : d # c => call'[d] = call[d] /\ resolving'[d] = resolving[d]
         /\ Unserved(resolving[c]) => Unserved(resolving'[c])
         /\ UNCHANGED opts
<1>1. Cache!CacheInv /\ \A d \in Callers : CallOK(call[d], fetch[d], resolving[d])
  BY DEF ClientInv
<1>2. \A d \in Callers : d # c => call'[d] = call[d]
  BY StepMoves DEF Moves
<1>3. UNCHANGED opts
  BY DEF Query, Return, CallStep, Reject, StartRdap, StartWhois, RdapStep, RdapAnswers, RdapFails,
         FallBack, ResolveStep, ResolveFails, ResolveAnswers, ExchangeFails, ExchangeAnswers,
         ReferralDropped, ReferralMerged
<1>4. CASE UNCHANGED resolving
  BY <1>2, <1>3, <1>4
<1>5. CASE Cache!CacheStep(c) \/ Cache!Resolved(c) \/ (\E k \in Cache!Keys : Cache!Resolve(c, k))
  <2>1. \A d \in Callers : d # c => resolving'[d] = resolving[d]
    BY <1>1, <1>5, CacheStepOwn, ResolvedOwn, ResolveOwn
  <2>2. QED
    BY <1>1, <1>2, <1>3, <1>5, <2>1, StepUnserved
<1>6. ASSUME StartWhois(c) \/ FallBack(c) PROVE \E k \in Cache!Keys : Cache!Resolve(c, k)
  <2>1. call[c].obj \in Objects /\ call[c].obj \notin ASNs /\ Cache!Resolve(c, KeyOf(call[c].obj))
    BY <1>1, <1>6 DEF StartWhois, FallBack, RdapReturns, UsesRdap, MayFallBack, CallOK
  <2>2. KeyOf(call[c].obj) \in Cache!Keys
    BY <2>1, KeyOfKeys
  <2>3. QED
    BY <2>1, <2>2
<1>7. ASSUME ResolveStep(c) \/ ResolveFails(c) \/ ResolveAnswers(c)
      PROVE  Cache!CacheStep(c) \/ Cache!Resolved(c)
  BY <1>7 DEF ResolveStep, ResolveFails, ResolveAnswers
<1>8. ASSUME \/ Query(c) \/ Return(c) \/ Reject(c) \/ StartRdap(c) \/ RdapStep(c) \/ RdapAnswers(c)
             \/ RdapFails(c) \/ ExchangeFails(c) \/ ExchangeAnswers(c) \/ ReferralDropped(c)
             \/ ReferralMerged(c)
      PROVE  UNCHANGED resolving
  BY <1>8 DEF Query, Return, Reject, StartRdap, RdapStep, RdapAnswers, RdapFails, ExchangeFails,
              ExchangeAnswers, ReferralDropped, ReferralMerged, cacheVars
<1>9. QED
  BY <1>4, <1>5, <1>6, <1>7, <1>8 DEF CallStep

LEMMA DeliveredAccounts ==
  ASSUME ClientInv, NEW c \in Callers, CallAccounts(call[c], resolving[c]),
         NEW r, Deliver(c, r), Accounted(call[c].obj, r.errs), Unserved(resolving'[c])
  PROVE  CallAccounts(call'[c], resolving'[c])
<1>1. /\ call'[c].at = "done" /\ call'[c].result = r /\ call'[c].obj = call[c].obj
      /\ call'[c].rdapErr = call[c].rdapErr
  BY DEF Deliver, ClientInv, CallType
<1>2. QED
  BY <1>1 DEF CallAccounts, Unserved

LEMMA NothingToAccount == \A o : Accounted(o, {})
  BY DEF Accounted

\* WHOIS fails: the error of RDAP is reported with it if there was one.
LEMMA WhoisFailsAccounts ==
  ASSUME ClientInv, NEW c \in Callers, CallAccounts(call[c], resolving[c]),
         NEW err \in {"whois", "NoWhoisServer"}, WhoisFails(c, err),
         call[c].at \in {"resolve", "exchange"}, Unserved(resolving'[c]),
         err = "NoWhoisServer" =>
           /\ Cache!Override(KeyOf(call[c].obj)) = NoServer
           /\ Cache!TableEntry(KeyOf(call[c].obj)) = NoServer
  PROVE  CallAccounts(call'[c], resolving'[c])
<1> DEFINE errs == {err} \cup IF call[c].rdapErr = "failed" THEN {"rdap"} ELSE {}
<1>1. Deliver(c, Error(errs)) /\ Error(errs).errs = errs
  BY DEF WhoisFails, Error, NoResult
<1>2. "NoRDAP" \notin errs
  OBVIOUS
<1>3. "rdap" \in errs <=> call[c].rdapErr = "failed"
  OBVIOUS
<1>4. "NoWhoisServer" \in errs => err = "NoWhoisServer"
  OBVIOUS
<1>5. call[c].rdapErr \in {"none", "NoRDAP", "failed"}
  BY DEF ClientInv, CallType
<1> HIDE DEF errs
<1>6. Accounted(call[c].obj, errs)
  BY <1>2, <1>3, <1>4, <1>5 DEF Accounted, CallAccounts, UsesRdap
<1>7. QED
  BY <1>1, <1>6, DeliveredAccounts

LEMMA StepAccounts ==
  ASSUME AccountInv, [Next]_vars
  PROVE  \A c \in Callers : CallAccounts(call'[c], resolving'[c])
<1>1. ClientInv /\ call \in [Callers -> CallType]
  BY DEF AccountInv, ClientInv
<1>2. \A c \in Callers : CallAccounts(call[c], resolving[c]) /\ CallOK(call[c], fetch[c], resolving[c])
  BY DEF AccountInv, ClientInv
<1>3. \A c \in Callers : Unserved(resolving[c])
  BY <1>2 DEF CallAccounts, Unserved
<1>4. ASSUME NEW c \in Callers, Query(c) \/ CallStep(c) \/ Return(c)
      PROVE  Unserved(resolving'[c])
  BY <1>1, <1>3, <1>4, StepOwn
<1>5. ASSUME NEW c \in Callers, Query(c) \/ Return(c)
      PROVE  CallAccounts(call'[c], resolving'[c])
  <2>1. /\ call'[c].at \in {"idle", "start"} /\ call'[c].rdapErr = "none"
        /\ call'[c].result.errs = {}
    BY <1>1, <1>5, QueryOrReturn DEF NoResult
  <2>2. QED
    BY <1>4, <1>5, <2>1, NothingToAccount DEF CallAccounts, Unserved
<1>6. ASSUME NEW c \in Callers, StartRdap(c) \/ StartWhois(c) \/ ResolveAnswers(c)
      PROVE  CallAccounts(call'[c], resolving'[c])
  <2>1. /\ call'[c].obj = call[c].obj /\ call'[c].rdapErr = call[c].rdapErr
        /\ call'[c].result = call[c].result
    BY <1>1, <1>6 DEF StartRdap, StartWhois, ResolveAnswers, CallType
  <2>2. Unserved(resolving'[c])
    BY <1>4, <1>6 DEF CallStep
  <2>3. CASE StartRdap(c)
    <3>1. call'[c].at = "rdap" /\ call[c].at = "start" /\ UsesRdap(call[c].obj)
      BY <1>1, <2>3 DEF StartRdap, CallType
    <3>2. QED
      BY <1>2, <2>1, <2>2, <3>1 DEF CallAccounts, Unserved
  <2>4. CASE StartWhois(c)
    <3>1. call'[c].at = "resolve" /\ call[c].at = "start" /\ ~ opts.preferRDAP
      BY <1>1, <2>4 DEF StartWhois, UsesRdap, CallType
    <3>2. QED
      BY <1>2, <2>1, <2>2, <3>1 DEF CallAccounts, Unserved
  <2>5. CASE ResolveAnswers(c)
    <3>1. call'[c].at = "exchange" /\ call[c].at = "resolve"
      BY <1>1, <2>5 DEF ResolveAnswers, CallType
    <3>2. QED
      BY <1>2, <2>1, <2>2, <3>1 DEF CallAccounts, Unserved
  <2>6. QED
    BY <1>6, <2>3, <2>4, <2>5
<1>7. ASSUME NEW c \in Callers, RdapReturns(c)
      PROVE  /\ call[c].at = "rdap" /\ UsesRdap(call[c].obj) /\ call[c].rdapErr = "none"
             /\ fetch[c].outcome = "NoRDAP" => call[c].obj \notin Deployed
  <2>1. call[c].at = "rdap" /\ fetch[c].obj = call[c].obj
    BY <1>2, <1>7 DEF RdapReturns, CallOK
  <2>2. QED
    BY <1>1, <1>2, <2>1, FetchShape DEF CallAccounts, ClientInv
<1>8. ASSUME NEW c \in Callers, FallBack(c) PROVE CallAccounts(call'[c], resolving'[c])
  <2>1. /\ RdapReturns(c) /\ fetch[c].outcome \in {"NoRDAP", "failed"}
        /\ MayFallBack(call[c].obj)
    BY <1>8 DEF FallBack
  <2>2. /\ call'[c].at = "resolve" /\ call'[c].obj = call[c].obj
        /\ call'[c].result = call[c].result
        /\ call'[c].rdapErr = IF call[c].obj \in Domains THEN fetch[c].outcome ELSE call[c].rdapErr
    BY <1>1, <1>8 DEF FallBack, CallType
  <2>3. opts.preferRDAP
    BY <1>7, <2>1 DEF UsesRdap, MayFallBack
  <2>4. Unserved(resolving'[c])
    BY <1>4, <1>8 DEF CallStep
  <2>5. QED
    BY <1>2, <1>7, <2>1, <2>2, <2>3, <2>4 DEF CallAccounts, Unserved
<1>9. ASSUME NEW c \in Callers, RdapFails(c) PROVE CallAccounts(call'[c], resolving'[c])
  <2> DEFINE errs == {IF fetch[c].outcome = "NoRDAP" THEN "NoRDAP" ELSE "rdap"}
  <2>1. /\ RdapReturns(c) /\ ~ MayFallBack(call[c].obj) /\ Deliver(c, Error(errs))
    BY <1>9 DEF RdapFails
  <2>2. Error(errs).errs = errs
    BY DEF Error, NoResult
  <2>3. /\ "NoRDAP" \in errs => fetch[c].outcome = "NoRDAP"
        /\ "whois" \notin errs /\ "NoWhoisServer" \notin errs
    OBVIOUS
  <2> HIDE DEF errs
  <2>4. Accounted(call[c].obj, errs)
    BY <1>7, <2>1, <2>3 DEF Accounted
  <2>5. Unserved(resolving'[c])
    BY <1>4, <1>9 DEF CallStep
  <2>6. QED
    BY <1>1, <1>2, <2>1, <2>2, <2>4, <2>5, DeliveredAccounts
<1>10. ASSUME NEW c \in Callers, Reject(c) PROVE CallAccounts(call'[c], resolving'[c])
  <2>1. Error({"input"}).errs = {"input"} /\ Deliver(c, Error({"input"}))
    BY <1>10 DEF Reject, Error, NoResult
  <2>2. Accounted(call[c].obj, {"input"})
    BY DEF Accounted
  <2>3. Unserved(resolving'[c])
    BY <1>4, <1>10 DEF CallStep
  <2>4. QED
    BY <1>1, <1>2, <2>1, <2>2, <2>3, DeliveredAccounts
<1>11. ASSUME NEW c \in Callers, ResolveFails(c) PROVE CallAccounts(call'[c], resolving'[c])
  <2> DEFINE err == IF resolving[c].err = "iana" THEN "whois" ELSE "NoWhoisServer"
  <2>1. /\ WhoisFails(c, err) /\ call[c].at = "resolve" /\ resolving[c].err # "none"
        /\ resolving[c].key = KeyOf(call[c].obj)
    BY <1>2, <1>11 DEF ResolveFails, CallOK
  <2>2. err = "NoWhoisServer" => resolving[c].err = "NoWhoisServer"
    BY <1>1, <2>1, CacheShape DEF ClientInv
  <2>3. err \in {"whois", "NoWhoisServer"}
    OBVIOUS
  <2> HIDE DEF err
  <2>4. Unserved(resolving'[c])
    BY <1>4, <1>11 DEF CallStep
  <2>5. QED
    BY <1>1, <1>2, <1>3, <2>1, <2>2, <2>3, <2>4, WhoisFailsAccounts DEF Unserved
<1>12. ASSUME NEW c \in Callers, ExchangeFails(c) PROVE CallAccounts(call'[c], resolving'[c])
  <2>1. WhoisFails(c, "whois") /\ call[c].at = "exchange"
    BY <1>12 DEF ExchangeFails
  <2>2. Unserved(resolving'[c])
    BY <1>4, <1>12 DEF CallStep
  <2>3. QED
    BY <1>1, <1>2, <2>1, <2>2, WhoisFailsAccounts
<1>13. ASSUME NEW c \in Callers, NEW r, Deliver(c, r), r.errs = {}, CallStep(c)
       PROVE  CallAccounts(call'[c], resolving'[c])
  BY <1>1, <1>2, <1>4, <1>13, NothingToAccount, DeliveredAccounts
<1>14. ASSUME NEW c \in Callers, RdapAnswers(c) PROVE CallAccounts(call'[c], resolving'[c])
  <2> DEFINE r == [NoResult EXCEPT !.source = "rdap", !.found = (fetch[c].outcome = "found"),
                                   !.server = fetch[c].url, !.raw = fetch[c].url]
  <2>1. Deliver(c, r) /\ CallStep(c)
    BY <1>14 DEF RdapAnswers, CallStep
  <2>2. r.errs = {}
    BY DEF NoResult
  <2> HIDE DEF r
  <2>3. QED
    BY <1>13, <2>1, <2>2
<1>15. ASSUME NEW c \in Callers, ExchangeAnswers(c) PROVE CallAccounts(call'[c], resolving'[c])
  <2>1. PICK reply \in WhoisReplies :
          IF Refers(c, reply)
          THEN call' = [call EXCEPT ![c].at = "referral", ![c].refer = reply.refer,
                                    ![c].parsed = Parsed(reply, call[c].server)]
          ELSE Deliver(c, WhoisRecord(c, Registered(reply), Parsed(reply, call[c].server)))
    BY <1>15 DEF ExchangeAnswers, HonestReplies
  <2>2. call[c].at = "exchange" /\ CallStep(c)
    BY <1>15 DEF ExchangeAnswers, CallStep
  <2>3. CASE Refers(c, reply)
    <3>1. /\ call'[c].at = "referral" /\ call'[c].obj = call[c].obj
          /\ call'[c].rdapErr = call[c].rdapErr /\ call'[c].result = call[c].result
      BY <1>1, <2>1, <2>3 DEF CallType
    <3>2. QED
      BY <1>2, <1>4, <2>2, <3>1 DEF CallAccounts, Unserved
  <2>4. CASE ~ Refers(c, reply)
    <3> DEFINE w == WhoisRecord(c, Registered(reply), Parsed(reply, call[c].server))
    <3>1. Deliver(c, w)
      BY <2>1, <2>4
    <3>2. w.errs = {}
      BY DEF WhoisRecord, NoResult
    <3> HIDE DEF w
    <3>3. QED
      BY <1>13, <2>2, <3>1, <3>2
  <2>5. QED
    BY <2>3, <2>4
<1>16. ASSUME NEW c \in Callers, ReferralDropped(c) PROVE CallAccounts(call'[c], resolving'[c])
  <2> DEFINE w == WhoisRecord(c, TRUE, call[c].parsed)
  <2>1. Deliver(c, w) /\ CallStep(c)
    BY <1>16 DEF ReferralDropped, CallStep
  <2>2. w.errs = {}
    BY DEF WhoisRecord, NoResult
  <2> HIDE DEF w
  <2>3. QED
    BY <1>13, <2>1, <2>2
<1>17. ASSUME NEW c \in Callers, ReferralMerged(c) PROVE CallAccounts(call'[c], resolving'[c])
  <2>1. PICK reply \in WhoisReplies :
          Deliver(c, [WhoisRecord(c, TRUE,
                                  MergeParsed(Parsed(reply, call[c].refer), call[c].parsed))
                        EXCEPT !.raw = call[c].refer, !.registryRaw = call[c].server])
    BY <1>17 DEF ReferralMerged
  <2> DEFINE w == WhoisRecord(c, TRUE, MergeParsed(Parsed(reply, call[c].refer), call[c].parsed))
  <2> DEFINE r == [w EXCEPT !.raw = call[c].refer, !.registryRaw = call[c].server]
  <2>2. Deliver(c, r) /\ CallStep(c)
    BY <1>17, <2>1 DEF CallStep
  <2>3. r.errs = {}
    BY DEF WhoisRecord, NoResult
  <2> HIDE DEF r
  <2>4. QED
    BY <1>13, <2>2, <2>3
<1>18. ASSUME NEW c \in Callers, RdapStep(c) \/ ResolveStep(c)
       PROVE  CallAccounts(call'[c], resolving'[c])
  <2>1. call'[c] = call[c] /\ CallStep(c)
    BY <1>18 DEF RdapStep, ResolveStep, CallStep
  <2>2. QED
    BY <1>2, <1>4, <2>1 DEF CallAccounts, Unserved
<1>19. ASSUME NEW c \in Callers, Query(c) \/ CallStep(c) \/ Return(c)
       PROVE  \A d \in Callers : CallAccounts(call'[d], resolving'[d])
  <2>1. CallAccounts(call'[c], resolving'[c])
    BY <1>5, <1>6, <1>8, <1>9, <1>10, <1>11, <1>12, <1>14, <1>15, <1>16, <1>17, <1>18, <1>19
    DEF CallStep
  <2>2. ASSUME NEW d \in Callers, d # c PROVE CallAccounts(call'[d], resolving'[d])
    BY <1>1, <1>2, <1>19, <2>2, StepOwn
  <2>3. QED
    BY <2>1, <2>2
<1>20. CASE UNCHANGED vars
  BY <1>2, <1>20 DEF vars
<1>21. QED
  BY <1>19, <1>20 DEF Next

(***************************************************************************)
(* The theorems.                                                           *)
(***************************************************************************)

\* At every moment the fetch and the lookup that work for a call are its own,
\* and the invariants of RdapQuery and ServerCache hold in the composition.
THEOREM ClientInvariant == Spec => []ClientInv
<1>1. ClientInv /\ [Next]_vars => ClientInv'
  BY StepInv
<1>2. QED
  BY InitInv, <1>1, PTL DEF Spec

\* Client.tla's variables always have their types (TypeOK).
THEOREM ClientTyped == Spec => []TypeOK
<1>1. ClientInv => TypeOK
  BY DEF ClientInv, TypeOK, Rdap!FetchInv, Cache!CacheInv
<1>2. QED
  BY <1>1, ClientInvariant, PTL

\* What a call's fetch says is true of its object, and comes from an authority
\* (rdapGet, within QueryContext, QueryIPContext and QueryASNContext).
THEOREM ClientFetchesTruly == Spec => []Truthful
<1>1. ClientInv => Truthful
  BY DEF ClientInv, Rdap!FetchInv, Rdap!Coherent, Truthful, Rdap!Truthful
<1>2. QED
  BY <1>1, ClientInvariant, PTL

\* A record's Server is never the redirector that was asked first.
THEOREM ClientAnsweredByAuthority == Spec => []AnsweredByAuthority
<1>1. ClientInv => AnsweredByAuthority
  BY DEF ClientInv, Rdap!FetchInv, Rdap!Coherent, AnsweredByAuthority, Rdap!AnsweredByAuthority
<1>2. QED
  BY <1>1, ClientInvariant, PTL

\* A record comes from the server that the call's own object leads to,
\* whatever other goroutines look up through serverCache meanwhile.
THEOREM ClientAsksOwnServer == Spec => []AskedOwnServer
<1>1. ClientInv => AskedOwnServer
  BY DEF ClientInv, CallOK, AskedOwnServer
<1>2. QED
  BY <1>1, ClientInvariant, PTL

\* A Client runs rdapGet by RdapQuery's rules.
THEOREM ClientImplementsRdapQuery == Spec => ObeysRdapQuery
<1>1. Init => Rdap!FetchInit
  BY DEF Init
<1>2. ClientInv /\ [Next]_vars => [Rdap!FetchNext]_fetch
  BY StepObeysRdap
<1>3. QED
  BY <1>1, <1>2, ClientInvariant, PTL DEF Spec, ObeysRdapQuery

\* A Client uses the server cache by ServerCache's rules.
THEOREM ClientImplementsServerCache == Spec => ObeysServerCache
<1>1. Init => Cache!CacheInit
  BY DEF Init
<1>2. ClientInv /\ [Next]_vars => [Cache!CacheNext]_cacheVars
  BY StepObeysCache
<1>3. QED
  BY <1>1, <1>2, ClientInvariant, PTL DEF Spec, ObeysServerCache

\* Whatever a call is told is true of its object, if replies are legible.
THEOREM ClientIsTrue ==
  ASSUME Legible
  PROVE  Spec => []TrueInv
<1>1. Init => TrueInv
  <2>1. ASSUME Init, NEW c \in Callers PROVE CallTrue(call[c])
    BY <2>1 DEF Init, NoCall, CallTrue
  <2>2. QED
    BY <2>1, InitInv DEF TrueInv
<1>2. TrueInv /\ [Next]_vars => TrueInv'
  BY StepInv, StepTrue DEF TrueInv
<1>3. QED
  BY <1>1, <1>2, PTL DEF Spec

\* The Client implements the safety of LookupPromise: each call is answered
\* once, with an error or the truth about its own object.
THEOREM ClientAnswersTruly ==
  ASSUME Legible
  PROVE  Spec => AnswersTruly
<1>1. Spec => []TrueInv
  BY ClientIsTrue
<1>2. TrueInv /\ TrueInv' /\ [Next]_vars => [Promise!PromiseNext]_(Promise!promiseVars)
  BY StepPromise
<1>3. QED
  BY <1>1, <1>2, InitPromise, PTL DEF Spec, AnswersTruly

\* An error speaks of the protocols that were tried, and of nothing else
\* (QueryContext, QueryIPContext, QueryASNContext).
THEOREM ClientAccountsForErrors == Spec => []ErrorsAccount
<1>1. Init => AccountInv
  <2>1. ASSUME Init, NEW c \in Callers PROVE CallAccounts(call[c], resolving[c])
    <3>1. call[c] = NoCall /\ resolving[c].err = "none"
      BY <2>1 DEF Init, Cache!CacheInit, Cache!NotResolving
    <3>2. QED
      BY <3>1, NothingToAccount DEF CallAccounts, NoCall, NoResult
  <2>2. QED
    BY <2>1, InitInv DEF AccountInv
<1>2. AccountInv /\ [Next]_vars => AccountInv'
  <2>1. ASSUME AccountInv, [Next]_vars PROVE AccountInv'
    <3>1. ClientInv' /\ \A c \in Callers : CallAccounts(call'[c], resolving'[c])
      BY <2>1, StepInv, StepAccounts DEF AccountInv
    <3>2. UNCHANGED opts
      BY <2>1, StepOwn DEF AccountInv, Next, vars
    <3>3. QED
      BY <3>1, <3>2 DEF AccountInv, CallAccounts, Accounted, UsesRdap, MayFallBack
  <2>2. QED
    BY <2>1
<1>3. AccountInv => ErrorsAccount
  BY DEF AccountInv, CallAccounts, ErrorsAccount
<1>4. QED
  BY <1>1, <1>2, <1>3, PTL DEF Spec

\* A referral only adds to what the registry published, and says whose each
\* field is (whoisQuery, mergeParsed).
THEOREM ClientReferralOnlyAdds == Spec => []ReferralOnlyAdds
<1>1. Init => AddsInv
  <2>1. ASSUME Init, NEW c \in Callers PROVE CallAdds(call[c])
    BY <2>1 DEF Init, NoCall, NoResult, CallAdds, OnlyAdds
  <2>2. QED
    BY <2>1, InitInv DEF AddsInv
<1>2. AddsInv /\ [Next]_vars => AddsInv'
  BY StepInv, StepAdds DEF AddsInv
<1>3. AddsInv => ReferralOnlyAdds
  BY DEF AddsInv, CallAdds, ReferralOnlyAdds
<1>4. QED
  BY <1>1, <1>2, <1>3, PTL DEF Spec

=============================================================================
