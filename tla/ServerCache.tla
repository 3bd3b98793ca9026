---------------------------- MODULE ServerCache ----------------------------
(***************************************************************************)
(* How a Client finds the port-43 server to ask: resolveServer for a TLD   *)
(* (whois.go) and resolveRIR for an address (ip.go), over the one piece of *)
(* state that the goroutines sharing a Client share, the sync.Map          *)
(* serverCache.  Each Load and each Store is a step of its own; between a  *)
(* miss and the Store that ends it lies a network exchange with            *)
(* whois.iana.org, so other callers interleave there.                      *)
(***************************************************************************)
EXTENDS Naturals

CONSTANTS
  Callers,    \* goroutines that share one Client
  TLDs,       \* top-level domains
  Addresses,  \* IP addresses in canonical form
  Servers,    \* port-43 servers
  NoServer,   \* no entry, no server
  Overrides,  \* Overrides[t]: the server WithWhoisServer pins for t
  Table,      \* Table[t]: the embedded whoisServers entry of t
  Referrals   \* Referrals[k]: the servers IANA may refer key k to, over time

\* The cache's keys: a TLD as it is, an address behind the prefix "rir:".
TldKey(t) == <<"tld", t>>
RirKey(a) == <<"rir", a>>
Keys == {TldKey(t) : t \in TLDs} \cup {RirKey(a) : a \in Addresses}

ASSUME CacheAssumption ==
  /\ Keys # {}
  /\ NoServer \notin Servers
  /\ Overrides \in [TLDs -> Servers \cup {NoServer}]
  /\ Table \in [TLDs -> Servers \cup {NoServer}]
  /\ Referrals \in [Keys -> SUBSET Servers]

VARIABLES
  serverCache,  \* c.serverCache
  resolving,    \* resolving[c]: the resolveServer or resolveRIR call of c
  discovered    \* discovered[c][k]: IANA referrals that c has got for k (history)

cacheVars == <<serverCache, resolving, discovered>>

\* err is "iana" for a failed lookup, "NoWhoisServer" for one without a server.
NotResolving == [at |-> "idle", key |-> CHOOSE k \in Keys : TRUE,
                 server |-> NoServer, err |-> "none"]

CacheInit ==
  /\ serverCache = [k \in Keys |-> NoServer]
  /\ resolving = [c \in Callers |-> NotResolving]
  /\ discovered = [c \in Callers |-> [k \in Keys |-> 0]]

Override(k) == IF k[1] = "tld" THEN Overrides[k[2]] ELSE NoServer
TableEntry(k) == IF k[1] = "tld" THEN Table[k[2]] ELSE NoServer

-----------------------------------------------------------------------------
Done(c, server, err) ==
  resolving' = [resolving EXCEPT ![c].at = "done", ![c].server = server, ![c].err = err]

\* Faulty: WithWhoisServer is not looked at.
ResolveUnpinned(c, k) ==
  /\ resolving[c].at = "idle"
  /\ resolving' = [resolving EXCEPT ![c] = [NotResolving EXCEPT !.at = "load", !.key = k]]
  /\ UNCHANGED <<serverCache, discovered>>

\* The call starts: a pinned server ends it, for a TLD.
Resolve(c, k) ==
  /\ resolving[c].at = "idle"
  /\ resolving' = [resolving EXCEPT ![c] =
       IF Override(k) # NoServer
       THEN [NotResolving EXCEPT !.at = "done", !.key = k, !.server = Override(k)]
       ELSE [NotResolving EXCEPT !.at = "load", !.key = k]]
  /\ UNCHANGED <<serverCache, discovered>>

\* serverCache.Load: a hit ends the call.
LoadHit(c) ==
  /\ resolving[c].at = "load" /\ serverCache[resolving[c].key] # NoServer
  /\ Done(c, serverCache[resolving[c].key], "none")
  /\ UNCHANGED <<serverCache, discovered>>

\* Faulty: what Load returns is not looked at.
LoadMissAlways(c) ==
  /\ resolving[c].at = "load"
  /\ resolving' = [resolving EXCEPT ![c].at = "missed"]
  /\ UNCHANGED <<serverCache, discovered>>

LoadMiss(c) ==
  /\ resolving[c].at = "load" /\ serverCache[resolving[c].key] = NoServer
  /\ resolving' = [resolving EXCEPT ![c].at = "missed"]
  /\ UNCHANGED <<serverCache, discovered>>

\* The embedded table has the TLD: its entry is stored and returned.
StoreTable(c) ==
  /\ resolving[c].at = "missed" /\ TableEntry(resolving[c].key) # NoServer
  /\ serverCache' = [serverCache EXCEPT ![resolving[c].key] = TableEntry(resolving[c].key)]
  /\ Done(c, TableEntry(resolving[c].key), "none")
  /\ UNCHANGED discovered

AskingIana(c) == resolving[c].at = "missed" /\ TableEntry(resolving[c].key) = NoServer

\* Faulty: a failed lookup is tried again.
IanaFailsRetrying(c) ==
  /\ AskingIana(c)
  /\ resolving' = [resolving EXCEPT ![c].err = IF @ = "iana" THEN "none" ELSE "iana"]
  /\ UNCHANGED <<serverCache, discovered>>

IanaFails(c) ==
  /\ AskingIana(c) /\ Done(c, NoServer, "iana")
  /\ UNCHANGED <<serverCache, discovered>>

\* The answer holds no "whois:" or "refer:" value: parseIANAReferral is "".
IanaSilent(c) ==
  /\ AskingIana(c) /\ Done(c, NoServer, "NoWhoisServer")
  /\ UNCHANGED <<serverCache, discovered>>

IanaRefers(c) ==
  /\ AskingIana(c)
  /\ \E s \in Referrals[resolving[c].key] :
       resolving' = [resolving EXCEPT ![c].at = "referred", ![c].server = s]
  /\ discovered' = [discovered EXCEPT ![c][resolving[c].key] = @ + 1]
  /\ UNCHANGED serverCache

\* Faulty: the referral is returned and never stored.
StoreReferralForgotten(c) ==
  /\ resolving[c].at = "referred"
  /\ resolving' = [resolving EXCEPT ![c].at = "done"]
  /\ UNCHANGED <<serverCache, discovered>>

\* Faulty: the key is stored where the server belongs.
StoreReferralMixedUp(c) ==
  /\ resolving[c].at = "referred"
  /\ serverCache' = [serverCache EXCEPT ![resolving[c].key] = resolving[c].key]
  /\ resolving' = [resolving EXCEPT ![c].at = "done"]
  /\ UNCHANGED discovered

\* serverCache.Store, whatever another caller has stored meanwhile.
StoreReferral(c) ==
  /\ resolving[c].at = "referred"
  /\ serverCache' = [serverCache EXCEPT ![resolving[c].key] = resolving[c].server]
  /\ resolving' = [resolving EXCEPT ![c].at = "done"]
  /\ UNCHANGED discovered

\* The caller takes the server or the error.
Resolved(c) ==
  /\ resolving[c].at = "done"
  /\ resolving' = [resolving EXCEPT ![c] = NotResolving]
  /\ UNCHANGED <<serverCache, discovered>>

CacheStep(c) ==
  \/ LoadHit(c) \/ LoadMiss(c) \/ StoreTable(c) \/ IanaFails(c)
  \/ IanaSilent(c) \/ IanaRefers(c) \/ StoreReferral(c)

CacheNext ==
  \E c \in Callers : CacheStep(c) \/ Resolved(c) \/ \E k \in Keys : Resolve(c, k)

\* A call goes on: the exchange with IANA has a deadline.
CacheFairness == \A c \in Callers : WF_cacheVars(CacheStep(c))

CacheSpec == CacheInit /\ [][CacheNext]_cacheVars /\ CacheFairness

-----------------------------------------------------------------------------
CacheTypeOK ==
  /\ serverCache \in [Keys -> Servers \cup {NoServer}]
  /\ resolving \in [Callers -> [at : {"idle", "load", "missed", "referred", "done"},
                                key : Keys, server : Servers \cup {NoServer},
                                err : {"none", "iana", "NoWhoisServer"}]]
  /\ discovered \in [Callers -> [Keys -> Nat]]

\* The servers that the configuration and IANA give for a key, the pinned
\* one before the table's before IANA's.
Rightful(k) ==
  IF Override(k) # NoServer THEN {Override(k)}
  ELSE IF TableEntry(k) # NoServer THEN {TableEntry(k)}
  ELSE Referrals[k]

\* Whoever stored an entry, and for whatever key it was working at the time,
\* a key's entry is a server that the key's own lookup could have given: no
\* TLD is ever asked at the server of another TLD or of an address.
OwnServer ==
  /\ \A k \in Keys : serverCache[k] \in Rightful(k) \cup {NoServer}
  /\ \A c \in Callers :
       resolving[c].at \in {"referred", "done"} /\ resolving[c].err = "none" =>
         resolving[c].server \in Rightful(resolving[c].key)

\* "Discovered at runtime through the IANA referral service and cached": a
\* goroutine gets IANA's referral for a key at most once in its life, so N
\* goroutines trouble IANA with at most N successful lookups per key.
DiscoveredOnce == \A c \in Callers, k \in Keys : discovered[c][k] <= 1

\* Why the two above hold.  A lookup that goes past the first test is of a
\* key that nobody pinned, one that IANA answered is of a key the table does
\* not list.  Whoever got a referral for k has stored it or is about to, so
\* a later lookup of its own hits: an entry never goes back to NoServer.
Discovery(c, k) ==
  \/ discovered[c][k] = 0
  \/ /\ discovered[c][k] = 1
     /\ serverCache[k] # NoServer \/ (resolving[c].at = "referred" /\ resolving[c].key = k)

Underway(c) ==
  LET r == resolving[c]
  IN /\ r.at \in {"load", "missed", "referred"} => Override(r.key) = NoServer /\ r.err = "none"
     /\ r.at = "missed" => discovered[c][r.key] = 0
     /\ r.at = "referred" => r.server \in Servers

CacheInv ==
  /\ CacheTypeOK
  /\ OwnServer
  /\ \A c \in Callers : Underway(c) /\ \A k \in Keys : Discovery(c, k)

\* Nobody is between a miss of k and the Store that would follow it.
Settled(k) ==
  /\ serverCache[k] # NoServer
  /\ \A c \in Callers :
       ~ (resolving[c].at \in {"missed", "referred"} /\ resolving[c].key = k)

\* Racing discoveries may replace each other's entry, but once those that
\* missed are over the entry stands for the life of the Client.
SettledForever ==
  [][\A k \in Keys : Settled(k) => serverCache'[k] = serverCache[k] /\ Settled(k)']_cacheVars

\* Every lookup ends in a server or an error.
LookupEnds == \A c \in Callers : resolving[c].at = "load" ~> resolving[c].at = "done"
=============================================================================
