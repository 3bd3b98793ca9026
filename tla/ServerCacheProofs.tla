------------------------- MODULE ServerCacheProofs -------------------------
(***************************************************************************)
(* What holds of the server cache for any number of goroutines, keys and   *)
(* servers and whatever IANA answers over time: its type, that an entry    *)
(* belongs to its key, that a goroutine discovers a key once, and that an  *)
(* entry nobody is about to replace stands.  CacheInv is inductive; the    *)
(* state of the cache enters it only through Discovery, because an entry   *)
(* once made is replaced but never removed.                                *)
(***************************************************************************)
EXTENDS ServerCache, TLAPS

\* A server that is pinned or listed for a key is a server.
LEMMA EntryTypes ==
  ASSUME NEW k \in Keys
  PROVE  Override(k) \in Servers \cup {NoServer} /\ TableEntry(k) \in Servers \cup {NoServer}
<1>1. CASE \E t \in TLDs : k = TldKey(t)
  <2>1. PICK t \in TLDs : k = TldKey(t)
    BY <1>1
  <2>2. k[1] = "tld" /\ k[2] = t
    BY <2>1 DEF TldKey
  <2>3. QED
    BY <2>2, CacheAssumption DEF Override, TableEntry
<1>2. CASE \E a \in Addresses : k = RirKey(a)
  <2>1. k[1] = "rir"
    BY <1>2 DEF RirKey
  <2>2. QED
    BY <2>1 DEF Override, TableEntry
<1>3. QED
  BY <1>1, <1>2 DEF Keys

LEMMA RightfulServers == ASSUME NEW k \in Keys PROVE Rightful(k) \subseteq Servers
  BY EntryTypes, CacheAssumption DEF Rightful

Call == [at : {"idle", "load", "missed", "referred", "done"}, key : Keys,
         server : Servers \cup {NoServer}, err : {"none", "iana", "NoWhoisServer"}]

LEMMA NotResolvingType ==
  /\ NotResolving \in Call
  /\ NotResolving.at = "idle" /\ NotResolving.server = NoServer /\ NotResolving.err = "none"
<1>1. (CHOOSE k \in Keys : TRUE) \in Keys
  BY CacheAssumption
<1>2. QED
  BY <1>1 DEF NotResolving, Call

\* A step is a caller's own: it rewrites the caller's call, it may add to
\* what the caller has discovered, and it may write the cache.  This says
\* what has to be shown of such a step.
LEMMA CallerStep ==
  ASSUME CacheInv,
         NEW c \in Callers, NEW r \in Call,
         resolving' = [resolving EXCEPT ![c] = r],
         serverCache' \in [Keys -> Servers \cup {NoServer}],
         discovered' \in [Callers -> [Keys -> Nat]],
         \A k \in Keys : serverCache[k] # NoServer => serverCache'[k] # NoServer,
         \A k \in Keys : serverCache'[k] \in Rightful(k) \cup {NoServer},
         \A d \in Callers : d # c => discovered'[d] = discovered[d],
         r.at \in {"referred", "done"} /\ r.err = "none" => r.server \in Rightful(r.key),
         r.at \in {"load", "missed", "referred"} => Override(r.key) = NoServer /\ r.err = "none",
         r.at = "missed" => discovered'[c][r.key] = 0,
         \A k \in Keys :
           \/ discovered'[c][k] = 0
           \/ /\ discovered'[c][k] = 1
              /\ serverCache'[k] # NoServer \/ (r.at = "referred" /\ r.key = k)
  PROVE  CacheInv'
<1>1. resolving \in [Callers -> Call]
  BY DEF CacheInv, CacheTypeOK, Call
<1>2. \A d \in Callers : resolving'[d] = IF d = c THEN r ELSE resolving[d]
  BY <1>1
<1>3. CacheTypeOK'
  BY <1>1 DEF CacheTypeOK, Call
<1>4. OwnServer'
  <2>1. ASSUME NEW d \in Callers, resolving'[d].at \in {"referred", "done"}, resolving'[d].err = "none"
        PROVE  resolving'[d].server \in Rightful(resolving'[d].key)
    BY <1>2, <2>1 DEF CacheInv, OwnServer
  <2>2. QED
    BY <2>1 DEF OwnServer, Rightful, Override, TableEntry
<1>5. ASSUME NEW d \in Callers PROVE Underway(d)' /\ \A k \in Keys : Discovery(d, k)'
  <2>1. CASE d = c
    <3>1. resolving'[d] = r
      BY <1>2, <2>1
    <3>2. r.at = "referred" => r.server \in Servers
      BY RightfulServers DEF Call
    <3>3. QED
      BY <2>1, <3>1, <3>2 DEF Underway, Discovery, Override
  <2>2. CASE d # c
    <3>1. resolving'[d] = resolving[d] /\ discovered'[d] = discovered[d]
      BY <1>2, <2>2
    <3>2. Underway(d) /\ \A k \in Keys : Discovery(d, k)
      BY DEF CacheInv
    <3>3. QED
      BY <3>1, <3>2 DEF Underway, Discovery, Override
  <2>3. QED
    BY <2>1, <2>2
<1>6. QED
  BY <1>3, <1>4, <1>5 DEF CacheInv

LEMMA CacheInitInv == CacheInit => CacheInv
<1> SUFFICES ASSUME CacheInit PROVE CacheInv
  OBVIOUS
<1>1. CacheTypeOK
  BY NotResolvingType DEF CacheInit, CacheTypeOK, Call
<1>2. OwnServer
  BY NotResolvingType DEF CacheInit, OwnServer
<1>3. \A c \in Callers : Underway(c) /\ \A k \in Keys : Discovery(c, k)
  BY NotResolvingType DEF CacheInit, Underway, Discovery
<1>4. QED
  BY <1>1, <1>2, <1>3 DEF CacheInv

\* A step of a lookup preserves the invariant, one case per action.
LEMMA CacheStepInv == CacheInv /\ [CacheNext]_cacheVars => CacheInv'
<1> SUFFICES ASSUME CacheInv, [CacheNext]_cacheVars PROVE CacheInv'
  OBVIOUS
<1>1. /\ resolving \in [Callers -> Call]
      /\ serverCache \in [Keys -> Servers \cup {NoServer}]
      /\ discovered \in [Callers -> [Keys -> Nat]]
  BY DEF CacheInv, CacheTypeOK, Call
<1>2. \A k \in Keys : serverCache[k] \in Rightful(k) \cup {NoServer}
  BY DEF CacheInv, OwnServer
\* A step that only rewrites the call.
<1>3. ASSUME NEW c \in Callers, NEW r \in Call,
             resolving' = [resolving EXCEPT ![c] = r], UNCHANGED <<serverCache, discovered>>,
             resolving[c].at # "referred",
             r.at \in {"idle", "load", "missed", "done"},
             r.at = "done" /\ r.err = "none" => r.server \in Rightful(r.key),
             r.at \in {"load", "missed"} => Override(r.key) = NoServer /\ r.err = "none",
             r.at = "missed" => serverCache[r.key] = NoServer
      PROVE  CacheInv'
  <2>1. \A k \in Keys : discovered[c][k] = 0 \/ (discovered[c][k] = 1 /\ serverCache[k] # NoServer)
    BY <1>3 DEF CacheInv, Discovery
  <2>2. r.at = "missed" => discovered[c][r.key] = 0
    BY <1>3, <2>1 DEF Call
  <2>3. QED
    BY <1>1, <1>2, <1>3, <2>1, <2>2, CallerStep
<1>4. ASSUME NEW c \in Callers, NEW k \in Keys, Resolve(c, k) PROVE CacheInv'
  <2>1. CASE Override(k) # NoServer
    <3> DEFINE r == [NotResolving EXCEPT !.at = "done", !.key = k, !.server = Override(k)]
    <3>1. r \in Call /\ r.at = "done" /\ r.key = k /\ r.server = Override(k)
      BY NotResolvingType, EntryTypes DEF Call
    <3>2. r.server \in Rightful(r.key)
      BY <2>1, <3>1 DEF Rightful
    <3>3. resolving' = [resolving EXCEPT ![c] = r]
      BY <1>4, <2>1 DEF Resolve
    <3> HIDE DEF r
    <3>4. QED
      BY <1>3, <1>4, <3>1, <3>2, <3>3 DEF Resolve
  <2>2. CASE Override(k) = NoServer
    <3> DEFINE r == [NotResolving EXCEPT !.at = "load", !.key = k]
    <3>1. r \in Call /\ r.at = "load" /\ r.key = k /\ r.err = "none"
      BY NotResolvingType DEF Call
    <3>2. resolving' = [resolving EXCEPT ![c] = r]
      BY <1>4, <2>2 DEF Resolve
    <3> HIDE DEF r
    <3>3. QED
      BY <1>3, <1>4, <2>2, <3>1, <3>2 DEF Resolve
  <2>3. QED
    BY <2>1, <2>2
<1>5. ASSUME NEW c \in Callers, CacheStep(c) PROVE CacheInv'
  <2> DEFINE q == resolving[c]
             k == q.key
  <2>1. q \in Call /\ k \in Keys
    BY <1>1 DEF Call
  <2>2. Underway(c) /\ \A l \in Keys : Discovery(c, l)
    BY DEF CacheInv
  <2>3. CASE LoadHit(c)
    <3> DEFINE r == [q EXCEPT !.at = "done", !.server = serverCache[k], !.err = "none"]
    <3>1. r \in Call /\ r.at = "done" /\ r.key = k /\ r.server = serverCache[k]
      BY <1>1, <2>1 DEF Call
    <3>2. r.server \in Rightful(r.key)
      BY <1>2, <2>1, <2>3, <3>1 DEF LoadHit
    <3>3. resolving' = [resolving EXCEPT ![c] = r]
      BY <1>1, <2>3 DEF LoadHit, Done
    <3> HIDE DEF r
    <3>4. QED
      BY <1>3, <2>3, <3>1, <3>2, <3>3 DEF LoadHit
  <2>4. CASE LoadMiss(c)
    <3> DEFINE r == [q EXCEPT !.at = "missed"]
    <3>1. r \in Call /\ r.at = "missed" /\ r.key = k /\ r.err = q.err
      BY <2>1 DEF Call
    <3>2. Override(k) = NoServer /\ q.err = "none" /\ serverCache[k] = NoServer
      BY <2>2, <2>4 DEF LoadMiss, Underway
    <3>3. resolving' = [resolving EXCEPT ![c] = r]
      BY <1>1, <2>4 DEF LoadMiss
    <3> HIDE DEF r
    <3>4. QED
      BY <1>3, <2>4, <3>1, <3>2, <3>3, ZenonT(40) DEF LoadMiss
  <2>5. CASE StoreTable(c)
    <3> DEFINE s == TableEntry(k)
               r == [q EXCEPT !.at = "done", !.server = s, !.err = "none"]
    <3>1. s \in Servers /\ s \in Rightful(k)
      BY <2>1, <2>2, <2>5, EntryTypes DEF StoreTable, Underway, Rightful
    <3>2. r \in Call /\ r.at = "done" /\ r.key = k /\ r.server = s
      BY <2>1, <3>1 DEF Call
    <3>3. /\ serverCache' = [serverCache EXCEPT ![k] = s]
          /\ resolving' = [resolving EXCEPT ![c] = r]
          /\ discovered' = discovered
          /\ q.at = "missed"
      BY <1>1, <2>5 DEF StoreTable, Done
    <3> HIDE DEF r, s, q, k
    <3>4. \A l \in Keys : serverCache'[l] = IF l = k THEN s ELSE serverCache[l]
      BY <1>1, <3>3
    <3>5. s # NoServer
      BY <3>1, CacheAssumption
    <3>6. \A l \in Keys : discovered[c][l] = 0 \/ (discovered[c][l] = 1 /\ serverCache[l] # NoServer)
      BY <2>2, <3>3 DEF Discovery, q
    <3>7. serverCache' \in [Keys -> Servers \cup {NoServer}]
      BY <1>1, <3>1, <3>3
    <3>8. /\ \A l \in Keys : serverCache[l] # NoServer => serverCache'[l] # NoServer
          /\ \A l \in Keys : serverCache'[l] \in Rightful(l) \cup {NoServer}
      BY <1>2, <3>1, <3>4, <3>5
    <3>9. QED
      BY <1>1, <3>1, <3>2, <3>3, <3>6, <3>7, <3>8, CallerStep
  <2>6. CASE IanaFails(c) \/ IanaSilent(c)
    <3>1. PICK e \in {"iana", "NoWhoisServer"} : Done(c, NoServer, e)
      BY <2>6 DEF IanaFails, IanaSilent
    <3> DEFINE r == [q EXCEPT !.at = "done", !.server = NoServer, !.err = e]
    <3>2. r \in Call /\ r.at = "done" /\ r.err # "none"
      BY <2>1 DEF Call
    <3>3. resolving' = [resolving EXCEPT ![c] = r]
      BY <1>1, <3>1 DEF Done
    <3>4. UNCHANGED <<serverCache, discovered>> /\ q.at = "missed"
      BY <2>6 DEF IanaFails, IanaSilent, AskingIana
    <3> HIDE DEF r
    <3>5. QED
      BY <1>3, <3>2, <3>3, <3>4
  <2>7. CASE IanaRefers(c)
    <3>1. PICK s \in Referrals[k] :
            resolving' = [resolving EXCEPT ![c].at = "referred", ![c].server = s]
      BY <2>7 DEF IanaRefers
    <3> DEFINE r == [q EXCEPT !.at = "referred", !.server = s]
    <3>2. s \in Servers /\ s \in Rightful(k) /\ Override(k) = NoServer /\ q.err = "none"
      BY <2>1, <2>2, <2>7, <3>1, CacheAssumption DEF IanaRefers, AskingIana, Underway, Rightful
    <3>3. r \in Call /\ r.at = "referred" /\ r.key = k /\ r.server = s /\ r.err = "none"
      BY <2>1, <3>2 DEF Call
    <3>4. resolving' = [resolving EXCEPT ![c] = r]
      BY <1>1, <3>1
    <3>5. /\ discovered' = [discovered EXCEPT ![c][k] = @ + 1]
          /\ serverCache' = serverCache
          /\ q.at = "missed" /\ discovered[c][k] = 0
      BY <2>2, <2>7 DEF IanaRefers, AskingIana, Underway
    <3> HIDE DEF r, q, k
    <3>6. discovered' \in [Callers -> [Keys -> Nat]]
      <4>1. k \in Keys /\ discovered[c] \in [Keys -> Nat] /\ discovered[c][k] + 1 \in Nat
        BY <1>1, <2>1, <3>5 DEF k, q
      <4> DEFINE g == [discovered[c] EXCEPT ![k] = discovered[c][k] + 1]
      <4>2. g \in [Keys -> Nat]
        BY <4>1
      <4>3. discovered' = [discovered EXCEPT ![c] = g]
        BY <3>5
      <4> HIDE DEF g
      <4>4. QED
        BY <1>1, <4>2, <4>3
    <3>7. /\ \A l \in Keys : discovered'[c][l] = IF l = k THEN 1 ELSE discovered[c][l]
          /\ \A d \in Callers : d # c => discovered'[d] = discovered[d]
      BY <1>1, <2>1, <3>5
    <3>8. \A l \in Keys : discovered[c][l] = 0 \/ (discovered[c][l] = 1 /\ serverCache[l] # NoServer)
      BY <2>2, <3>5 DEF Discovery, q
    <3>9. \A l \in Keys :
             \/ discovered'[c][l] = 0
             \/ /\ discovered'[c][l] = 1
                /\ serverCache'[l] # NoServer \/ (r.at = "referred" /\ r.key = l)
      BY <3>3, <3>5, <3>7, <3>8
    <3>10. /\ \A l \in Keys : serverCache[l] # NoServer => serverCache'[l] # NoServer
           /\ \A l \in Keys : serverCache'[l] \in Rightful(l) \cup {NoServer}
           /\ serverCache' \in [Keys -> Servers \cup {NoServer}]
      BY <1>1, <1>2, <3>5
    <3>11. r.server \in Rightful(r.key) /\ Override(r.key) = NoServer /\ r.at # "missed"
      BY <3>2, <3>3
    <3>12. QED
      BY <3>3, <3>4, <3>6, <3>7, <3>9, <3>10, <3>11, CallerStep
  <2>8. CASE StoreReferral(c)
    <3> DEFINE s == q.server
               r == [q EXCEPT !.at = "done"]
    <3>1. s \in Servers /\ s \in Rightful(k) /\ q.err = "none"
      BY <2>1, <2>2, <2>8 DEF StoreReferral, Underway, CacheInv, OwnServer
    <3>2. r \in Call /\ r.at = "done" /\ r.key = k /\ r.server = s
      BY <2>1, <3>1 DEF Call
    <3>3. /\ serverCache' = [serverCache EXCEPT ![k] = s]
          /\ resolving' = [resolving EXCEPT ![c] = r]
          /\ discovered' = discovered
          /\ q.at = "referred"
      BY <1>1, <2>8 DEF StoreReferral
    <3> HIDE DEF r, s, q, k
    <3>4. \A l \in Keys : serverCache'[l] = IF l = k THEN s ELSE serverCache[l]
      BY <1>1, <3>3
    <3>5. s # NoServer
      BY <3>1, CacheAssumption
    <3>6. \A l \in Keys : discovered[c][l] = 0 \/ (discovered[c][l] = 1 /\ serverCache'[l] # NoServer)
      BY <2>2, <3>3, <3>4, <3>5 DEF Discovery, q, k
    <3>7. serverCache' \in [Keys -> Servers \cup {NoServer}]
      BY <1>1, <3>1, <3>3
    <3>8. /\ \A l \in Keys : serverCache[l] # NoServer => serverCache'[l] # NoServer
          /\ \A l \in Keys : serverCache'[l] \in Rightful(l) \cup {NoServer}
      BY <1>2, <3>1, <3>4, <3>5
    <3>9. QED
      BY <1>1, <3>1, <3>2, <3>3, <3>6, <3>7, <3>8, CallerStep
  <2>9. QED
    BY <1>5, <2>3, <2>4, <2>5, <2>6, <2>7, <2>8 DEF CacheStep
<1>6. ASSUME NEW c \in Callers, Resolved(c) PROVE CacheInv'
  BY <1>3, <1>6, NotResolvingType DEF Resolved
<1>7. CASE UNCHANGED cacheVars
  BY <1>7, ZenonT(40) DEF cacheVars, CacheInv, CacheTypeOK, OwnServer, Rightful, Override, TableEntry,
              Underway, Discovery
<1>8. QED
  BY <1>4, <1>5, <1>6, <1>7 DEF CacheNext

\* Every reachable state of the cache and its users satisfies the invariant.
THEOREM CacheInvariant == CacheSpec => []CacheInv
  BY CacheInitInv, CacheStepInv, PTL DEF CacheSpec

\* The state keeps its type: an entry is a server or there is none
\* (v.(string) in resolveServer and resolveRIR cannot fail).
THEOREM CacheTypeCorrect == CacheSpec => []CacheTypeOK
<1>1. CacheInv => CacheTypeOK
  BY DEF CacheInv
<1>2. QED
  BY <1>1, CacheInvariant, PTL

\* No key is ever resolved to another key's server, whoever filled the cache
\* (resolveServer, resolveRIR).
THEOREM CacheOwnServer == CacheSpec => []OwnServer
<1>1. CacheInv => OwnServer
  BY DEF CacheInv
<1>2. QED
  BY <1>1, CacheInvariant, PTL

\* A goroutine gets at most one referral per key (README: "discovered at
\* runtime through the IANA referral service and cached").
THEOREM CacheDiscoveredOnce == CacheSpec => []DiscoveredOnce
<1>1. CacheInv => DiscoveredOnce
  BY DEF CacheInv, Discovery, DiscoveredOnce
<1>2. QED
  BY <1>1, CacheInvariant, PTL

\* A step leaves a settled entry as it is, and settled.
LEMMA SettledStep ==
  ASSUME CacheInv, [CacheNext]_cacheVars, NEW k \in Keys, Settled(k)
  PROVE  serverCache'[k] = serverCache[k] /\ Settled(k)'
<1>1. /\ resolving \in [Callers -> Call]
      /\ serverCache \in [Keys -> Servers \cup {NoServer}]
  BY DEF CacheInv, CacheTypeOK, Call
\* A step that leaves the entry alone and is not of a call that misses it.
<1>2. ASSUME serverCache'[k] = serverCache[k], NEW c \in Callers,
             \A d \in Callers : d # c => resolving'[d] = resolving[d],
             ~ (resolving'[c].at \in {"missed", "referred"} /\ resolving'[c].key = k)
      PROVE  serverCache'[k] = serverCache[k] /\ Settled(k)'
  <2>1. ASSUME NEW d \in Callers
        PROVE  ~ (resolving'[d].at \in {"missed", "referred"} /\ resolving'[d].key = k)
    BY <1>2 DEF Settled
  <2>2. QED
    BY <1>2, <2>1 DEF Settled
<1>3. ASSUME NEW c \in Callers, NEW l \in Keys, Resolve(c, l)
      PROVE  serverCache'[k] = serverCache[k] /\ Settled(k)'
  <2>1. /\ serverCache' = serverCache
        /\ resolving'[c].at \in {"load", "done"}
        /\ \A d \in Callers : d # c => resolving'[d] = resolving[d]
    BY <1>1, <1>3, NotResolvingType DEF Resolve, Call
  <2>2. QED
    BY <1>2, <2>1
<1>4. ASSUME NEW c \in Callers, Resolved(c)
      PROVE  serverCache'[k] = serverCache[k] /\ Settled(k)'
  <2>1. /\ serverCache' = serverCache
        /\ resolving'[c].at = "idle"
        /\ \A d \in Callers : d # c => resolving'[d] = resolving[d]
    BY <1>1, <1>4, NotResolvingType DEF Resolved
  <2>2. QED
    BY <1>2, <2>1
<1>5. ASSUME NEW c \in Callers, CacheStep(c)
      PROVE  serverCache'[k] = serverCache[k] /\ Settled(k)'
  <2>1. resolving[c] \in Call /\ ~ (resolving[c].at \in {"missed", "referred"} /\ resolving[c].key = k)
        /\ serverCache[k] # NoServer
    BY <1>1 DEF Settled
  <2>2. CASE LoadHit(c) \/ IanaFails(c) \/ IanaSilent(c)
    <3>1. /\ serverCache' = serverCache
          /\ resolving'[c].at = "done"
          /\ \A d \in Callers : d # c => resolving'[d] = resolving[d]
      BY <1>1, <2>1, <2>2 DEF LoadHit, IanaFails, IanaSilent, Done, Call
    <3>2. QED
      BY <1>2, <3>1
  <2>3. CASE LoadMiss(c) \/ IanaRefers(c)
    <3>1. /\ serverCache' = serverCache
          /\ resolving'[c].key = resolving[c].key /\ resolving[c].key # k
          /\ \A d \in Callers : d # c => resolving'[d] = resolving[d]
      BY <1>1, <2>1, <2>3 DEF LoadMiss, IanaRefers, AskingIana, Call
    <3>2. QED
      BY <1>2, <3>1
  <2>4. CASE StoreTable(c) \/ StoreReferral(c)
    <3>1. /\ resolving[c].key # k
          /\ resolving'[c].at = "done"
          /\ \A d \in Callers : d # c => resolving'[d] = resolving[d]
      BY <1>1, <2>1, <2>4 DEF StoreTable, StoreReferral, Done, Call
    <3>2. serverCache'[k] = serverCache[k]
      BY <1>1, <2>4, <3>1 DEF StoreTable, StoreReferral
    <3>3. QED
      BY <1>2, <3>1, <3>2
  <2>5. QED
    BY <1>5, <2>2, <2>3, <2>4 DEF CacheStep
<1>6. CASE UNCHANGED cacheVars
  BY <1>6 DEF cacheVars, Settled
<1>7. QED
  BY <1>3, <1>4, <1>5, <1>6 DEF CacheNext

\* Once nobody is between a miss of a key and the Store after it, the key's
\* entry never changes again.
THEOREM CacheSettledForever == CacheSpec => SettledForever
<1>1. CacheInv /\ [CacheNext]_cacheVars =>
        [\A k \in Keys : Settled(k) => serverCache'[k] = serverCache[k] /\ Settled(k)']_cacheVars
  BY SettledStep
<1>2. QED
  BY <1>1, CacheInvariant, PTL DEF CacheSpec, SettledForever
=============================================================================
