# Verification of whois-golang

TLA+ specifications of `deershark/whois-golang`, a Go library that looks up the
registration of domains, IP addresses and AS numbers: RDAP first, then the
WHOIS protocol on port 43. The specifications are checked by TLC on small
instances and, for the parts listed under *Proofs*, proved for all instances
with TLAPS. All paths below are relative to the repository's `src/`.

## The system

| Component | Code | State | Operations |
|---|---|---|---|
| Client | `client.go`, `whois.go:13-52`, `ip.go:87-141` | options fixed by `New`; the locals of each call | `QueryContext`, `QueryIPContext`, `QueryASNContext`: RDAP, fall-back to WHOIS, referral to the registrar's server, merge of two answers |
| RDAP fetch | `rdap.go:14-111`, `ip.go:106-123, 231-260` | per call: URL, loop counter, `redirected`, status | `rdapGet`: up to 5 requests, redirects followed by hand; the switches on the final status |
| WHOIS server discovery | `whois.go:54-95`, `ip.go:143-159` | `serverCache`, a `sync.Map` shared by all goroutines | `resolveServer` (override, cache, table, IANA), `resolveRIR` (cache, IANA) |
| port-43 connection | `whois.go:97-132` | a TCP connection with a deadline | `queryServer`, `formatQuery` |
| WHOIS text parser | `parse.go`, `ip.go:277-318` | none outside a call | `Parse`: `extractPairs`, field aliases, per-TLD rules, `determineRegistered`; `ParseIPWhois` |
| RDAP object parser | `rdap.go:113-342`, `ip.go:163-223` | none outside a call | `parseRDAP`, `rdapDates`, the entity walk, the vCard reader |
| Domain normalisation | `punycode.go` | none outside a call; within one, the encoder's `n`, `delta`, `bias`, `h` | `normalizeDomain`, `ToASCII`, `encodePunycode` |
| Embedded table | `servers.go` | constant | TLD to server |

They interact by plain calls. The only state that goroutines share is
`serverCache`; the options are written before the `Client` is shared. What
makes the code hard to test is the world outside: redirect chains, redirectors
that are not authorities, servers that refuse, and answers in prose, combined
with the order in which goroutines reach the cache. `PROJECT.json` lists the
hazards line by line.

What makes each component correct:

- **Client**: a call ends with an error or the truth about its own object;
  errors account for what was tried; a referral followed in vain changes
  nothing, and a merge fills the gaps of the registrar's answer.
- **RDAP fetch**: `Registered`, `available` and `ErrNoRDAP` are said only of
  objects they are true of, by an authority; the loop ends.
- **Discovery**: a key is resolved to its own server whoever filled the cache;
  racing discoveries settle; nobody discovers a key twice.
- **Connection**: ends within the dial timeout plus the deadline and is closed
  on every path; what a reset or the deadline cut off is an error.
- **Text parser**: keys and values are paired as written whatever the layout, no
  line is read twice; a preferred key hides a lesser one and nothing else does; a
  TLD's rules only fill gaps, from the nearest sub-key below a contact's header;
  an availability notice wins over an echoed name.
- **Object parser**: of several events, properties, entities that claim a field,
  the one that is meant to stand does; every entity is visited.
- **Normalisation**: what is asked for decodes back to what was typed, or there
  is an error, for a reason.

## The modules

| Module | Models | Kind |
|---|---|---|
| `RdapQuery` | the RDAP fetch of every goroutine | component |
| `ServerCache` | discovery over the shared cache | component |
| `WhoisConn` | one exchange with a port-43 server, with a clock | component |
| `ExtractPairs` | the scan of a port-43 text for keys and values | algorithm |
| `WhoisParse` | `Parse` and `ParseIPWhois` on those pairs; extends `ExtractPairs` | algorithm |
| `Punycode` | `encodePunycode`, loop by loop | algorithm |
| `Normalize` | `normalizeDomain` and `ToASCII`; extends `Punycode` | algorithm |
| `PunycodeDecoding` | the decoder of RFC 3492, which the repository has not | reference |
| `RdapObject` | from a decoded RDAP object to the fields of a record | algorithm |
| `Client` | the calls of the public API; instantiates `RdapQuery` and `ServerCache` | composition |
| `LookupPromise` | what a Client promises a caller | abstract specification |
| `DataLemmas` | numbers (least ones, induction, recursion, division), ranks in sets, sequences | lemmas |
| `RdapQueryProofs`, `ServerCacheProofs`, `WhoisConnProofs`, `WhoisParseProofs`, `NormalizeProofs`, `RdapObjectProofs`, `ClientProofs` | theorems about the components and their composition | proofs |
| `MCRdapQuery`, `MCServerCache`, `MCWhoisParse`, `MCNormalize`, `MCRdapObject`, `MCClient` | instances for TLC | model checking |

### RdapQuery

`fetch[c]` holds the locals of goroutine `c`'s `rdapGet`: `url` (the host; the
path does not change between hops as far as the code looks), `i` and
`redirected`, the `status` of the final response, and the `outcome` of the
switches of `rdapGet` and its caller. An iteration of the loop is one of
`RequestFails`, `FollowRedirect`, `RefuseRedirect` and `TakeResponse`;
`TooManyRedirects` is its exhaustion; `ReadFails`, `ReadBody` and `Panic` are
what follows it. `Responses` describes the web, which is external: a bootstrap
redirects deployed objects and answers 404 for others; an authority answers
200 or 404 truthfully; either may redirect anywhere, omit the `Location`, or
refuse with another status. A bootstrap never redirects an object that is not
deployed: `rdapGet`'s comment relies on the same fact.

A body of status 200 is an object, an object with an event `expiration`, or no
JSON. `rdapDates` dereferences the expiry pointer for that event, and the
callers for addresses and AS numbers pass nil: this is `Panic`, after which the
process, hence every action, stops (`Running`). That is why the runs of
`MCRdapQuery` say `CHECK_DEADLOCK FALSE`, and why `FetchEnds` has the
alternative `~ Running`.

### ServerCache

`serverCache` is the `sync.Map`; a key is a TLD or an address with its prefix.
`resolving[c]` holds a lookup's progress: `load` before `Load`, `missed` after a
miss (and until the table or IANA answers), `referred` between IANA's answer
and `Store`. Every `Load` and `Store` is atomic and separate, as in the code;
other goroutines take steps between them. `Referrals[k]` is the set of servers IANA may name
for `k`, so two goroutines may be told different servers. An override is never
stored and beats the cache; the table beats IANA. `discovered` is a history
variable that counts the referrals a goroutine received.

### WhoisConn

`at` walks through `queryServer`: `dial`, `write`, `read`, and `return`, where
the deferred `Close` runs. `elapsed` counts from the start of the exchange and
passes only while the network is waited for, up to `Expiry`, the dialer's timeout
and then the connection's deadline, which is set once. `peer` is the server's
side of the connection and `sent` what it has sent, of which `got` is read: it may
send slowly (`PeerSends`), more than `Limit`, close at any point (`PeerCloses`), or
be cut off (`PeerBreaks`). `io.ReadAll` ends without an error when the server has
closed and all it sent is read, or at the limit. A close is the protocol's only end
mark, so a server that closes in the middle of its text has that half returned:
`AllThatWasSent` promises what was sent before the close, not that it is whole. The
context is looked at by the dial and by nothing after it.

### ExtractPairs

One step per iteration of the loop of `extractPairs`: `i` is its index, `listKey`
the header of the list that is open, `pairs` what was extracted. A line is the
answers to the tests that the code makes of it (`LineType`), and a pair is the
two line numbers its key and its value come from, so that an invariant can say
where a value was found. `IsNext` is `nextNonEmpty`; an action that looks ahead
moves `i` below the line it took, as the code does.

### WhoisParse

`Parse` and `ParseIPWhois` are the scan and then three steps: `ReadFields` or
`ReadIPFields` fills the fields by their aliases (`Get` is `fieldGetter.get`: the
rank of the alias before the place in the text), `ApplyTLDRules` is
`applyTLDRules`, `DetermineRegistered` the verdict. `stage` says which is next,
`call` which function runs and for which TLD. The tables of aliases are the
code's. A field is again the place its value comes from, a pair or a line of a
block (`BlockField`). To the line types of `ExtractPairs` a line adds what it
`says`: its normalized key, its value, whether `notFoundPatterns` match it, or
match where it ends and the next one begins, as white space of every kind counts
as one blank. Of a value it matters whether it is empty, a date, ASCII, a range,
which name server it begins with and which statuses it lists. The end of an
address range stands with its start.

### Punycode and Normalize

`at` is the loop that `encodePunycode` is in: `copy` for the basic code points
(`CopyBasic`, `Delimit`), `search` for the next one (`Advance`, or `Fail`), `scan`
over the label (`PassBy`, `Insert`, `EndScan`) and `digits` (`WriteDigit`,
`WriteLastDigit`). `label`, `n`, `delta`, `bias`, `h`, `q` and `k` are the
code's. `delta` is a `uint32`: modulo `Word`; `wrapped` is a history variable
that remembers an overflow.

`Normalize` takes a text, the sequence of its code points, through `Clean`
(white space, scheme, path, case, one dot), the loop of `ToASCII` over the labels
(`SkipLabel`, `RefuseLabel`, `LowerLabel`, `StartEncode`, `Encoding`,
`TakeEncoded`) and the checks of `Finish`. The length that decides where a
scheme may begin is in bytes, as in the code; an invalid byte is the replacement
character, as Go's `range` has it. `Asked` is the name that was asked for in lower
case. `SameName` goes label by label: an ASCII label, a typed "xn--" one included,
is asked for as it is, any other as an A-label whose code decodes back to it
(`Stands`). `ToASCII` called directly does not lower a label that is not ASCII,
though its documentation says lower-cased (the run `to_ascii_case`), so of it
`SameName` speaks only if those labels are in lower case already (`InCase`); nor does
it look at the length, so the labels have to be some that a domain may have.
`RefusedRightly` says of every error what the name must be like: of "long", that a
label is longer than a domain, or that all of them converted are (`TooLong`). A
label is the code points that have the
same number of dots before them (`DotsBefore`), which `strings.Split` makes them.

### RdapObject

`at` is the part of the object that is being read: `dates` (one step per event),
`servers` (one per name server) and `walk`, in the order of `parseRDAP` for a
domain, the walk first for networks. The recursion over entities is `todo`, what
it has yet to visit: an entity is replaced by those within it, in front of those
beside it. `ReadProperty` is an iteration of `vcardContact`'s loop over the
card of `Here`, with `ct` as its result so far; `Visit` applies the roles.
A value is the place it was found at, so that the properties can say which of
several statements of a field stands. They say it declaratively: the first or
the last of a set of events, properties or visits. `panicked` is the nil expiry of networks, as in
`RdapQuery`.

### Client and LookupPromise

`call[c]` is the public call: `start`, `rdap` while `RdapQuery` works for it,
`resolve` while `ServerCache` does, then `exchange` with the server and
`referral` with the registrar's. `QueryASNContext` never falls back and ignores
`WithPreferRDAP`; `QueryIPContext` never follows a referral and forgets the
RDAP error. A port-43 reply is what the parser can tell of it (blank, a
not-found pattern in it, a name extracted, the number of pairs, the registrar's
server) and what its author meant, `says`. `Parsed` and `MergeParsed` remember
for each field which server filled it, so that a lost or misattributed field is
visible. `ReferralOnlyAdds` says that the registry's record stays as it was when a
referral is followed in vain, and what a merged record is made of: the
registrar's value where it states one, as `mergeParsed` means it to, else the
registry's. `WhoisServer` and `Extra`, for which `mergeParsed` has no line though its
comment (`whois.go:134`) says that it fills empty fields, stay the registrar's or
empty.

`LookupPromise` is the abstract specification: a goroutine asks, is told once
either `error` or the truth about what it asked, and returns. `Client`
implements it under the mapping `asked <- call[c].obj`,
`answer <- Told(call[c].result)`: `AnswersTruly` is its safety,
`AnswersEventually` its fairness.

## Runs

| Run | Instance | Shows |
|---|---|---|
| `server_cache` | 2 goroutines, 3 TLDs (pinned, listed, unknown with 2 possible referrals), 1 address | keys are not mixed up, discovery happens once per goroutine, entries settle, lookups end |
| `client_options` | 1 goroutine, all 8 option settings, 3 domains, an address, an AS number, a bootstrap and 2 authorities that may redirect to each other and back, 5 requests | fetches tell the truth, from an authority, and end; errors account for what was tried, a referral leaves the registry's record as it was or fills the registrar's gaps from it, `RdapQuery` is driven by its own rules |
| `client_shared` | 2 goroutines, all protocols on, 2 domains and an address | each call asks its own server, `ServerCache` is driven by its own rules, the promise is kept |
| `whois_parse` | ten families of texts of up to 3, 4 or 5 lines, each with the lines that one part of the parser looks at | pairs in order, no field lost or hidden, name servers and blocks taken where they belong, rules fill gaps, a notice decides; `ParseInv` is an invariant |
| `normalize` | every label of up to 5 code points of 5 kinds, labels of 19 to 21 and 32, names of up to 4 code points with dots of both kinds, with schemes and paths around them | what is asked for decodes back to what was typed, a name is refused for a reason; `EncodeInv` is an invariant |
| `rdap_object` | all lists of up to 4 events, 4 name servers, 3 card properties; all trees of 3 entities of 8 kinds | each field is the statement that is meant to stand; the walk is depth first and complete |
| `whois_conn` | timeout 3, limit 3, texts of 0 to 4 units, closed or broken anywhere | an exchange ends in time, leaks nothing, and returns only what the server sent up to its close, or the limit's worth |
| `rdap_panic` | 1 goroutine, 5 objects, a bootstrap and 2 authorities | **violation**: an expiration event in an address's or AS number's object panics |
| `whois_refusal` | 1 goroutine, 2 requests, and a refusal in prose | **violation**: reported as available |
| `referral_server` | 1 goroutine, 2 requests | **violation**: `Server` is not the server of `Raw` |
| `trailing_dot` | as `normalize` | **violation**: a name that ends in two dots, or in an ideographic one, is accepted with a dot at its end |
| `to_ascii_case` | as `normalize` | **violation**: `ToASCII` encodes a label that is not ASCII in the case it was typed in |

The bounds. A fetch shares nothing with another, so one goroutine shows all of
it; the loop bound is the code's 5, and two authorities are enough to bounce
forever. A base that is not a bootstrap (`WithRDAPBaseURL`) is left to the
theorems of `RdapQueryProofs`, which hold of both. The cache's races need two
goroutines at the same key; a third only repeats what the second can do, and the
theorems hold for any number. `client_shared`, `whois_refusal` and `referral_server` cut the
loop bound to 2, the least with which a redirected fetch reaches an authority,
because `client_options` covers the rest. `client_shared` leaves out AS numbers,
which never reach the cache, and the refusals and odd bodies of RDAP servers,
which end a fetch as a transport error does.

Five lines are a header, the three lines of its look-ahead and one beyond. A
block is looked at for 7 lines and `Extra` keeps 400 pairs: `Window` is 2 and
`MaxExtra` 3, so that a block and a list may go beyond them. The families of
`MCWhoisParse` are separate because the rules of one TLD and the aliases of one
field do not meet another's. `normalize` has a word of 25 bits, a domain of 20
characters and schemes of at most 1: small enough that labels of 19 to 21 are at
both sides of the length and that those of 32 exhaust the word, with the code's
number of code points. Its alphabet has letters of both cases within and beyond
ASCII, a code point that lowers to ASCII, the greatest one, and each separator.

Four events have each of the actions that meet in a field twice; with three
entities one can be within, beside, or deeper than another, before or after it.
The families of `MCRdapObject` are separate because events, servers and entities
do not meet in a field. A timeout of 3 lets a text arrive in time, late, and
never; a limit of 3 with texts of up to 4 has a text below, at and above it.
`EndsInTime` allows an exchange twice `WithTimeout`: the dialer has a timeout of
its own and the deadline is set after it.

Deadlock is not checked where a program may stop: a parser, an encoder and an object's
walk end; a process that panicked (`client_options`, `rdap_panic`) does nothing
more.

Passing Client runs use legible replies: a refusal is blank. The code turns a
refusal in prose into "available" (`whois_refusal`), and without that
assumption (`Legible`) `AnswersTruly` is false.

Fairness. Nobody has to ask. A call that was made goes on (`FetchFairness`,
`CacheFairness`, `Fairness`: weak, per goroutine), because every network
operation ends: the default HTTP client has a timeout of 15 s, `queryServer`
dials with a timeout and sets a deadline. `WhoisConn` assumes less: that the
clock goes on, that an expired operation fails, that a read at its limit ends and
that the deferred `Close` runs (`ConnFairness`); of the server it assumes nothing, and
`ExchangeEnds` derives the rest. A client without a timeout installed
by `WithHTTPClient` does not satisfy it.

Each property has a faulty variant of the code's definition (`Faulty:` in the
comments) under which the same run finds it violated. The specifications never
use those.

## Proofs

TLAPS checks these for every value of the constants that satisfies
the modules' named assumptions: any number of goroutines, objects,
sites, redirects, keys and servers.

- `RdapQueryProofs`: `FetchSpec => []FetchInv`, and from it `FetchTypeOK`,
  `Truthful`, `AnsweredByAuthority`. Truthfulness is not inductive: what a
  status means depends on where the fetch has been. `Coherent` adds that up to
  the first redirect a fetch is at the bootstrap, that a redirected object is
  deployed, and that the status at hand is one that the last host gives.
  `VerdictTells` is the heart: the two switches, applied to such a fetch.
- `ServerCacheProofs`: `CacheSpec => []CacheInv`, from it `CacheTypeOK`,
  `OwnServer`, `DiscoveredOnce`, and the action property `SettledForever`.
  `Discovery` says that whoever got a referral has stored it or is about to,
  which holds because an entry is replaced but never removed;
  `CallerStep` reduces a step to what it does to one call.

- `WhoisConnProofs`: `ConnSpec => []ConnInv`, and from it `EndsInTime`,
  `NothingLeaks`, `AllThatWasSent`, for every timeout and limit and every server.
- `DataLemmas`: a set of numbers has a least one, induction over a set of
  numbers, and that a recursive function over the numbers is the one its
  equations describe. The library's theorems for the last two take an operator
  as a parameter, which no backend can instantiate; these take sets and
  functions. Also division, how many members of a set come before one of them
  (`Rank...`), and the subsequence at some places (`Picks...`).
- `WhoisParseProofs`, the scan: `Spec => []ScanInv`, and from it `TypeOK`, `InOrder`,
  `FieldsKept`, `ValuesBelong`, for texts of every length. `ListOpen` is the
  strengthening: a list that is open began below its header, and neither a
  blank line nor a key header has come since. `Skipped` and `Extracted` say
  what passing a line by, and extracting a pair, do to the properties.
- `WhoisParseProofs`, the rest: `ParseSpec => []ParseInv`, and from it the scan's three
  properties at every stage, `FieldsTold`, `ServersTold`, `BlockTold`, `VerdictTold` and the action
  property `RulesOnlyFill`, for every text, whatever its lines say. `ParseInv`
  adds to `ScanInv` that the fields are what the aliases lead to (`FieldsRead`)
  and that the rules changed what they may change (`RulesApplied`, `CIDRRead`), so
  that the verdict's name is the one that was read. What a field holds is a
  least number twice, the rank and the place: `GetPrefers` and
  `BlockFieldNearest` say what it means for a field and for a block. The name
  servers are a recursive function over the first pairs (`ServersOf`):
  `ServersOfDef` derives its equations from `Recursion`, `ServersOfPairs` what
  it holds after any number of pairs by induction.
- `NormalizeProofs`, the encoder: `EncodeSpec => []EncodeInv`, and from it
  `NeverFails` (the error of `encodePunycode` is unreachable) and `EncodedExactly`
  (an encoding no longer than a domain may be was made without overflow), for
  every label. `CountsHandled` is the strengthening: `h` is the number of code
  points below `n`, and of those equal to it that the scan has passed. `Exact` is
  the arithmetic: `delta` is at most a product of the code points and the places
  passed.
- `NormalizeProofs`, the round trip: `EncodeSpec => []RoundTrip`, and from it
  `DecodesBack`, what is written decodes to the label. The invariant runs the
  decoder along: fed with what has been written so far, it has inserted exactly
  the code points handled (the label at `Handled`), the next insertion is at the
  encoder's place once `delta` is added (`Follows`), and the digits of an
  integer that is being written leave `q` to write, at the decoder's weight
  (`Weighed`). An insertion at a rank is `PicksMore` of `DataLemmas`. That the
  two sides adapt their bias alike, though they divide in different orders, is
  induction over the numbers.
- `NormalizeProofs`, names: `NormalizeSpec => []NormalizeInv`, and from it
  `SameName` and `RefusedRightly`, for every name over every alphabet, whatever
  `Lower` does beyond ASCII (`NormalizeAssumption`). `LabelsInv`
  says that the labels in front of `i` are `Converted`, those from `i` on are
  still the typed name's, that the encoder has the label at `i`, and that the
  outcome follows from them. `Copies`, an invariant of the encoder, says what an
  encoding is made of: digits, and every basic code point of the label, so that
  a character is refused in an encoded label too. That
  labels without dots, once joined, fall apart into the same labels again is
  induction over them, joining one at a time.
- `RdapObjectProofs`: `Spec => []ObjectInv`, and from it `TypeOK`, `DatesTell`,
  `CardTells`, `ContactsTell`, `RegistrarTells`, and with invariants of their own
  `ServersTell`, `EntitiesTell` and `DepthFirst`, for objects of every size and
  nesting. `SaysMore`, `DatesMore`, `ContactMore` and `RegistrarMore` are the
  content: what the code does with one more property, event or visit is what the
  declarative definition calls for. `CardTells` is the strengthening that the
  last two of them need: a contact has what its card says when its roles are applied.
  `WalkInv` is the walk's: the visited and those that are left are distinct,
  each from the list of somebody who was visited, and of such lists all are among
  them, in order; whoever is to be visited before an entity that is within a
  visited one is within that one too. It needs that entities nest (`Nested`), as
  those of any JSON document do: each stands in one place, and nobody is within
  itself.
- `ClientProofs`: `Spec => []ClientInv`, and from it `TypeOK`, `AskedOwnServer`,
  `ObeysRdapQuery`, `ObeysServerCache`, and with them `Truthful` and
  `AnsweredByAuthority` of a Client's fetches; with the hypothesis `Legible` also
  `Spec => []TrueInv` and `Spec => AnswersTruly`. `ClientInv` joins the two
  components' invariants with `CallOK`: while a call is at `rdap` its fetch is
  under way and of its object, at `resolve` its lookup is, and a server comes
  from such a lookup only. `StepObeysRdap` and `StepObeysCache` show that every
  step of a Client is a step of a component or leaves it alone, so the lemmas
  of the component proofs carry over (`FetchStepInv`, `CacheStepInv`).
  `TrueInv` adds that a call reaches `referral` only for a registered domain.
  For the refinement, `Moves` reduces a step to what can be seen of it: a call
  begins, goes on, is answered, or returns.
  `AccountInv` gives `ErrorsAccount`: an error of RDAP is remembered of domains
  only, and always when RDAP came first, until the call is answered. `AddsInv`
  gives `ReferralOnlyAdds`: what is kept for the merge is the registry's, and a
  record in which a referral was followed in vain is what was kept.

The assumption of `RdapQuery` is a hypothesis of its theorems, because `Client`
sets some of its constants; `Client` assumes it in `ComponentsAssumption`.

The hypothesis `Legible` says that a reply that reads as registered says so, and
that one that is neither blank nor reads as registered says "free". Real
servers break it; the run `whois_refusal` shows with what effect.

Only model-checked: liveness (`FetchEnds`, `LookupEnds`, `ExchangeEnds`,
`AnswersEventually`), which is out of TLAPS's reach. Every other property of a
passing run is a theorem.

## Not modelled

- JSON and HTTP decoding, the TLS and TCP layers, the wording of errors.
- Contexts, but for `WhoisConn`, which has a cancelled context explicitly:
  elsewhere it is one of the ways `RequestFails`, `IanaFails` or `ExchangeFails`
  may happen.
- `servers.go`: the entries are data, the constant `Table` of `ServerCache`; nothing
  but a registry could say whether one is right. This is a quarter of the code.
- The layouts of `parseDate` and the wording of `notFoundPatterns` and of the
  regular expressions: which values parse and which tests a line passes are
  inputs, in every combination that a text can have.
- Of an RDAP object the fields that are copied as they are, DNSSEC and the choice
  of a CIDR; of a WHOIS address range the split into two addresses, a range that
  has only one of them included.
- `formatQuery`, which is wording; `doc.go`; the tests, which were read for what
  they promise.
- The hazards without a property in `PROJECT.json`: a cache without a bound, a client
  without a timeout, an `Extra` that is cut off, a server that closes in the middle
  of its text. The code has no mechanism there
  that a property could be about.

## Plan

1. `RdapQuery`, `ServerCache`, `Client`, `LookupPromise`, and the component
   theorems (done).
2. `ClientProofs`, with `ErrorsAccount` and `ReferralOnlyAdds` (done).
3. `WhoisConn` and `ExtractPairs` with their proofs (done).
4. `RdapObject` with its proofs, the walk of the entities included (done).
5. `WhoisParse` on the pairs of `ExtractPairs`, with its proofs (done).
6. `Normalize` and `Punycode` against an RFC 3492 decoder, with their proofs, the
   decoder's round trip included (done).
7. More action properties, of the records that the parsers build, with their
   proofs; the choice of a CIDR and of DNSSEC in `RdapObject`.
