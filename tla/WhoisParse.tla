----------------------------- MODULE WhoisParse -----------------------------
(***************************************************************************)
(* Parse (parse.go) and ParseIPWhois (ip.go): what becomes of the pairs of *)
(* ExtractPairs.  The fields are looked up by their aliases, the rules of  *)
(* some TLDs fill gaps, from the pairs or from blocks of the text, and the *)
(* text, the pairs and a field tell whether the object is registered.      *)
(*                                                                         *)
(* A field is the pair, or the place in the text, that its value is from.  *)
(***************************************************************************)
EXTENDS ExtractPairs, FiniteSetsExt, SequencesExt

CONSTANTS
  Keys,                        \* the keys that occur, normalized by normKey
  Values, NoServer, Statuses,  \* values, and what they may hold
  Calls,                       \* what is called: a function, its TLD and its texts
  Window,                      \* the lines of a block that are looked at, 7
  MaxExtra                     \* the pairs that Extra keeps, 400

Functions == {"Parse", "ParseIPWhois"}

(***************************************************************************)
(* What a line says.  key is what is in front of its colon, in its         *)
(* bracket, or all of it if it has neither; plain, that it is written      *)
(* without dots or stars; value, what follows; whole, the line itself; and *)
(* notice, that one of notFoundPatterns is in the line, or that the line's *)
(* end and the next line's beginning make one.                             *)
(*                                                                         *)
(* A value may parse as a date, be ASCII, begin with a name server, list   *)
(* statuses, hold the date of a .jp state, and be a range of addresses.    *)
(***************************************************************************)
SayingType ==
  [key : Keys, plain : BOOLEAN, value : Values, whole : Values,
   notice : {"no", "whole", "head", "tail"}]

ASSUME ParseAssumption ==
  /\ Sayings \subseteq SayingType
  /\ \A v \in Values :
       /\ {v.empty, v.date, v.ascii} \subseteq BOOLEAN /\ v.statuses \in Seq(Statuses)
       /\ v.state \in {"none", "date", "other"} /\ v.range \in {"none", "slash", "dash"}
  /\ \A l \in Lines : (l.valued => ~ l.says.value.empty) /\ (l.blank <=> l.says.whole.empty)
  /\ \A c \in Calls : c.function \in Functions /\ c.texts \subseteq Texts
  /\ Window \in Nat /\ MaxExtra \in Nat

VARIABLES
  call,       \* the function called, and the TLD it is given
  stage,      \* "scan", "read", "ruled" or "done"
  fields,     \* the fields that hold one value
  lists,      \* those that hold several: servers, statuses, extra
  registered

parseVars == <<call, stage, fields, lists, registered, scanVars>>

ParseInit ==
  /\ \E c \in Calls : lines \in c.texts /\ call = [function |-> c.function, tld |-> c.tld]
  /\ i = 1 /\ listKey = 0 /\ pairs = <<>>
  /\ stage = "scan" /\ fields = <<>> /\ registered = FALSE
  /\ lists = [servers |-> <<>>, statuses |-> <<>>, extra |-> <<>>]

-----------------------------------------------------------------------------
(* The aliases of the fields, the preferred ones first.                    *)

DateFields == {"Created", "Updated", "Expiry"}

ParsedAliases == [
  DomainName |-> <<"domain name", "domain", "domain-name">>,
  Handle |-> <<"registry domain id", "roid", "domain id">>,
  Registrar |-> <<"registrar", "sponsoring registrar", "registrar name", "registrar organization",
                  "authorized agency", "registration service provider">>,
  RegistrarID |-> <<"registrar iana id", "iana id">>,
  WhoisServer |-> <<"registrar whois server", "whois server">>,
  Created |-> <<"creation date", "created on", "created", "registered on", "registration time",
                "registration date", "registered date", "domain name commencement date",
                "record created on", "domain registered", "registered">>,
  Updated |-> <<"updated date", "last updated on", "last update", "last modified", "last-update",
                "last updated", "last updated date", "updated", "changed", "modified",
                "record last updated on">>,
  Expiry |-> <<"registry expiry date", "registrar registration expiration date",
               "expiration date", "expiry date", "expire date", "expires", "expires on",
               "expiration time", "paid-till", "valid until", "record expires on",
               "renewal date", "expiry", "expiration date (yyyy-mm-dd)">>,
  RegName |-> <<"registrant", "registrant name", "registrant contact name">>,
  RegOrg |-> <<"registrant organization", "registrant contact organization", "org">>,
  RegEmail |-> <<"registrant email", "registrant contact email", "registrant e-mail">>,
  AdminName |-> <<"admin name", "admin contact name", "administrative contact",
                  "administrative contact(ac)", "admin contact">>,
  AdminOrg |-> <<"admin organization", "admin contact organization">>,
  AdminEmail |-> <<"admin email", "admin contact email", "admin e-mail", "ac e-mail">>,
  TechName |-> <<"tech name", "tech contact name", "technical contact", "tech contact">>,
  TechOrg |-> <<"tech organization", "tech contact organization">>,
  TechEmail |-> <<"tech email", "tech contact email", "tech e-mail">>,
  BillingName |-> <<"billing name", "billing contact">>,
  BillingEmail |-> <<"billing email", "billing contact email">>]

StatusKeys == <<"domain status", "status", "state", "registration status", "eppstatus">>
NsKeys == <<"name server", "name servers", "nameserver", "nameservers", "nserver", "dns servers",
            "domain servers", "domain servers in listed order", "name servers information",
            "domain nameservers", "hostname", "host name">>
DnssecKeys == <<"dnssec", "dnssec status">>

IPAliases == [
  Handle |-> <<"nethandle">>, Name |-> <<"netname">>, Type |-> <<"nettype", "status">>,
  Country |-> <<"country">>, ParentHandle |-> <<"parent">>,
  Organization |-> <<"orgname", "org-name", "organization", "owner">>,
  Description |-> <<"descr">>, Created |-> <<"regdate", "created">>,
  Updated |-> <<"updated", "last-modified", "changed">>]
RangeKeys == <<"inetnum", "netrange">>
CIDRKeys == <<"cidr">>

Aliases == IF call.function = "Parse" THEN ParsedAliases ELSE IPAliases

-----------------------------------------------------------------------------
(* fieldGetter.                                                            *)

None == [key |-> 0, value |-> 0]
KeyAt(p) == lines[p.key].says.key
ValueAt(p) ==
  IF p.key = p.value THEN lines[p.value].says.value ELSE lines[p.value].says.whole

Hits(as) == {m \in DOMAIN pairs : KeyAt(pairs[m]) \in Range(as) /\ ~ ValueAt(pairs[m]).empty}
Rank(as, key) == Min({a \in DOMAIN as : as[a] = key})

\* Faulty: the first pair with any of the aliases.
GetInOrder(as) == IF Hits(as) = {} THEN None ELSE pairs[Min(Hits(as))]

\* The first pair with the most preferred alias that has a value.
Get(as) ==
  IF Hits(as) = {} THEN None
  ELSE LET ranks == {Rank(as, KeyAt(pairs[m])) : m \in Hits(as)}
       IN pairs[Min({m \in Hits(as) : KeyAt(pairs[m]) = as[Min(ranks)]})]

GetDate(as) == IF Get(as) # None /\ ValueAt(Get(as)).date THEN Get(as) ELSE None

GetAll(as) == SelectSeq(pairs, LAMBDA p : KeyAt(p) \in Range(as) /\ ~ ValueAt(p).empty)

\* Faulty: containsFold is not asked.
AddAgain(s, x) == Append(s, x)

\* Statuses and name servers are told apart up to case.
Add(s, x) == IF x \in Range(s) THEN s ELSE Append(s, x)

StatusesOf(ps) == FoldLeft(LAMBDA s, p : FoldLeft(Add, s, ValueAt(p).statuses), <<>>, ps)

\* nameservers, of the first m pairs.
ServersOf[m \in Nat] ==
  IF m = 0 THEN <<>>
  ELSE IF m \in Hits(NsKeys) /\ ValueAt(pairs[m]).server # NoServer
       THEN Add(ServersOf[m - 1], ValueAt(pairs[m]).server)
       ELSE ServersOf[m - 1]

\* A value in ASCII is preferred, whatever its alias.
DNSSecOf(ps) ==
  LET ascii == SelectSeq(ps, LAMBDA p : ValueAt(p).ascii)
  IN IF ascii # <<>> THEN Head(ascii) ELSE IF ps # <<>> THEN Head(ps) ELSE None

-----------------------------------------------------------------------------
(* applyTLDRules.                                                          *)

\* Faulty: what a rule finds replaces what was published.
FillEmptyReplacing(f, p) == IF p # None THEN p ELSE fields[f]

FillEmpty(f, p) == IF fields[f] = None THEN p ELSE fields[f]

\* The last state with something like a date, if it is one.
StateDate ==
  LET states == SelectSeq(pairs, LAMBDA p : KeyAt(p) = "state" /\ ValueAt(p).state # "none")
  IN IF states # <<>> /\ ValueAt(Last(states)).state = "date" THEN Last(states) ELSE None

\* The header of a block: "Header:", or bare.
Titled(k, header) ==
  /\ ~ lines[k].blank /\ ~ lines[k].bracket /\ ~ (lines[k].colon /\ lines[k].valued)
  /\ lines[k].says.plain /\ lines[k].says.key = header

\* Faulty: a blank line does not end a block.
InBlockOrBelow(k, j) == j \in (k + 1)..(k + Window)

InBlock(k, j) ==
  j \in (k + 1)..(k + Window) /\ \A b \in (k + 1)..j : ~ lines[b].blank

SubKeyed(j, subKeys) ==
  /\ lines[j].colon /\ ~ lines[j].bracket
  /\ lines[j].says.plain /\ lines[j].says.key \in subKeys

\* The lines below a header that have one of the keys, and the headers with
\* such lines.
BelowHeader(k, subKeys) == {j \in DOMAIN lines : InBlock(k, j) /\ SubKeyed(j, subKeys)}
Headers(header, subKeys) ==
  {k \in DOMAIN lines : Titled(k, header) /\ BelowHeader(k, subKeys) # {}}

BlockLine(header, subKeys) == Min(BelowHeader(Min(Headers(header, subKeys)), subKeys))

\* The first line below the first header, whether it has a value or not.
BlockField(header, subKeys) ==
  IF Headers(header, subKeys) # {} /\ lines[BlockLine(header, subKeys)].valued
  THEN [key |-> BlockLine(header, subKeys), value |-> BlockLine(header, subKeys)]
  ELSE None

FromBlock(f, header, subKeys) == [fields EXCEPT ![f] = FillEmpty(f, BlockField(header, subKeys))]

Ruled ==
  CASE call.tld = "jp" -> [fields EXCEPT !.Expiry = FillEmpty("Expiry", StateDate),
                                         !.RegOrg = FillEmpty("RegOrg", Get(<<"organization">>))]
    [] call.tld = "tr" /\ Get(<<"organization name">>) # None ->
         [fields EXCEPT !.Registrar = Get(<<"organization name">>)]
    [] call.tld = "eu" -> FromBlock("Registrar", "registrar", {"name", "organization"})
    [] call.tld = "it" ->
         [FromBlock("Registrar", "registrar", {"name", "organization"}) EXCEPT
            !.RegOrg = FillEmpty("RegOrg", BlockField("registrant", {"organization"})),
            !.AdminName = FillEmpty("AdminName", BlockField("admin contact", {"name"})),
            !.TechName = FillEmpty("TechName", BlockField("technical contacts", {"name"}))]
    [] OTHER -> fields

-----------------------------------------------------------------------------
\* A pattern of notFoundPatterns is in the text, comments and line breaks
\* included: white space of any kind is one blank.
Noticed ==
  \E k \in DOMAIN lines :
    \/ lines[k].says.notice = "whole"
    \/ /\ lines[k].says.notice = "head"
       /\ \E j \in (k + 1)..Len(lines) :
            /\ lines[j].says.notice = "tail"
            /\ \A b \in (k + 1)..(j - 1) : lines[b].blank

Named ==
  IF call.function = "Parse" THEN fields.DomainName # None
  ELSE fields.StartAddress # None \/ fields.CIDR # None

\* Faulty: an echoed name wins over a notice.
TellsByName == Named \/ (~ Noticed /\ Len(pairs) >= 2)

\* determineRegistered, and the end of ParseIPWhois.
Tells == ~ Noticed /\ (Named \/ Len(pairs) >= 2)

ScanStep == stage = "scan" /\ Next /\ UNCHANGED <<call, stage, fields, lists, registered>>

Scanned == stage = "scan" /\ i > Len(lines)

Read(f) == IF f \in DateFields THEN GetDate(Aliases[f]) ELSE Get(Aliases[f])

ReadFields ==
  /\ Scanned /\ call.function = "Parse"
  /\ fields' = [f \in DOMAIN ParsedAliases \cup {"DNSSec"} |->
                  IF f = "DNSSec" THEN DNSSecOf(GetAll(DnssecKeys)) ELSE Read(f)]
  /\ lists' = [servers |-> ServersOf[Len(pairs)], statuses |-> StatusesOf(GetAll(StatusKeys)),
               extra |-> SubSeq(pairs, 1, Min({MaxExtra, Len(pairs)}))]
  /\ stage' = "read"
  /\ UNCHANGED <<call, registered, scanVars>>

\* A range is a prefix or two addresses; a CIDR of its own goes before it.
ReadIPFields ==
  /\ Scanned /\ call.function = "ParseIPWhois"
  /\ \E range \in {Get(RangeKeys)} :
       LET form == IF range = None THEN "none" ELSE ValueAt(range).range
           prefix == IF form = "slash" THEN range ELSE None
       IN fields' = [f \in DOMAIN IPAliases \cup {"StartAddress", "CIDR"} |->
                       CASE f = "StartAddress" -> IF form = "dash" THEN range ELSE None
                         [] f = "CIDR" -> IF Get(CIDRKeys) = None THEN prefix ELSE Get(CIDRKeys)
                         [] OTHER -> Read(f)]
  /\ stage' = "ruled"
  /\ UNCHANGED <<call, lists, registered, scanVars>>

ApplyTLDRules ==
  /\ stage = "read"
  /\ fields' = Ruled /\ stage' = "ruled"
  /\ UNCHANGED <<call, lists, registered, scanVars>>

DetermineRegistered ==
  /\ stage = "ruled"
  /\ registered' = Tells /\ stage' = "done"
  /\ UNCHANGED <<call, fields, lists, scanVars>>

ParseStep == ScanStep \/ ReadFields \/ ReadIPFields \/ ApplyTLDRules \/ DetermineRegistered

ParseSpec == ParseInit /\ [][ParseStep]_parseVars

-----------------------------------------------------------------------------
\* No field is hidden: where a line "Key: value" of the text has an alias of a
\* field, the field holds that line, or an earlier one, or one with an alias
\* that is preferred, whatever lists and headers stand around it.  A date that
\* does not parse is the one thing that leaves a gap.
FieldsTold ==
  stage = "read" \/ (stage = "ruled" /\ call.function = "ParseIPWhois") =>
    \A f \in DOMAIN Aliases : \A a \in DOMAIN Aliases[f] : \A k \in DOMAIN lines :
      IsField(lines[k]) /\ lines[k].says.key = Aliases[f][a] =>
        \E p \in Range(pairs) :
          /\ \E b \in 1..a : KeyAt(p) = Aliases[f][b] /\ (b = a => p.key <= k)
          /\ fields[f] = p \/ (f \in DateFields /\ fields[f] = None /\ ~ ValueAt(p).date)

\* The name servers are those that lines with a name server's key begin with,
\* and those in lists below one, each of them once.
ServersTold ==
  stage = "read" =>
    /\ IsInjective(lists.servers)
    /\ \A k \in DOMAIN lines :
         IsField(lines[k]) /\ lines[k].says.key \in Range(NsKeys)
           => lines[k].says.value.server \in Range(lists.servers) \cup {NoServer}
    /\ \A s \in Range(lists.servers) : \E h, k \in DOMAIN lines :
         LET p == [key |-> h, value |-> k]
         IN KeyAt(p) \in Range(NsKeys) /\ ValueAt(p).server = s /\ h <= k /\ Belongs(p)

\* The rules of a TLD fill gaps: what the registry has published under a
\* field's own key stays, but for the registrar of .tr.
RulesOnlyFill ==
  [][stage = "read" =>
       \A f \in DOMAIN fields : fields[f] # None =>
         \/ fields'[f] = fields[f]
         \/ call.tld = "tr" /\ f = "Registrar" /\ KeyAt(fields'[f]) = "organization name"
    ]_parseVars

\* A field whose own keys the text has not comes from the block of its own
\* header: the header is above it, no blank line is between, and no line with
\* one of the keys looked for is nearer to the header.
Blocks ==
  [Registrar |-> [header |-> "registrar", keys |-> {"name", "organization"}],
   RegOrg |-> [header |-> "registrant", keys |-> {"organization"}],
   AdminName |-> [header |-> "admin contact", keys |-> {"name"}],
   TechName |-> [header |-> "technical contacts", keys |-> {"name"}]]

BlockTold ==
  stage = "ruled" /\ call.function = "Parse" /\ call.tld \in {"eu", "it"} =>
    \A f \in DOMAIN Blocks :
      LET p == fields[f]
      IN p # None /\ KeyAt(p) \notin Range(ParsedAliases[f]) =>
           \E h \in 1..(p.key - 1) :
             /\ Titled(h, Blocks[f].header) /\ KeyAt(p) \in Blocks[f].keys
             /\ \A b \in (h + 1)..(p.key - 1) :
                  ~ lines[b].blank /\ ~ SubKeyed(b, Blocks[f].keys)

\* Registered or not: a notice decides, wherever it is and however its line is
\* broken; without one, the name or any two fields do.
VerdictTold ==
  stage = "done" =>
    LET field(k) == IsField(lines[k])
        names == IF call.function = "Parse" THEN Range(ParsedAliases.DomainName)
                 ELSE Range(CIDRKeys)
    IN /\ registered =>
            \A k, j \in DOMAIN lines :
              /\ lines[k].says.notice # "whole"
              /\ (k < j /\ \A b \in (k + 1)..(j - 1) : lines[b].blank) =>
                   ~ (lines[k].says.notice = "head" /\ lines[j].says.notice = "tail")
       /\ ~ registered /\ ~ Noticed =>
            /\ \A k \in DOMAIN lines : field(k) => lines[k].says.key \notin names
            /\ \A k, j \in DOMAIN lines : field(k) /\ field(j) => k = j

\* Why: what was read is what the keys lead to; a rule changes the fields of
\* Blocks and the date of expiry only, and to what a block says; so the name
\* that decides is the one that was read.
FieldsRead ==
  stage = "read" \/ (stage = "ruled" /\ call.function = "ParseIPWhois") =>
    \A f \in DOMAIN Aliases : fields[f] = Read(f)

RulesApplied ==
  stage \in {"ruled", "done"} /\ call.function = "Parse" =>
    \A f \in DOMAIN ParsedAliases :
      \/ fields[f] = Read(f)
      \/ f \in DOMAIN Blocks /\ call.tld \in {"eu", "it"}
           /\ fields[f] = BlockField(Blocks[f].header, Blocks[f].keys)
      \/ f \in DOMAIN Blocks \cup {"Expiry"} /\ call.tld \in {"jp", "tr"}

CIDRRead ==
  stage # "scan" /\ call.function = "ParseIPWhois" /\ Get(CIDRKeys) # None =>
    fields.CIDR = Get(CIDRKeys)

Staged ==
  /\ call.function \in Functions
  /\ stage \in {"scan", "read", "ruled", "done"}
  /\ stage # "scan" => i > Len(lines) /\ fields = [f \in DOMAIN fields |-> fields[f]]
  /\ stage # "scan" /\ call.function = "Parse" => DOMAIN ParsedAliases \subseteq DOMAIN fields
  /\ stage = "read" => call.function = "Parse"
  /\ stage = "done" => registered = Tells

ParseInv == ScanInv /\ Staged /\ FieldsRead /\ RulesApplied /\ CIDRRead
=============================================================================
