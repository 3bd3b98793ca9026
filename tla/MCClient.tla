------------------------------ MODULE MCClient ------------------------------
(* A small instance of Client: a domain of a thin registry that is in the   *)
(* embedded table, a free domain of a TLD that has no RDAP and that only    *)
(* IANA knows, an address and an AS number; and a free domain whose TLD has *)
(* RDAP, among authorities that may redirect to each other and back.        *)
EXTENDS Client

CONSTANTS dCom, dFree, dOpen, aIp, nAsn, tCom, tNew,
          sBase, sAuth, sOther, wCom, wNew, wMoved, wRir, wRegistrar

MCDomains == {dCom, dFree}
AllDomains == MCDomains \cup {dOpen}
MCTldOf == [d \in Domains |-> IF d = dFree THEN tNew ELSE tCom]
MCDeployed == IF RdapBootstrap THEN Objects \ {dFree} ELSE Objects
MCExisting == Objects \ {dFree, dOpen}
MCServers == {wCom, wNew, wMoved, wRir, wRegistrar}
MCTLDs == {tCom, tNew}
MCOverrides == [t \in MCTLDs |-> NoServer]
MCTable == [t \in MCTLDs |-> IF t = tCom THEN wCom ELSE NoServer]
\* The keys are ServerCache's: TLDs, and addresses behind "rir:".
MCReferrals == [k \in ({"tld"} \X MCTLDs) \cup {<<"rir", aIp>>} |->
  CASE k[2] = tNew -> {wNew, wMoved} [] k[2] = aIp -> {wRir} [] OTHER -> {}]
MCRedirections == {302}
MCRefusals == {429}
MCFields == {"Registrar", "Expiry", "WhoisServer"}

Text(blank, notFound, named, pairs, refer, schemed, fields, says) ==
  [blank |-> blank, notFound |-> notFound, named |-> named, pairs |-> pairs,
   refer |-> refer, schemed |-> schemed, fields |-> fields, says |-> says]

Blank == Text(TRUE, FALSE, FALSE, 0, NoServer, FALSE, {}, "refused")
Thin == Text(FALSE, FALSE, TRUE, 2, wRegistrar, FALSE, {"Registrar"}, "registered")
Thick == Text(FALSE, FALSE, TRUE, 2, NoServer, FALSE, {"Expiry"}, "registered")
\* The registry names itself, behind a scheme.
SelfReferring == Text(FALSE, FALSE, FALSE, 2, wCom, TRUE, {"Expiry"}, "registered")
\* An availability notice that echoes the domain's name.
Free == Text(FALSE, TRUE, TRUE, 1, NoServer, FALSE, {}, "free")
\* A refusal in prose: no line of it is a key and a value.
Prose == Text(FALSE, FALSE, FALSE, 0, NoServer, FALSE, {}, "refused")

AllOptions == [preferRDAP : BOOLEAN, fallbackWhois : BOOLEAN, followReferral : BOOLEAN]
\* Everything on: the longest calls.
EveryProtocol == {[preferRDAP |-> TRUE, fallbackWhois |-> TRUE, followReferral |-> TRUE]}

ClearReplies == {Blank, Thin, Thick, SelfReferring, Free}
AllReplies == ClearReplies \cup {Prose}
=============================================================================
