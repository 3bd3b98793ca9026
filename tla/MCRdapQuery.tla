---------------------------- MODULE MCRdapQuery ----------------------------
(* Small instances of RdapQuery: one bootstrap and two authorities that may *)
(* redirect to each other and back, and objects of every kind that are      *)
(* deployed or not, registered or not.                                      *)
EXTENDS RdapQuery

CONSTANTS sBase, sAuth1, sAuth2, oCom, oFree, oNordap, oIp, oAsn

MCObjects == {oCom, oFree, oNordap, oIp, oAsn}
MCKind == [o \in MCObjects |->
             CASE o = oIp -> "ip" [] o = oAsn -> "autnum" [] OTHER -> "domain"]
MCDeployed == MCObjects \ {oNordap}
MCExisting == MCObjects \ {oFree}
MCSites == {sBase, sAuth1, sAuth2}
MCRedirections == {302}
MCRefusals == {204, 429}
MCBodies == {"object", "expiring", "notJSON"}
=============================================================================
