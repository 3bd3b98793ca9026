--------------------------- MODULE MCServerCache ---------------------------
(* A small instance of ServerCache: a pinned TLD, a TLD of the embedded     *)
(* table, one that only IANA knows and answers in two ways, and an address. *)
EXTENDS ServerCache

CONSTANTS tPinned, tCom, tNew, aIp, wPinned, wCom, wNew, wMoved, wRir

MCTLDs == {tPinned, tCom, tNew}
MCAddresses == {aIp}
MCServers == {wPinned, wCom, wNew, wMoved, wRir}
\* The pinned TLD is in the table too, under another server.
MCOverrides == [t \in MCTLDs |-> IF t = tPinned THEN wPinned ELSE NoServer]
MCTable == [t \in MCTLDs |-> IF t = tNew THEN NoServer ELSE wCom]
MCReferrals == [k \in Keys |->
  CASE k = TldKey(tNew) -> {wNew, wMoved} [] k = RirKey(aIp) -> {wRir} [] OTHER -> {}]
=============================================================================
