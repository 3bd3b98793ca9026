-------------------------- MODULE WhoisConnProofs --------------------------
(***************************************************************************)
(* The bounds of an exchange, for every timeout, limit and text.           *)
(***************************************************************************)
EXTENDS WhoisConn, TLAPS

LEMMA ConnInitInv == ConnInit => ConnInv
<1>1. SUFFICES ASSUME ConnInit PROVE ConnInv
  OBVIOUS
<1>2. 0 \in 0..Limit /\ 0 \in 0..MaxSize
  BY ConnAssumption
<1>3. ConnTypeOK
  BY <1>1, <1>2 DEF ConnInit, ConnTypeOK
<1>4. QED
  BY <1>1, <1>3 DEF ConnInit, ConnInv, EndsInTime, NothingLeaks, AllThatWasSent

LEMMA ConnStepInv == ConnInv /\ [ConnNext]_connVars => ConnInv'
<1>1. SUFFICES ASSUME ConnInv, [ConnNext]_connVars PROVE ConnInv'
  OBVIOUS
<1> USE ConnAssumption DEF ConnInv, ConnTypeOK, EndsInTime, NothingLeaks, AllThatWasSent
<1>2. CASE Start
  BY <1>1, <1>2 DEF Start
<1>3. CASE Cancel
  BY <1>1, <1>3 DEF Cancel
<1>4. CASE Connected
  BY <1>1, <1>4 DEF Connected
<1>5. CASE DialFails \/ WriteFails \/ ReadFails
  BY <1>1, <1>5 DEF DialFails, WriteFails, ReadFails, Returns
<1>13. CASE PeerSends \/ PeerCloses \/ PeerBreaks
  BY <1>1, <1>13 DEF PeerSends, PeerCloses, PeerBreaks
<1>6. CASE Written
  BY <1>1, <1>6 DEF Written
<1>7. CASE Receive
  BY <1>1, <1>7 DEF Receive
<1>8. CASE ReadEnds
  BY <1>1, <1>8 DEF ReadEnds, Returns
<1>9. CASE Close
  BY <1>1, <1>9 DEF Close
<1>10. CASE Tick
  BY <1>1, <1>10 DEF Tick, Expiry
<1>11. CASE UNCHANGED connVars
  BY <1>1, <1>11 DEF connVars
<1>12. QED
  BY <1>1, <1>2, <1>3, <1>4, <1>5, <1>6, <1>7, <1>8, <1>9, <1>10, <1>11, <1>13 DEF ConnNext

\* The invariant of an exchange holds whatever the server and the context do.
THEOREM ConnInvariant == ConnSpec => []ConnInv
  BY ConnInitInv, ConnStepInv, PTL DEF ConnSpec

\* An exchange takes at most twice the timeout.
THEOREM ConnEndsInTime == ConnSpec => []EndsInTime
<1>1. ConnInv => EndsInTime
  BY DEF ConnInv
<1>2. QED
  BY <1>1, ConnInvariant, PTL

\* queryServer closes its connection on every path.
THEOREM ConnNothingLeaks == ConnSpec => []NothingLeaks
<1>1. ConnInv => NothingLeaks
  BY DEF ConnInv
<1>2. QED
  BY <1>1, ConnInvariant, PTL

\* A text that a reset or the deadline cut off is never returned as an answer
\* (queryServer's last error).
THEOREM ConnAllThatWasSent == ConnSpec => []AllThatWasSent
<1>1. ConnInv => AllThatWasSent
  BY DEF ConnInv
<1>2. QED
  BY <1>1, ConnInvariant, PTL

=============================================================================
