--------------------------- MODULE LookupPromise ---------------------------
(***************************************************************************)
(* What a Client promises each goroutine that calls Query, QueryIP or      *)
(* QueryASN on it, whatever protocols, servers, caches and other           *)
(* goroutines are involved: the call ends, once, with an error or with a   *)
(* record, and a record tells the truth about the object that was asked    *)
(* for.  "Available" is never a guess.                                     *)
(***************************************************************************)
CONSTANTS
  Callers,    \* goroutines
  Objects,    \* what can be asked for
  Existing,   \* the registered ones
  NoObject,   \* nothing asked
  Malformed   \* an input that is no domain, or no address

VARIABLES
  asked,   \* asked[c]: what c is waiting to hear of
  answer   \* answer[c]: what c was told

promiseVars == <<asked, answer>>

PromiseInit ==
  /\ asked = [c \in Callers |-> NoObject]
  /\ answer = [c \in Callers |-> "none"]

\* A malformed input is refused; an object gets the truth or an error.
Truths(o) ==
  IF o = Malformed THEN {"error"}
  ELSE {"error", IF o \in Existing THEN "registered" ELSE "available"}

Ask(c) ==
  /\ asked[c] = NoObject
  /\ \E o \in Objects \cup {Malformed} : asked' = [asked EXCEPT ![c] = o]
  /\ UNCHANGED answer

Answer(c) ==
  /\ asked[c] # NoObject /\ answer[c] = "none"
  /\ \E a \in Truths(asked[c]) : answer' = [answer EXCEPT ![c] = a]
  /\ UNCHANGED asked

Return(c) ==
  /\ answer[c] # "none"
  /\ asked' = [asked EXCEPT ![c] = NoObject]
  /\ answer' = [answer EXCEPT ![c] = "none"]

PromiseNext == \E c \in Callers : Ask(c) \/ Answer(c) \/ Return(c)

PromiseFairness == \A c \in Callers : WF_promiseVars(Answer(c))

PromiseSpec == PromiseInit /\ [][PromiseNext]_promiseVars /\ PromiseFairness
=============================================================================
