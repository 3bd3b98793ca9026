------------------------------ MODULE Punycode ------------------------------
(***************************************************************************)
(* encodePunycode (punycode.go): the RFC 3492 encoding of one label.  The  *)
(* basic code points are copied; then the others are inserted in order of  *)
(* their value, each by the distance, delta, from the insertion before, in *)
(* digits of a variable base.  The arithmetic is uint32.                   *)
(*                                                                         *)
(* A label is the sequence of its code points, and so is what is written.  *)
(***************************************************************************)
EXTENDS Integers, Sequences, FiniteSets

CONSTANTS
  MaxCode,   \* the greatest code point, 0x10FFFF
  MaxLength, \* the longest domain that normalizeDomain accepts, 253
  Word       \* uint32 is modulo this, 2^32

\* With the code's numbers a domain of MaxLength code points is far from
\* exhausting a uint32; a longer one may.
ASSUME PunycodeAssumption ==
  /\ MaxCode \in Nat /\ MaxCode >= 128 /\ MaxLength \in Nat /\ Word \in Nat \ {0}
  /\ (MaxCode + 1) * (MaxLength + 1) <= Word

Base == 36
TMin == 1
TMax == 26
Skew == 38
Damp == 700
InitialBias == 72
InitialN == 128
Hyphen == 45

VARIABLES
  at,       \* "idle", "copy", "search", "scan", "digits", "done" or "failed"
  label,    \* the label's code points (runes)
  j,        \* the rune that a loop over them is at
  h,        \* the code points handled
  n,        \* the code point that is being inserted
  delta,    \* the distance since the last insertion
  bias,
  q, k,     \* the rest of delta, and the digit's position, in the digits loop
  out,      \* what was written
  wrapped   \* history: delta has exceeded a uint32

encodeVars == <<at, label, j, h, n, delta, bias, q, k, out, wrapped>>

EncodeInit ==
  /\ at = "idle" /\ label = <<>> /\ j = 1 /\ h = 0 /\ n = InitialN
  /\ delta = 0 /\ bias = InitialBias /\ q = 0 /\ k = Base
  /\ out = <<>> /\ wrapped = FALSE

-----------------------------------------------------------------------------
(* Helpers.                                                                *)

IsBasic(c) == c < 128
NBasic == Cardinality({x \in 1..Len(label) : IsBasic(label[x])})

\* pcDigit: a..z, then 0..9.
Digit(d) == IF d < 26 THEN 97 + d ELSE 48 + d - 26

\* pcAdapt's loop, entered with the delta that was scaled down.
Scaled[d \in Nat] ==
  IF d > ((Base - TMin) * TMax) \div 2 THEN Base + Scaled[d \div (Base - TMin)]
  ELSE ((Base - TMin + 1) * d) \div (d + Skew)

\* Faulty: the first insertion is not damped.
AdaptUndamped(d, points, first) ==
  LET e == d \div 2 IN Scaled[e + e \div points]

Adapt(d, points, first) ==
  LET e == IF first THEN d \div Damp ELSE d \div 2
  IN Scaled[e + e \div points]

\* t, the digits' threshold at position k.
Threshold ==
  CASE k <= bias -> TMin
    [] k > bias /\ k >= bias + TMax -> TMax
    [] OTHER -> k - bias

\* delta is given a value, modulo a uint32's.
SetDelta(d) == delta' = d % Word /\ wrapped' = (wrapped \/ d >= Word)

-----------------------------------------------------------------------------
Encode(l) ==
  /\ at = "idle"
  /\ at' = "copy" /\ label' = l
  /\ UNCHANGED <<j, h, n, delta, bias, q, k, out, wrapped>>

CopyBasic ==
  /\ at = "copy" /\ j <= Len(label)
  /\ IF IsBasic(label[j]) THEN out' = Append(out, label[j]) /\ h' = h + 1
                          ELSE UNCHANGED <<out, h>>
  /\ j' = j + 1
  /\ UNCHANGED <<at, label, n, delta, bias, q, k, wrapped>>

\* A hyphen divides the basic code points from the digits, if there are both.
Delimit ==
  /\ at = "copy" /\ j > Len(label)
  /\ at' = "search"
  /\ out' = IF h > 0 /\ h < Len(label) THEN Append(out, Hyphen) ELSE out
  /\ UNCHANGED <<label, j, h, n, delta, bias, q, k, wrapped>>

\* The code points from n on.
Left == {x \in 1..Len(label) : label[x] >= n}

\* m, the least of them, is inserted next.
Advance ==
  /\ at = "search" /\ h < Len(label)
  /\ \E x \in Left :
       /\ \A y \in Left : label[x] <= label[y]
       /\ SetDelta(delta + (label[x] - n) * (h + 1))
       /\ n' = label[x]
  /\ at' = "scan" /\ j' = 1
  /\ UNCHANGED <<label, h, bias, q, k, out>>

\* "no code point >= n".
Fail ==
  /\ at = "search" /\ h < Len(label) /\ Left = {}
  /\ at' = "failed"
  /\ UNCHANGED <<label, j, h, n, delta, bias, q, k, out, wrapped>>

PassBy ==
  /\ at = "scan" /\ j <= Len(label) /\ label[j] # n
  /\ IF label[j] < n THEN SetDelta(delta + 1) ELSE UNCHANGED <<delta, wrapped>>
  /\ j' = j + 1
  /\ UNCHANGED <<at, label, h, n, bias, q, k, out>>

Insert ==
  /\ at = "scan" /\ j <= Len(label) /\ label[j] = n
  /\ at' = "digits" /\ q' = delta /\ k' = Base
  /\ UNCHANGED <<label, j, h, n, delta, bias, out, wrapped>>

WriteDigit ==
  /\ at = "digits" /\ q >= Threshold
  /\ out' = Append(out, Digit(Threshold + ((q - Threshold) % (Base - Threshold))))
  /\ q' = (q - Threshold) \div (Base - Threshold)
  /\ k' = k + Base
  /\ UNCHANGED <<at, label, j, h, n, delta, bias, wrapped>>

\* Faulty: h counts the basic code points only.
WriteLastDigitUncounted ==
  /\ at = "digits" /\ q < Threshold
  /\ out' = Append(out, Digit(q))
  /\ bias' = Adapt(delta, h + 1, h = NBasic)
  /\ delta' = 0
  /\ at' = "scan" /\ j' = j + 1
  /\ UNCHANGED <<label, h, n, q, k, wrapped>>

WriteLastDigit ==
  /\ at = "digits" /\ q < Threshold
  /\ out' = Append(out, Digit(q))
  /\ bias' = Adapt(delta, h + 1, h = NBasic)
  /\ delta' = 0 /\ h' = h + 1
  /\ at' = "scan" /\ j' = j + 1
  /\ UNCHANGED <<label, n, q, k, wrapped>>

EndScan ==
  /\ at = "scan" /\ j > Len(label)
  /\ SetDelta(delta + 1)
  /\ n' = n + 1
  /\ at' = "search"
  /\ UNCHANGED <<label, j, h, bias, q, k, out>>

Encoded ==
  /\ at = "search" /\ h >= Len(label)
  /\ at' = "done"
  /\ UNCHANGED <<label, j, h, n, delta, bias, q, k, out, wrapped>>

\* The caller takes the result.
Take ==
  /\ at \in {"done", "failed"}
  /\ at' = "idle" /\ label' = <<>> /\ j' = 1 /\ h' = 0 /\ n' = InitialN
  /\ delta' = 0 /\ bias' = InitialBias /\ q' = 0 /\ k' = Base
  /\ out' = <<>> /\ wrapped' = FALSE

EncodeStep ==
  \/ CopyBasic \/ Delimit \/ Advance \/ Fail \/ PassBy \/ Insert
  \/ WriteDigit \/ WriteLastDigit \/ EndScan \/ Encoded

EncodeNext == EncodeStep \/ Take \/ \E l \in Seq(0..MaxCode) : Encode(l)

EncodeSpec == EncodeInit /\ [][EncodeNext]_encodeVars

-----------------------------------------------------------------------------
\* Of the first m runes of l, those below a code point and those at it.
Below(l, m, c) == {x \in 1..m : l[x] < c}
Equal(l, m, c) == {x \in 1..m : l[x] = c}

Written == {out[x] : x \in DOMAIN out}

EncodeTypeOK ==
  /\ at \in {"idle", "copy", "search", "scan", "digits", "done", "failed"}
  /\ label \in Seq(0..MaxCode)
  /\ j \in 1..(Len(label) + 1)
  /\ h \in 0..Len(label)
  /\ n \in InitialN..(MaxCode + 1)
  /\ delta \in 0..(Word - 1)
  /\ wrapped \in BOOLEAN
  /\ out \in Seq(Written)

\* What the phases know of each other's variables.
Phases ==
  /\ at = "idle" => label = <<>>
  /\ at \in {"idle", "copy"} => n = InitialN /\ delta = 0 /\ ~ wrapped
  /\ at \in {"scan", "digits"} => n <= MaxCode
  /\ at = "digits" => j <= Len(label) /\ label[j] = n
  /\ at = "done" => h = Len(label)

\* h is the number of code points handled: those below n, and those of n that
\* the scan has inserted.  So the search for the next one never fails.
Counted ==
  CASE at = "copy" -> Cardinality(Below(label, j - 1, n))
    [] at \in {"scan", "digits"} ->
         Cardinality(Below(label, Len(label), n)) + Cardinality(Equal(label, j - 1, n))
    [] OTHER -> Cardinality(Below(label, Len(label), n))

CountsHandled == h = Counted

NeverFails == at # "failed"

\* delta counts the places passed since the last insertion, h + 1 for each
\* code point passed: a label that fits a domain never exhausts a uint32.
Passed == IF at \in {"scan", "digits"} THEN Cardinality(Below(label, j - 1, n)) ELSE 0

DeltaBounded == ~ wrapped => delta <= (n - InitialN) * (h + 1) + Passed

WrapsLate == wrapped => Len(label) > MaxLength

\* Every code point handled has written something: a label too long to be
\* encoded exactly has an encoding too long for a domain.
KeepsLength == Len(out) >= h

\* So an encoding that normalizeDomain may accept is exact (punycode.go:77
\* and 82 check for no overflow).
EncodedExactly == at = "done" /\ Len(out) <= MaxLength => ~ wrapped

EncodeInv ==
  EncodeTypeOK /\ Phases /\ CountsHandled /\ NeverFails /\ DeltaBounded /\ WrapsLate /\ KeepsLength
=============================================================================
