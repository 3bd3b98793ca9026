-------------------------- MODULE PunycodeDecoding --------------------------
(***************************************************************************)
(* The decoder of RFC 3492, section 6.2: what an encoding means.  The      *)
(* repository has none; it is the reference that encodePunycode is checked *)
(* against, and shares no definition with it.                              *)
(***************************************************************************)
EXTENDS Integers, Sequences, FiniteSetsExt, SequencesExt

DigitValue(c) == IF c >= 97 THEN c - 97 ELSE c - 48 + 26

\* Section 6.1.
Shrink[d \in Nat] == IF d > 455 THEN 36 + Shrink[d \div 35] ELSE (36 * d) \div (d + 38)

NewBias(d, points, first) ==
  LET e == IF first THEN d \div 700 ELSE d \div 2 IN Shrink[e + e \div points]

TLimit(pos, bias) ==
  IF pos <= bias + 1 THEN 1 ELSE IF pos >= bias + 26 THEN 26 ELSE pos - bias

\* The decoder's variables: the text so far; the code point and the place of
\* the next insertion, place and old, where the insertion before it ended; and
\* the weight and position of the next digit.
Start(text) ==
  [text |-> text, code |-> 128, i |-> 0, old |-> 0, w |-> 1, pos |-> 36, bias |-> 72]

\* One more digit of an integer, which the last one completes: the insertion.
Eat(d, c) ==
  LET digit == DigitValue(c)
      t == TLimit(d.pos, d.bias)
      i == d.i + digit * d.w
      points == Len(d.text) + 1
      code == d.code + i \div points
      place == i % points
  IN IF digit >= t
     THEN [d EXCEPT !.i = i, !.w = d.w * (36 - t), !.pos = d.pos + 36]
     ELSE [text |-> InsertAt(d.text, place + 1, code), code |-> code,
           i |-> place + 1, old |-> place + 1, w |-> 1, pos |-> 36,
           bias |-> NewBias(i - d.old, points, d.old = 0)]

\* The decoder after the first m digits of s.
Run(text, s) == LET run[m \in Nat] == IF m = 0 THEN Start(text) ELSE Eat(run[m - 1], s[m]) IN run

Hyphens(s) == {x \in DOMAIN s : s[x] = 45}

\* The last hyphen stands between the basic code points and the digits.
Decode(s) ==
  LET cut == IF Hyphens(s) = {} THEN 0 ELSE Max(Hyphens(s))
      digits == SubSeq(s, cut + 1, Len(s))
  IN Run(SubSeq(s, 1, cut - 1), digits)[Len(digits)].text
=============================================================================
