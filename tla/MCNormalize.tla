---------------------------- MODULE MCNormalize ----------------------------
(* What a domain and its spellings may be made of: letters of both cases    *)
(* with and without an umlaut, a code point beyond ASCII that lowers to an  *)
(* ASCII one, one of the greatest code points, and every sort of separator. *)
EXTENDS Normalize

\* a, A, "ü", "Ü", the Kelvin sign and k, the greatest code point, "-"
cA == 97
cUpperA == 65
cU == 252
cUpperU == 220
cKelvin == 8490
cK == 107
cMax == 1114111
cHyphen == 45
cFullStop == 12290
cSpace == 32
cColon == 58
cSlash == 47
cQuery == 63

MCAlphabet == {cA, cUpperA, cU, cUpperU, cKelvin, cK, cMax, cHyphen, cFullStop, cSpace,
               cColon, cSlash, cQuery, Dot}
MCLower == [c \in MCAlphabet |->
  CASE c = cUpperA -> cA [] c = cUpperU -> cU [] c = cKelvin -> cK [] OTHER -> c]

Texts(chars, lengths) == UNION {[1..l -> chars] : l \in lengths}

\* Single labels, up to one that exhausts the word, at both sides of the length.
ShortLabels == Texts({cA, cHyphen, cU, cKelvin, cMax}, 1..5)
LongLabels == {[x \in 1..l |-> IF x = y THEN cMax ELSE cA] : l \in {19, 32}, y \in {1, 19}} \cup
              Texts({cA}, 19..21)
\* Names of several labels, and what may stand around one.
Names == Texts({cA, cUpperA, cUpperU, Dot, cFullStop}, 0..4)
Before == {<<>>, <<cSpace>>, Scheme, <<cA>> \o Scheme, <<cU>> \o Scheme}
After == {<<>>, <<cSlash, cA>>, <<Dot, cQuery, cSpace>>}

MCCalls ==
  [function : Functions, input : ShortLabels \cup LongLabels \cup Names] \cup
  [function : {"normalizeDomain"},
   input : {b \o t \o a : b \in Before, t \in Texts({cA, cUpperU, Dot}, 0..3), a \in After}]

-----------------------------------------------------------------------------
\* No dot is left at the end of an accepted name, as ToASCII expects of
\* normalizeDomain ("trailing dot already trimmed by caller"): the TLD is what
\* stands behind the last dot.
TrailingDotTrimmed == Normalizing /\ Accepted => Last(result.text) # Dot

\* ToASCII gives the form of a name in lower case ("its A-label form (punycode
\* per non-ASCII label, lower-cased)").
LowerCased ==
  Accepted => \A x \in DOMAIN Asked :
                Len(Asked[x]) > MaxLength \/ Stands(Split(result.text)[x], Asked[x])
=============================================================================
