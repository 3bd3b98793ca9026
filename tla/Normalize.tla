------------------------------ MODULE Normalize ------------------------------
(***************************************************************************)
(* normalizeDomain and ToASCII (punycode.go): from what a user typed to    *)
(* the A-labels that registries are asked for.  The labels that are not    *)
(* ASCII go through the encoder of Punycode, one after the other.          *)
(*                                                                         *)
(* A text is the sequence of its code points.                              *)
(***************************************************************************)
EXTENDS Punycode, PunycodeDecoding

CONSTANTS
  Alphabet,   \* the code points that are typed, and those they lower to
  Lower,      \* Lower[c]: unicode.ToLower, A-Z to a-z in ASCII
  Calls,      \* what is called: a function and its argument
  MaxScheme   \* where "://" may begin, 5

Functions == {"normalizeDomain", "ToASCII"}

ASSUME NormalizeAssumption ==
  /\ Alphabet \subseteq 0..MaxCode
  /\ Lower \in [Alphabet -> Alphabet]
  /\ \A c \in Alphabet : c < 128 => Lower[c] = IF c \in 65..90 THEN c + 32 ELSE c
  /\ Calls \subseteq [function : Functions, input : Seq(Alphabet)]
  /\ MaxScheme \in Nat

VARIABLES
  call,    \* the function called and its argument
  stage,   \* "clean", "labels", "encode" or "done"
  labels,  \* the labels of the domain, converted up to i
  i,
  result   \* the error, "none" if there is none, and the text returned

normalizeVars == <<call, stage, labels, i, result, encodeVars>>

NormalizeInit ==
  /\ call \in Calls
  /\ stage = "clean" /\ labels = <<>> /\ i = 1
  /\ result = [err |-> "none", text |-> <<>>]
  /\ EncodeInit

-----------------------------------------------------------------------------
(* Helpers.                                                                *)

Dot == 46
\* idnDotReplacer: the dot and three ideographic full stops.
Dots == {Dot, 12290, 65294, 65377}
\* unicode.IsSpace.
Spaces == (9..13) \cup {32, 133, 160, 5760} \cup (8192..8202) \cup {8232, 8233, 8239, 8287, 12288}
\* "://", and the "/", "?" and "#" that end a host.
Scheme == <<58, 47, 47>>
HostEnds == {47, 63, 35}
ACE == <<120, 110, 45, 45>>  \* "xn--"

\* The bytes of a code point in UTF-8.
Width(c) == CASE c < 128 -> 1 [] c \in 128..2047 -> 2 [] c \in 2048..65535 -> 3 [] OTHER -> 4
Bytes(t) == FoldLeft(LAMBDA b, c : b + Width(c), 0, t)

Places(t, chars) == {x \in DOMAIN t : t[x] \in chars}
Lowered(t) == [x \in DOMAIN t |-> Lower[t[x]]]

\* From the first of some places to the last.
Between(t, S) == IF S = {} THEN <<>> ELSE SubSeq(t, Min(S), Max(S))

TrimSpace(t) == Between(t, DOMAIN t \ Places(t, Spaces))

BeforeHostEnd(t) ==
  IF Places(t, HostEnds) = {} THEN t ELSE SubSeq(t, 1, Min(Places(t, HostEnds)) - 1)

\* A scheme, and the path with it, is cut off if "://" comes early enough.
Host(t) ==
  LET schemes == {x \in 1..(Len(t) - 2) : SubSeq(t, x, x + 2) = Scheme}
  IN IF schemes # {} /\ Bytes(SubSeq(t, 1, Min(schemes) - 1)) <= MaxScheme
     THEN BeforeHostEnd(SubSeq(t, Min(schemes) + 3, Len(t)))
     ELSE t

TrimDot(t) == IF t # <<>> /\ Last(t) = Dot THEN Front(t) ELSE t

Cleaned(trimmed) == TrimDot(Lowered(Host(trimmed)))

\* strings.Split at the dots: a label is what has the same number of them
\* before it.
DotsBefore(t, x) == Cardinality({d \in Places(t, Dots) : d < x})
Split(t) ==
  [y \in 1..(Cardinality(Places(t, Dots)) + 1) |->
     Between(t, {x \in DOMAIN t \ Places(t, Dots) : DotsBefore(t, x) = y - 1})]

\* strings.Join with dots.
Joined(ls) ==
  LET joined[m \in DOMAIN ls] ==
        IF m = 1 THEN ls[1] ELSE joined[m - 1] \o <<Dot>> \o ls[m]
  IN joined
Join(ls) == Joined(ls)[Len(ls)]

IsASCII(t) == \A x \in DOMAIN t : IsBasic(t[x])

\* a-z, 0-9, "-", "." and "_".
Allowed(c) == c \in (97..122) \cup (48..57) \cup {45, 46, 95}

-----------------------------------------------------------------------------
Refuse(err) == stage' = "done" /\ result' = [result EXCEPT !.err = err]

Clean ==
  /\ stage = "clean"
  /\ \E t \in {TrimSpace(call.input)} :
     \E d \in {IF call.function = "ToASCII" THEN call.input ELSE Cleaned(t)} :
       IF call.function = "normalizeDomain" /\ d = <<>>
       THEN Refuse("empty") /\ UNCHANGED labels
       ELSE stage' = "labels" /\ labels' = Split(d) /\ UNCHANGED result
  /\ UNCHANGED <<call, i, encodeVars>>

AtLabel == stage = "labels" /\ i <= Len(labels)

\* An empty label is passed by at the end ...
SkipLabel ==
  /\ AtLabel /\ labels[i] = <<>> /\ i = Len(labels)
  /\ i' = i + 1
  /\ UNCHANGED <<call, stage, labels, result, encodeVars>>

\* ... and refused before it.
RefuseLabel ==
  /\ AtLabel /\ labels[i] = <<>> /\ i # Len(labels)
  /\ Refuse("label")
  /\ UNCHANGED <<call, labels, i, encodeVars>>

LowerLabel ==
  /\ AtLabel /\ labels[i] # <<>> /\ IsASCII(labels[i])
  /\ labels' = [labels EXCEPT ![i] = Lowered(labels[i])]
  /\ i' = i + 1
  /\ UNCHANGED <<call, stage, result, encodeVars>>

StartEncode ==
  /\ AtLabel /\ ~ IsASCII(labels[i])
  /\ Encode(labels[i])
  /\ stage' = "encode"
  /\ UNCHANGED <<call, labels, i, result>>

Encoding ==
  /\ stage = "encode" /\ EncodeStep
  /\ UNCHANGED <<call, stage, labels, i, result>>

\* EncoderNeverFails (NormalizeProofs): an error is handled and never comes.
TakeEncoded ==
  /\ stage = "encode" /\ Take
  /\ IF at = "failed"
     THEN Refuse("encode") /\ UNCHANGED <<labels, i>>
     ELSE /\ labels' = [labels EXCEPT ![i] = ACE \o out]
          /\ i' = i + 1 /\ stage' = "labels"
          /\ UNCHANGED result
  /\ UNCHANGED call

\* Faulty: the greatest length is refused.
CheckBelow(text) ==
  CASE Len(text) >= MaxLength -> "long"
    [] Len(text) < MaxLength /\ \E x \in DOMAIN text : ~ Allowed(text[x]) -> "character"
    [] OTHER -> "none"

\* normalizeDomain's last checks: the error they give.
Check(text) ==
  CASE Len(text) > MaxLength -> "long"
    [] Len(text) <= MaxLength /\ \E x \in DOMAIN text : ~ Allowed(text[x]) -> "character"
    [] OTHER -> "none"

Finish ==
  /\ stage = "labels" /\ i > Len(labels)
  /\ LET text == Join(labels)
         err == IF call.function = "ToASCII" THEN "none" ELSE Check(text)
     IN IF err = "none" THEN stage' = "done" /\ result' = [result EXCEPT !.text = text]
                        ELSE Refuse(err)
  /\ UNCHANGED <<call, labels, i, encodeVars>>

NormalizeStep ==
  \/ Clean \/ SkipLabel \/ RefuseLabel \/ LowerLabel \/ StartEncode \/ Encoding
  \/ TakeEncoded \/ Finish

NormalizeSpec == NormalizeInit /\ [][NormalizeStep]_normalizeVars

-----------------------------------------------------------------------------
Accepted == stage = "done" /\ result.err = "none"
Normalizing == call.function = "normalizeDomain"

\* The name that was asked for, label by label, in lower case.
Name == IF Normalizing THEN Cleaned(TrimSpace(call.input)) ELSE call.input
Asked ==
  [x \in DOMAIN Split(Name) |->
     LET l == Split(Name)[x] IN IF IsASCII(l) \/ ~ Normalizing THEN Lowered(l) ELSE l]

\* ToASCII, called directly, lowers ASCII labels only: the others have to be in
\* lower case as they are.
InCase ==
  Normalizing \/ \A x \in DOMAIN Split(Name) :
                   LET l == Split(Name)[x] IN IsASCII(l) \/ Lowered(l) = l

\* An ASCII label stands for itself, any other is an A-label that decodes back
\* to it.
Stands(g, l) ==
  LET code == SubSeq(g, 5, Len(g))
  IN IF IsASCII(l) THEN g = l ELSE g = ACE \o code /\ Decode(code) = l

\* What is asked of the registries is the name that was typed, so two names
\* are never taken for each other (punycode.go:143-165).  ToASCII alone, which
\* does not look at the length, promises it of labels that a domain may have.
SameName ==
  /\ Accepted /\ InCase
  /\ Normalizing \/ \A x \in DOMAIN Asked : Len(Asked[x]) <= MaxLength
  => /\ Len(Split(result.text)) = Len(Asked)
     /\ \A x \in DOMAIN Asked : Stands(Split(result.text)[x], Asked[x])

\* A label is longer than a domain may be, or all of them are once converted.
TooLong ==
  \/ \E x \in DOMAIN Asked : Len(Asked[x]) > MaxLength
  \/ /\ Len(labels) = Len(Asked) /\ \A x \in DOMAIN Asked : Stands(labels[x], Asked[x])
     /\ Len(Join(labels)) > MaxLength

\* Why a name is refused: it is empty, a label in front of another is, it is
\* too long once converted, or it has an ASCII character that domains have
\* not, be it in a label that is encoded (punycode.go:126-131, 163-178).
RefusedRightly ==
  stage = "done" =>
    LET empty == \E x \in 1..(Len(Asked) - 1) : Asked[x] = <<>>
        alien == \E x \in DOMAIN Asked : \E y \in DOMAIN Asked[x] :
                   IsBasic(Asked[x][y]) /\ ~ Allowed(Asked[x][y])
    IN /\ result.err = "empty" <=> Normalizing /\ Name = <<>>
       /\ result.err = "label" <=> empty /\ result.err # "empty"
       /\ result.err = "long" => Normalizing /\ TooLong
       /\ result.err = "character" => Normalizing /\ alien
       /\ Normalizing /\ result.err = "none" => ~ alien /\ Len(result.text) <= MaxLength
       /\ result.err # "encode"
=============================================================================
