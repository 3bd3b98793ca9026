--------------------------- MODULE NormalizeProofs ---------------------------
(***************************************************************************)
(* Theorems about Punycode and Normalize, for labels and names of every    *)
(* length: the encoder never fails, its arithmetic is exact for every      *)
(* label that a domain may have, and what it writes decodes to the label;  *)
(* so what normalizeDomain returns is the name that was typed, and what it *)
(* refuses it refuses for the reason it gives.                             *)
(***************************************************************************)
EXTENDS Normalize, DataLemmas

-----------------------------------------------------------------------------
\* Counting the runes below, or at, a code point.
LEMMA CountType ==
  ASSUME NEW l, NEW m \in Nat, NEW c
  PROVE  /\ IsFiniteSet(Below(l, m, c)) /\ Cardinality(Below(l, m, c)) \in Nat
         /\ IsFiniteSet(Equal(l, m, c)) /\ Cardinality(Equal(l, m, c)) \in Nat
  <1>1. IsFiniteSet(1..m)
    BY Interval
  <1>2. Below(l, m, c) \subseteq 1..m /\ Equal(l, m, c) \subseteq 1..m
    BY DEF Below, Equal
  <1>3. IsFiniteSet(Below(l, m, c)) /\ IsFiniteSet(Equal(l, m, c))
    BY <1>1, <1>2, FS_Subset
  <1> QED BY <1>3, FS_CardinalityType

\* Before the first rune there is none.
LEMMA CountNone ==
  ASSUME NEW l, NEW c
  PROVE  Cardinality(Below(l, 0, c)) = 0 /\ Cardinality(Equal(l, 0, c)) = 0
  <1>1. Below(l, 0, c) = {} /\ Equal(l, 0, c) = {}
    BY DEF Below, Equal
  <1> QED BY <1>1, FS_EmptySet

\* One more rune.
LEMMA CountBelow ==
  ASSUME NEW l, NEW m \in Nat \ {0}, NEW c
  PROVE  Cardinality(Below(l, m, c)) =
           Cardinality(Below(l, m - 1, c)) + IF l[m] < c THEN 1 ELSE 0
  <1>0. IsFiniteSet(Below(l, m - 1, c)) /\ Cardinality(Below(l, m - 1, c)) \in Nat
    BY CountType, m - 1 \in Nat
  <1>1. IsFiniteSet(Below(l, m - 1, c)) /\ m \notin Below(l, m - 1, c)
    BY <1>0 DEF Below
  <1>2. CASE l[m] < c
    <2>1. Below(l, m, c) = Below(l, m - 1, c) \cup {m}
      BY <1>2 DEF Below
    <2> QED BY <1>1, <1>2, <2>1, FS_AddElement
  <1>3. CASE ~ (l[m] < c)
    <2>1. Below(l, m, c) = Below(l, m - 1, c)
      BY <1>3 DEF Below
    <2> QED BY <1>0, <1>3, <2>1
  <1> QED BY <1>2, <1>3

\* One more rune is at the code point, or is not.
LEMMA CountEqual ==
  ASSUME NEW l, NEW m \in Nat \ {0}, NEW c
  PROVE  Cardinality(Equal(l, m, c)) =
           Cardinality(Equal(l, m - 1, c)) + IF l[m] = c THEN 1 ELSE 0
  <1>0. IsFiniteSet(Equal(l, m - 1, c)) /\ Cardinality(Equal(l, m - 1, c)) \in Nat
    BY CountType, m - 1 \in Nat
  <1>1. IsFiniteSet(Equal(l, m - 1, c)) /\ m \notin Equal(l, m - 1, c)
    BY <1>0 DEF Equal
  <1>2. CASE l[m] = c
    <2>1. Equal(l, m, c) = Equal(l, m - 1, c) \cup {m}
      BY <1>2 DEF Equal
    <2> QED BY <1>1, <1>2, <2>1, FS_AddElement
  <1>3. CASE l[m] # c
    <2>1. Equal(l, m, c) = Equal(l, m - 1, c)
      BY <1>3 DEF Equal
    <2> QED BY <1>0, <1>3, <2>1
  <1> QED BY <1>2, <1>3

\* The runes below c + 1 are those below c and those at it.
LEMMA CountUpTo ==
  ASSUME NEW l \in Seq(Nat), NEW c \in Nat
  PROVE  Cardinality(Below(l, Len(l), c + 1)) =
           Cardinality(Below(l, Len(l), c)) + Cardinality(Equal(l, Len(l), c))
  <1>1. Below(l, Len(l), c + 1) = Below(l, Len(l), c) \cup Equal(l, Len(l), c)
    BY DEF Below, Equal
  <1>2. Below(l, Len(l), c) \cap Equal(l, Len(l), c) = {}
    BY DEF Below, Equal
  <1>3. /\ IsFiniteSet(Below(l, Len(l), c)) /\ IsFiniteSet(Equal(l, Len(l), c))
        /\ Cardinality(Below(l, Len(l), c)) \in Nat /\ Cardinality(Equal(l, Len(l), c)) \in Nat
    BY CountType, Len(l) \in Nat
  <1>4. Cardinality({}) = 0
    BY FS_EmptySet
  <1>5. Cardinality(Below(l, Len(l), c) \cup Equal(l, Len(l), c)) =
          Cardinality(Below(l, Len(l), c)) + Cardinality(Equal(l, Len(l), c)) - Cardinality({})
    BY <1>2, <1>3, FS_Union
  <1>6. Cardinality(Below(l, Len(l), c) \cup Equal(l, Len(l), c)) =
          Cardinality(Below(l, Len(l), c)) + Cardinality(Equal(l, Len(l), c))
    BY <1>3, <1>4, <1>5
  <1> QED BY <1>1, <1>6, Zenon

\* There are no more of either than runes looked at ...
LEMMA CountAtMost ==
  ASSUME NEW l \in Seq(Nat), NEW m \in 0..Len(l), NEW c \in Nat
  PROVE  /\ Cardinality(Below(l, Len(l), c)) + Cardinality(Equal(l, m, c)) <= Len(l)
         /\ Cardinality(Below(l, m, c)) <= Cardinality(Below(l, Len(l), c))
  <1>1. Below(l, Len(l), c) \cap Equal(l, m, c) = {}
    BY DEF Below, Equal
  <1>2. Below(l, Len(l), c) \cup Equal(l, m, c) \subseteq 1..Len(l)
    BY DEF Below, Equal
  <1>3. Below(l, m, c) \subseteq Below(l, Len(l), c)
    BY DEF Below
  <1>4. /\ IsFiniteSet(Below(l, Len(l), c)) /\ IsFiniteSet(Equal(l, m, c))
        /\ Cardinality(Below(l, Len(l), c)) \in Nat /\ Cardinality(Equal(l, m, c)) \in Nat
    BY CountType, Len(l) \in Nat, m \in Nat
  <1>5. Cardinality({}) = 0
    BY FS_EmptySet
  <1>6. Cardinality(Below(l, Len(l), c) \cup Equal(l, m, c)) =
          Cardinality(Below(l, Len(l), c)) + Cardinality(Equal(l, m, c)) - Cardinality({})
    BY <1>1, <1>4, FS_Union
  <1>7. IsFiniteSet(1..Len(l)) /\ Cardinality(1..Len(l)) = Len(l)
    BY Interval, Len(l) \in Nat
  <1>8. Cardinality(Below(l, Len(l), c) \cup Equal(l, m, c)) <= Cardinality(1..Len(l))
    BY <1>2, <1>7, FS_Subset
  <1>9. Cardinality(Below(l, m, c)) <= Cardinality(Below(l, Len(l), c))
    BY <1>3, <1>4, FS_Subset
  <1> QED BY <1>4, <1>5, <1>6, <1>7, <1>8, <1>9

\* ... and if there are fewer than runes, one is from c on.
LEMMA SomeLeft ==
  ASSUME NEW l \in Seq(Nat), NEW c \in Nat, Cardinality(Below(l, Len(l), c)) < Len(l)
  PROVE  \E x \in 1..Len(l) : l[x] >= c
  <1> SUFFICES ASSUME \A x \in 1..Len(l) : ~ (l[x] >= c) PROVE FALSE
    OBVIOUS
  <1>1. Below(l, Len(l), c) = 1..Len(l)
    BY DEF Below
  <1>2. Cardinality(1..Len(l)) = Len(l)
    BY Interval, Len(l) \in Nat
  <1> QED BY <1>1, <1>2

\* No rune lies between a code point and the next one there is.
LEMMA SameBelow ==
  ASSUME NEW l \in Seq(Nat), NEW c \in Nat, NEW d \in Nat, d >= c,
         \A y \in 1..Len(l) : l[y] >= c => d <= l[y]
  PROVE  Below(l, Len(l), d) = Below(l, Len(l), c)
  BY DEF Below

-----------------------------------------------------------------------------
\* Fewer than MaxLength + 1 code points, handled or not, and places below
\* MaxCode + 1: delta stays below the word.
LEMMA Fits ==
  ASSUME NEW c \in InitialN..MaxCode, NEW p \in 0..MaxLength, NEW d \in Nat,
         d <= (c - InitialN) * (p + 1) + p + 1
  PROVE  d < Word
  <1> DEFINE a == c - InitialN
             b == p + 1
  <1>1. a \in 0..(MaxCode - 1) /\ b \in 1..(MaxLength + 1)
    BY PunycodeAssumption DEF InitialN
  <1>2. d <= (a + 1) * b
    BY <1>1
  <1> HIDE DEF a, b
  <1>3. (a + 1) * b <= MaxCode * b
    BY <1>1, PunycodeAssumption
  <1>4. MaxCode * b < (MaxCode + 1) * b
    BY <1>1, PunycodeAssumption
  <1>5. (MaxCode + 1) * b <= (MaxCode + 1) * (MaxLength + 1)
    BY <1>1, PunycodeAssumption
  <1>6. /\ (a + 1) * b \in Int /\ MaxCode * b \in Int /\ (MaxCode + 1) * b \in Int
        /\ (MaxCode + 1) * (MaxLength + 1) \in Int
    BY <1>1, PunycodeAssumption
  <1> QED BY <1>2, <1>3, <1>4, <1>5, <1>6, PunycodeAssumption

\* A delta that fits is exact, and one that does not is that of a long label.
LEMMA Exact ==
  ASSUME EncodeTypeOK, WrapsLate, NEW d \in Nat, SetDelta(d),
         Len(label) <= MaxLength /\ ~ wrapped => d < Word
  PROVE  /\ delta' \in 0..(Word - 1) /\ wrapped' \in BOOLEAN
         /\ ~ wrapped' => ~ wrapped /\ delta' = d
         /\ wrapped' => Len(label) > MaxLength
  <1>1. Len(label) \in Nat /\ Word \in Nat \ {0} /\ MaxLength \in Nat
    BY PunycodeAssumption DEF EncodeTypeOK
  <1>2. d % Word \in 0..(Word - 1) /\ (d < Word => d % Word = d)
    BY <1>1
  <1>3. delta' = d % Word /\ wrapped' = (wrapped \/ d >= Word) /\ wrapped \in BOOLEAN
    BY DEF SetDelta, EncodeTypeOK
  <1>4. wrapped' \in BOOLEAN /\ (~ wrapped' => ~ wrapped /\ ~ d >= Word)
    BY <1>3, Zenon
  <1>5. delta' \in 0..(Word - 1)
    BY <1>2, <1>3
  <1>6. ~ wrapped' => ~ wrapped /\ delta' = d
    BY <1>1, <1>2, <1>3, <1>4
  <1>7. ASSUME wrapped' PROVE Len(label) > MaxLength
    <2>1. CASE wrapped
      BY <2>1 DEF WrapsLate
    <2>2. CASE ~ wrapped
      <3>1. d >= Word
        BY <1>3, <1>7, <2>2
      <3> QED BY <1>1, <2>2, <3>1
    <2> QED BY <2>1, <2>2
  <1> QED BY <1>4, <1>5, <1>6, <1>7

\* What is appended to a sequence makes it longer, whatever it is.
LEMMA Appended ==
  ASSUME out \in Seq(Written), NEW e, out' = Append(out, e)
  PROVE  out' \in Seq(Written') /\ Len(out) \in Nat /\ Len(out') = Len(out) + 1
  <1> DEFINE S == Written \cup {e}
  <1>1. out \in Seq(S) /\ e \in S /\ Len(out) \in Nat
    OBVIOUS
  <1> HIDE DEF S
  <1>2. out' \in Seq(S) /\ Len(out') = Len(out) + 1
    BY <1>1
  <1>3. out' \in Seq(Written')
    BY <1>2 DEF Written
  <1> QED BY <1>1, <1>2, <1>3

\* The idle encoder is well.
LEMMA EncodeInitially == EncodeInit => EncodeInv
  <1> SUFFICES ASSUME EncodeInit PROVE EncodeInv
    OBVIOUS
  <1> USE DEF EncodeInit
  <1>1. Len(label) = 0
    OBVIOUS
  <1>2. EncodeTypeOK
    <2>1. label \in Seq(0..MaxCode) /\ out \in Seq(Written)
      OBVIOUS
    <2>2. /\ j \in 1..(Len(label) + 1) /\ h \in 0..Len(label) /\ n \in InitialN..(MaxCode + 1)
          /\ delta \in 0..(Word - 1)
      BY <1>1, PunycodeAssumption DEF InitialN
    <2> QED BY <2>1, <2>2 DEF EncodeTypeOK
  <1>3. CountsHandled
    BY <1>1, CountNone DEF CountsHandled, Counted
  <1>4. Phases /\ NeverFails /\ WrapsLate /\ KeepsLength
    BY DEF Phases, NeverFails, WrapsLate, KeepsLength
  <1>5. DeltaBounded
    BY DEF DeltaBounded, InitialN, Passed
  <1> QED BY <1>2, <1>3, <1>4, <1>5 DEF EncodeInv

-----------------------------------------------------------------------------
(* The invariant is preserved, action by action.                           *)

\* The types, as the provers like them.
LEMMA Typed ==
  ASSUME EncodeTypeOK
  PROVE  /\ label \in Seq(Nat) /\ Len(label) \in Nat /\ MaxCode \in Nat
         /\ \A x \in 1..Len(label) : label[x] \in 0..MaxCode
         /\ h \in Nat /\ h <= Len(label) /\ n \in Nat /\ n >= InitialN /\ n <= MaxCode + 1
         /\ j \in Nat /\ j >= 1 /\ j <= Len(label) + 1 /\ j - 1 \in 0..Len(label)
         /\ delta \in Nat /\ out \in Seq(Written) /\ Len(out) \in Nat
  <1>1. label \in Seq(0..MaxCode) /\ out \in Seq(Written)
    BY DEF EncodeTypeOK
  <1>2. /\ j \in 1..(Len(label) + 1) /\ h \in 0..Len(label)
        /\ n \in InitialN..(MaxCode + 1) /\ delta \in 0..(Word - 1)
    BY DEF EncodeTypeOK
  <1>3. MaxCode \in Nat /\ Word \in Nat /\ InitialN = 128
    BY PunycodeAssumption DEF InitialN
  <1>4. label \in Seq(Nat) /\ Len(label) \in Nat /\ Len(out) \in Nat
        /\ \A x \in 1..Len(label) : label[x] \in 0..MaxCode
    BY <1>1, <1>3
  <1> QED BY <1>1, <1>2, <1>3, <1>4

\* A copied code point is counted.
LEMMA CopyStep ==
  ASSUME EncodeInv, CopyBasic
  PROVE  EncodeInv'
  <1> USE DEF EncodeInv
  <1>1. /\ at = "copy" /\ j <= Len(label) /\ j' = j + 1
        /\ at' = at /\ label' = label /\ n' = n /\ delta' = delta /\ wrapped' = wrapped
    BY DEF CopyBasic
  <1>2. /\ label \in Seq(Nat) /\ Len(label) \in Nat /\ h \in Nat /\ j \in Nat \ {0}
        /\ label[j] \in Nat /\ out \in Seq(Written) /\ Len(out) \in Nat
    BY <1>1, Typed, SMTT(30)
  <1>3. n = 128 /\ delta = 0 /\ ~ wrapped
    BY <1>1 DEF Phases, InitialN
  <1>4. h' = h + (IF label[j] < n THEN 1 ELSE 0)
    BY <1>2, <1>3 DEF CopyBasic, IsBasic
  <1>5. out' \in Seq(Written') /\ Len(out') >= Len(out) + (IF label[j] < n THEN 1 ELSE 0)
        /\ Len(out') \in Nat
    <2>1. CASE label[j] < n
      <3>1. out' = Append(out, label[j])
        BY <1>3, <2>1 DEF CopyBasic, IsBasic
      <3>2. out' \in Seq(Written') /\ Len(out') = Len(out) + 1
        BY <1>2, <3>1, Appended
      <3> QED BY <1>2, <2>1, <3>2
    <2>2. CASE ~ (label[j] < n)
      <3>1. out' = out
        BY <1>3, <2>2 DEF CopyBasic, IsBasic
      <3>2. Written' = Written
        BY <3>1 DEF Written
      <3> QED BY <1>2, <2>2, <3>1, <3>2
    <2> QED BY <2>1, <2>2
  <1>6. h = Cardinality(Below(label, j - 1, n))
    BY <1>1 DEF CountsHandled, Counted
  <1>7. h' = Cardinality(Below(label, j, n))
    BY <1>2, <1>4, <1>6, CountBelow
  <1>8. CountsHandled'
    <2>1. Counted' = Cardinality(Below(label', j' - 1, n'))
      BY <1>1 DEF Counted
    <2>2. j' - 1 = j
      BY <1>1, <1>2
    <2> QED BY <1>1, <1>7, <2>1, <2>2 DEF CountsHandled
  <1>9. h' \in 0..Len(label)
    <2>1. j \in 0..Len(label) /\ n \in Nat
      BY <1>1, <1>2, <1>3
    <2>2. Cardinality(Below(label, j, n)) <= Cardinality(Below(label, Len(label), n))
      BY <1>2, <2>1, CountAtMost
    <2>3. 0 \in 0..Len(label) /\ Cardinality(Equal(label, 0, n)) = 0
      BY <1>2, CountNone
    <2>4. Cardinality(Below(label, Len(label), n)) + Cardinality(Equal(label, 0, n)) <= Len(label)
      BY <1>2, <2>1, <2>3, CountAtMost
    <2>5. Cardinality(Below(label, j, n)) \in Nat /\ Cardinality(Below(label, Len(label), n)) \in Nat
      BY <1>2, CountType
    <2> QED BY <1>2, <1>7, <2>2, <2>3, <2>4, <2>5
  <1>10. EncodeTypeOK'
    BY <1>1, <1>2, <1>5, <1>9 DEF EncodeTypeOK
  <1>11. Phases' /\ NeverFails' /\ WrapsLate'
    BY <1>1, <1>3 DEF Phases, NeverFails, WrapsLate
  <1>12. DeltaBounded'
    <2>1. Passed' = 0 /\ n' = 128 /\ delta' = 0
      BY <1>1, <1>3 DEF Passed
    <2>2. h' \in Nat
      BY <1>2, <1>9
    <2>3. (n' - InitialN) * (h' + 1) = 0
      <3>1. n' - InitialN = 0
        BY <2>1 DEF InitialN
      <3>2. \A z \in Nat : 0 * (z + 1) = 0
        OBVIOUS
      <3> QED BY <2>2, <3>1, <3>2, Zenon
    <2> QED BY <2>1, <2>3 DEF DeltaBounded
  <1>13. KeepsLength'
    BY <1>2, <1>4, <1>5 DEF KeepsLength
  <1> QED BY <1>8, <1>10, <1>11, <1>12, <1>13

\* The hyphen is no rune: h stays.
LEMMA DelimitStep ==
  ASSUME EncodeInv, Delimit
  PROVE  EncodeInv'
  <1> USE DEF EncodeInv
  <1>1. /\ at = "copy" /\ j > Len(label) /\ at' = "search"
        /\ j' = j /\ h' = h /\ label' = label /\ n' = n /\ delta' = delta /\ wrapped' = wrapped
    BY DEF Delimit
  <1>2. /\ Len(label) \in Nat /\ h \in Nat /\ j = Len(label) + 1 /\ j - 1 = Len(label)
        /\ out \in Seq(Written) /\ Len(out) \in Nat
    BY <1>1, Typed
  <1>3. out' \in Seq(Written') /\ Len(out') \in Nat /\ Len(out') >= Len(out)
    <2>1. CASE out' = out
      BY <1>2, <2>1 DEF Written
    <2>2. CASE out' = Append(out, Hyphen)
      BY <1>2, <2>2, Appended
    <2> QED BY <2>1, <2>2 DEF Delimit
  <1>4. CountsHandled'
    BY <1>1, <1>2 DEF CountsHandled, Counted
  <1>5. EncodeTypeOK'
    BY <1>1, <1>3 DEF EncodeTypeOK
  <1>6. Phases' /\ NeverFails' /\ WrapsLate' /\ DeltaBounded'
    BY <1>1 DEF Phases, NeverFails, WrapsLate, DeltaBounded, Passed
  <1>7. KeepsLength'
    <2>1. Len(out') \in Nat
      BY <1>3
    <2> QED BY <1>1, <1>2, <1>3, <2>1 DEF KeepsLength
  <1> QED BY <1>4, <1>5, <1>6, <1>7

\* The next code point there is: everything below it has been handled.
LEMMA AdvanceStep ==
  ASSUME EncodeInv, Advance
  PROVE  EncodeInv'
  <1> USE DEF EncodeInv
  <1>1. /\ at = "search" /\ h < Len(label) /\ at' = "scan" /\ j' = 1
        /\ label' = label /\ h' = h /\ out' = out
    BY DEF Advance
  <1>2. PICK x \in Left : /\ \A y \in Left : label[x] <= label[y]
                          /\ SetDelta(delta + (label[x] - n) * (h + 1))
                          /\ n' = label[x]
    BY DEF Advance
  <1>3. /\ label \in Seq(Nat) /\ Len(label) \in Nat /\ h \in Nat /\ n \in Nat /\ n >= 128
        /\ delta \in Nat /\ MaxCode \in Nat
    BY Typed DEF InitialN
  <1>4. x \in 1..Len(label) /\ label[x] \in 0..MaxCode /\ label[x] >= n
    BY <1>2, Typed DEF Left
  <1>5. Below(label, Len(label), n') = Below(label, Len(label), n)
    <2>1. \A y \in 1..Len(label) : label[y] >= n => n' <= label[y]
      BY <1>2 DEF Left
    <2>2. n' \in Nat /\ n' >= n
      BY <1>2, <1>3, <1>4
    <2> QED BY <1>3, <2>1, <2>2, SameBelow
  <1>6. CountsHandled'
    <2>1. h = Cardinality(Below(label, Len(label), n)) /\ h \in Nat
      BY <1>1, <1>3 DEF CountsHandled, Counted
    <2>2. j' - 1 = 0
      BY <1>1
    <2>3. Cardinality(Equal(label, 0, n')) = 0
      BY CountNone
    <2>4. Counted' = Cardinality(Below(label', Len(label'), n')) + Cardinality(Equal(label', j' - 1, n'))
      BY <1>1 DEF Counted
    <2>5. Counted' = Cardinality(Below(label, Len(label), n)) + 0
      BY <1>1, <1>5, <2>2, <2>3, <2>4, Zenon
    <2> QED BY <1>1, <2>1, <2>5 DEF CountsHandled
  <1> DEFINE a == n - 128
             b == label[x] - n
             p == h + 1
             d == delta + b * p
  <1>7. a \in Nat /\ b \in Nat /\ p \in Nat /\ b * p \in Nat /\ d \in Nat
    <2>1. a \in Nat /\ b \in Nat /\ p \in Nat
      BY <1>3, <1>4
    <2> HIDE DEF a, b, p
    <2>2. b * p \in Nat
      BY <2>1
    <2>3. d \in Nat
      BY <1>3, <2>2
    <2> QED BY <2>1, <2>2, <2>3
  <1>8. ~ wrapped => delta <= a * p
    <2>1. Passed = 0
      BY <1>1 DEF Passed
    <2>2. a * p \in Nat
      BY <1>7
    <2> QED BY <2>1, <2>2 DEF DeltaBounded, InitialN
  <1>9. (label[x] - 128) * (h + 1) = a * p + b * p
    <2>1. label[x] - 128 = a + b
      BY <1>3, <1>4
    <2>2. (a + b) * p = a * p + b * p
      <3> HIDE DEF a, b, p
      <3> QED BY <1>7
    <2> QED BY <2>1, <2>2
  <1>10. ~ wrapped => d <= (label[x] - 128) * (h + 1)
    <2>1. a * p \in Nat
      BY <1>7
    <2> HIDE DEF a, p, b
    <2> QED BY <1>3, <1>7, <1>8, <1>9, <2>1
  <1>11. Len(label) <= MaxLength /\ ~ wrapped => d < Word
    <2> SUFFICES ASSUME Len(label) <= MaxLength, ~ wrapped PROVE d < Word
      OBVIOUS
    <2>1. h \in 0..MaxLength /\ label[x] \in InitialN..MaxCode
      BY <1>1, <1>3, <1>4, PunycodeAssumption DEF InitialN
    <2>2. d <= (label[x] - InitialN) * (h + 1) + h + 1
      <3>1. (label[x] - 128) * (h + 1) \in Int
        BY <1>3, <1>4
      <3> HIDE DEF d
      <3> QED BY <1>3, <1>7, <1>10, <3>1 DEF InitialN
    <2> HIDE DEF d
    <2> QED BY <1>7, <2>1, <2>2, Fits
  <1>12. /\ delta' \in 0..(Word - 1) /\ wrapped' \in BOOLEAN
         /\ ~ wrapped' => ~ wrapped /\ delta' = d
         /\ wrapped' => Len(label) > MaxLength
    <2>1. SetDelta(d)
      BY <1>2
    <2> HIDE DEF d
    <2> QED BY <1>7, <1>11, <2>1, Exact
  <1>13. EncodeTypeOK'
    <2>1. n' \in InitialN..(MaxCode + 1) /\ j' \in 1..(Len(label) + 1)
      <3>1. n' = label[x] /\ label[x] \in 128..(MaxCode + 1)
        BY <1>2, <1>3, <1>4, SMTT(30)
      <3>2. 1 \in 1..(Len(label) + 1)
        BY <1>3
      <3> QED BY <1>1, <3>1, <3>2 DEF InitialN
    <2> HIDE DEF d
    <2> QED BY <1>1, <1>12, <2>1 DEF EncodeTypeOK, Written
  <1>14. Phases' /\ NeverFails' /\ KeepsLength' /\ WrapsLate'
    BY <1>1, <1>2, <1>4, <1>12 DEF Phases, NeverFails, KeepsLength, WrapsLate
  <1>15. DeltaBounded'
    <2>1. Passed' = 0
      <3>1. Passed' = Cardinality(Below(label', j' - 1, n'))
        BY <1>1 DEF Passed
      <3>2. j' - 1 = 0
        BY <1>1
      <3> QED BY <3>1, <3>2, CountNone
    <2>2. (label[x] - 128) * (h + 1) \in Int
      BY <1>3, <1>4
    <2> HIDE DEF d
    <2> QED BY <1>1, <1>2, <1>10, <1>12, <2>1, <2>2 DEF DeltaBounded, InitialN
  <1> QED BY <1>6, <1>13, <1>14, <1>15

\* A rune that is not inserted; one below n is passed.
LEMMA PassStep ==
  ASSUME EncodeInv, PassBy
  PROVE  EncodeInv'
  <1> USE DEF EncodeInv
  <1>1. /\ at = "scan" /\ j <= Len(label) /\ label[j] # n /\ j' = j + 1
        /\ at' = at /\ label' = label /\ h' = h /\ n' = n /\ out' = out
    BY DEF PassBy
  <1>2. /\ label \in Seq(Nat) /\ Len(label) \in Nat /\ h \in Nat /\ n \in Nat /\ n >= 128
        /\ delta \in Nat /\ j \in Nat \ {0} /\ j - 1 \in 0..Len(label) /\ j' - 1 = j
        /\ label[j] \in Nat /\ j \in 0..Len(label)
    <2>1. /\ label \in Seq(Nat) /\ Len(label) \in Nat /\ h \in Nat /\ n \in Nat /\ n >= InitialN
          /\ delta \in Nat /\ j \in Nat /\ j >= 1 /\ j - 1 \in 0..Len(label) /\ MaxCode \in Nat
          /\ \A x \in 1..Len(label) : label[x] \in 0..MaxCode
      BY Typed
    <2>2. n >= 128 /\ j \in Nat \ {0} /\ j \in 0..Len(label) /\ j' - 1 = j
      BY <1>1, <2>1 DEF InitialN
    <2>3. label[j] \in Nat
      BY <1>1, <2>1
    <2> QED BY <2>1, <2>2, <2>3
  <1>3. CountsHandled'
    <2>1. Cardinality(Equal(label, j, n)) = Cardinality(Equal(label, j - 1, n)) + 0
      BY <1>1, <1>2, CountEqual
    <2>2. Cardinality(Equal(label, j - 1, n)) \in Nat
      BY <1>2, CountType
    <2>3. Cardinality(Equal(label', j' - 1, n')) = Cardinality(Equal(label, j - 1, n))
      BY <1>1, <1>2, <2>1, <2>2
    <2>4. Counted' = Cardinality(Below(label', Len(label'), n')) + Cardinality(Equal(label', j' - 1, n'))
      BY <1>1 DEF Counted
    <2>5. Counted = Cardinality(Below(label, Len(label), n)) + Cardinality(Equal(label, j - 1, n))
      BY <1>1 DEF Counted
    <2> QED BY <1>1, <2>3, <2>4, <2>5 DEF CountsHandled
  <1> DEFINE a == (n - InitialN) * (h + 1)
             p == Cardinality(Below(label, j - 1, n))
             d == delta + 1
  <1>4. a \in Int /\ p \in Nat /\ d \in Nat /\ h \in Nat
    <2>1. n - InitialN \in Int /\ h + 1 \in Int
      BY <1>2 DEF InitialN
    <2>2. a \in Int
      BY <2>1
    <2>3. p \in Nat
      BY <1>2, CountType
    <2> QED BY <1>2, <2>2, <2>3
  <1>5. p <= h
    <2>1. p <= Cardinality(Below(label, Len(label), n))
      BY <1>2, CountAtMost
    <2>2. h = Cardinality(Below(label, Len(label), n)) + Cardinality(Equal(label, j - 1, n))
      BY <1>1 DEF CountsHandled, Counted
    <2>3. Cardinality(Below(label, Len(label), n)) \in Nat /\ Cardinality(Equal(label, j - 1, n)) \in Nat
      BY <1>2, CountType
    <2> QED BY <1>4, <2>1, <2>2, <2>3
  <1>6. ~ wrapped => delta <= a + p
    BY <1>1 DEF DeltaBounded, Passed
  <1>7. Len(label) <= MaxLength /\ ~ wrapped => d < Word
    <2> SUFFICES ASSUME Len(label) <= MaxLength, ~ wrapped PROVE d < Word
      OBVIOUS
    <2>1. h \in 0..MaxLength /\ n \in InitialN..MaxCode
      BY <1>1, <1>2, Typed, PunycodeAssumption DEF Phases, InitialN
    <2>2. d <= (n - InitialN) * (h + 1) + h + 1
      <3>1. d <= a + h + 1
        <4> HIDE DEF a, p
        <4> QED BY <1>2, <1>4, <1>5, <1>6
      <3>2. a + h + 1 = (n - InitialN) * (h + 1) + h + 1
        OBVIOUS
      <3> HIDE DEF a, d
      <3> QED BY <3>1, <3>2
    <2> HIDE DEF d
    <2> QED BY <1>4, <2>1, <2>2, Fits
  <1>8. CASE label[j] < n
    <2>1. SetDelta(d)
      BY <1>8 DEF PassBy
    <2>2. /\ delta' \in 0..(Word - 1) /\ wrapped' \in BOOLEAN
          /\ ~ wrapped' => ~ wrapped /\ delta' = d
          /\ wrapped' => Len(label) > MaxLength
      <3> HIDE DEF d
      <3> QED BY <1>4, <1>7, <2>1, Exact
    <2>3. Passed' = p + 1
      <3>1. Passed' = Cardinality(Below(label', j' - 1, n'))
        BY <1>1 DEF Passed
      <3>2. Cardinality(Below(label, j, n)) = p + 1
        BY <1>2, <1>8, CountBelow
      <3> HIDE DEF p
      <3> QED BY <1>1, <1>2, <3>1, <3>2
    <2>4. DeltaBounded'
      <3>1. ~ wrapped' => delta' <= a + Passed'
        <4> HIDE DEF a, p
        <4> QED BY <1>2, <1>4, <1>6, <2>2, <2>3
      <3>2. a = (n' - InitialN) * (h' + 1)
        BY <1>1
      <3> HIDE DEF a
      <3> QED BY <3>1, <3>2 DEF DeltaBounded
    <2>5. EncodeTypeOK'
      <3>1. j' \in 1..(Len(label) + 1)
        BY <1>1, <1>2
      <3> HIDE DEF a, p, d
      <3> QED BY <1>1, <2>2, <3>1 DEF EncodeTypeOK, Written
    <2> QED BY <1>1, <1>3, <2>2, <2>4, <2>5 DEF Phases, NeverFails, KeepsLength, WrapsLate
  <1>9. CASE ~ (label[j] < n)
    <2>1. delta' = delta /\ wrapped' = wrapped
      BY <1>9 DEF PassBy
    <2>2. Passed' = p
      <3>1. Passed' = Cardinality(Below(label', j' - 1, n'))
        BY <1>1 DEF Passed
      <3>2. Cardinality(Below(label, j, n)) = p + 0
        BY <1>2, <1>9, CountBelow
      <3> HIDE DEF p
      <3> QED BY <1>1, <1>2, <1>4, <3>1, <3>2
    <2>3. DeltaBounded'
      <3>1. ~ wrapped' => delta' <= a + Passed'
        <4> HIDE DEF a, p
        <4> QED BY <1>6, <2>1, <2>2
      <3>2. a = (n' - InitialN) * (h' + 1)
        BY <1>1
      <3> HIDE DEF a
      <3> QED BY <3>1, <3>2 DEF DeltaBounded
    <2>4. EncodeTypeOK'
      <3>1. j' \in 1..(Len(label) + 1)
        BY <1>1, <1>2
      <3> HIDE DEF a, p, d
      <3> QED BY <1>1, <2>1, <3>1 DEF EncodeTypeOK, Written
    <2> QED BY <1>1, <1>3, <2>1, <2>3, <2>4 DEF Phases, NeverFails, KeepsLength, WrapsLate
  <1> QED BY <1>8, <1>9

\* A code point is handled only if there is one: the search never fails.
LEMMA FailStep ==
  ASSUME EncodeInv, Fail
  PROVE  FALSE
  <1>1. at = "search" /\ h < Len(label) /\ Left = {}
    BY DEF Fail
  <1>2. label \in Seq(Nat) /\ n \in Nat
    BY Typed DEF EncodeInv
  <1>3. h = Cardinality(Below(label, Len(label), n))
    BY <1>1 DEF EncodeInv, CountsHandled, Counted
  <1>4. \E x \in 1..Len(label) : label[x] >= n
    BY <1>1, <1>2, <1>3, SomeLeft
  <1> QED BY <1>1, <1>4 DEF Left

\* An insertion begins with delta as it is.
LEMMA InsertStep ==
  ASSUME EncodeInv, Insert
  PROVE  EncodeInv'
  <1> USE DEF EncodeInv
  <1>1. /\ at = "scan" /\ j <= Len(label) /\ label[j] = n /\ at' = "digits"
        /\ label' = label /\ j' = j /\ h' = h /\ n' = n /\ delta' = delta
        /\ out' = out /\ wrapped' = wrapped
    BY DEF Insert
  <1>2. EncodeTypeOK' /\ Phases' /\ NeverFails' /\ WrapsLate' /\ KeepsLength'
    BY <1>1 DEF EncodeTypeOK, Phases, NeverFails, WrapsLate, KeepsLength, Written
  <1>3. CountsHandled' /\ DeltaBounded'
    BY <1>1 DEF CountsHandled, Counted, DeltaBounded, Passed
  <1> QED BY <1>2, <1>3

\* A digit more of the same delta.
LEMMA DigitStep ==
  ASSUME EncodeInv, WriteDigit
  PROVE  EncodeInv'
  <1> USE DEF EncodeInv
  <1>1. /\ at = "digits" /\ at' = at /\ label' = label /\ j' = j /\ h' = h /\ n' = n
        /\ delta' = delta /\ wrapped' = wrapped
    BY DEF WriteDigit
  <1>2. h \in Nat /\ out' \in Seq(Written') /\ Len(out) \in Nat /\ Len(out') = Len(out) + 1
    <2>1. h \in Nat /\ out \in Seq(Written)
      BY Typed
    <2>2. out' = Append(out, Digit(Threshold + ((q - Threshold) % (Base - Threshold))))
      BY DEF WriteDigit
    <2> HIDE DEF EncodeInv
    <2> QED BY <2>1, <2>2, Appended
  <1>3. EncodeTypeOK'
    BY <1>1, <1>2 DEF EncodeTypeOK
  <1>4. Phases' /\ NeverFails' /\ WrapsLate' /\ CountsHandled' /\ DeltaBounded'
    BY <1>1 DEF Phases, NeverFails, WrapsLate, CountsHandled, Counted, DeltaBounded, Passed
  <1>5. KeepsLength'
    BY <1>1, <1>2 DEF KeepsLength
  <1> QED BY <1>3, <1>4, <1>5

\* The last digit: one more code point is handled, and delta starts again.
LEMMA LastDigitStep ==
  ASSUME EncodeInv, WriteLastDigit
  PROVE  EncodeInv'
  <1> USE DEF EncodeInv
  <1>1. /\ at = "digits" /\ at' = "scan" /\ label' = label /\ n' = n
        /\ delta' = 0 /\ h' = h + 1 /\ j' = j + 1 /\ wrapped' = wrapped
    BY DEF WriteLastDigit
  <1>2. j <= Len(label) /\ label[j] = n /\ n <= MaxCode
    BY <1>1 DEF Phases
  <1>3. /\ label \in Seq(Nat) /\ Len(label) \in Nat /\ h \in Nat /\ n \in Nat /\ n >= 128
        /\ j \in Nat \ {0} /\ j - 1 \in 0..Len(label) /\ j \in 0..Len(label) /\ j' - 1 = j
        /\ out \in Seq(Written)
    <2>1. /\ label \in Seq(Nat) /\ Len(label) \in Nat /\ h \in Nat /\ n \in Nat /\ n >= InitialN
          /\ j \in Nat /\ j >= 1 /\ j - 1 \in 0..Len(label) /\ out \in Seq(Written)
      BY Typed
    <2>2. n >= 128 /\ j \in Nat \ {0} /\ j \in 0..Len(label) /\ j' - 1 = j
      BY <1>1, <1>2, <2>1 DEF InitialN
    <2> QED BY <2>1, <2>2
  <1>4. out' \in Seq(Written') /\ Len(out) \in Nat /\ Len(out') = Len(out) + 1
    <2>1. out' = Append(out, Digit(q))
      BY DEF WriteLastDigit
    <2> HIDE DEF EncodeInv
    <2> QED BY <1>3, <2>1, Appended
  <1> DEFINE b == Cardinality(Below(label, Len(label), n))
             e == Cardinality(Equal(label, j - 1, n))
             f == Cardinality(Equal(label, j, n))
  <1>5. b \in Nat /\ e \in Nat /\ f \in Nat
    BY <1>3, CountType
  <1>6. f = e + 1
    BY <1>2, <1>3, CountEqual
  <1>7. h = b + e
    BY <1>1 DEF CountsHandled, Counted
  <1>8. b + f <= Len(label)
    BY <1>3, CountAtMost
  <1>9. Counted' = b + f
    <2>1. Counted' = Cardinality(Below(label', Len(label'), n')) + Cardinality(Equal(label', j' - 1, n'))
      BY <1>1 DEF Counted
    <2> QED BY <1>1, <1>3, <2>1
  <1>10. CountsHandled' /\ h' \in 0..Len(label)
    <2> HIDE DEF b, e, f
    <2> QED BY <1>1, <1>3, <1>5, <1>6, <1>7, <1>8, <1>9 DEF CountsHandled
  <1>11. EncodeTypeOK'
    <2>1. j' \in 1..(Len(label) + 1)
      BY <1>1, <1>3
    <2>2. 0 \in 0..(Word - 1)
      BY PunycodeAssumption
    <2> QED BY <1>1, <1>4, <1>10, <2>1, <2>2 DEF EncodeTypeOK
  <1>12. DeltaBounded'
    <2>1. (n - InitialN) * (h' + 1) \in Nat
      <3>1. n - InitialN \in Nat /\ h' + 1 \in Nat
        BY <1>1, <1>3 DEF InitialN
      <3>2. \A x, y \in Nat : x * y \in Nat
        OBVIOUS
      <3> QED BY <3>1, <3>2, Zenon
    <2>2. Passed' \in Nat
      <3>1. Passed' = Cardinality(Below(label, j, n))
        BY <1>1, <1>3 DEF Passed
      <3>2. j \in Nat
        BY <1>3
      <3> QED BY <3>1, <3>2, CountType
    <2>3. (n' - InitialN) * (h' + 1) \in Nat
      BY <1>1, <2>1
    <2>4. 0 <= (n' - InitialN) * (h' + 1) + Passed'
      <3> DEFINE a == (n' - InitialN) * (h' + 1)
      <3>1. a \in Nat
        BY <2>3
      <3> HIDE DEF a
      <3>2. \A x, y \in Nat : 0 <= x + y
        OBVIOUS
      <3>3. 0 <= a + Passed'
        BY <2>2, <3>1, <3>2, Zenon
      <3> QED BY <3>3 DEF a
    <2> QED BY <1>1, <2>4 DEF DeltaBounded
  <1>13. Phases' /\ NeverFails' /\ WrapsLate'
    BY <1>1, <1>2 DEF Phases, NeverFails, WrapsLate
  <1>14. KeepsLength'
    BY <1>1, <1>3, <1>4 DEF KeepsLength
  <1> QED BY <1>10, <1>11, <1>12, <1>13, <1>14

\* The scan has seen every rune: those of n are now below the next n.
LEMMA EndStep ==
  ASSUME EncodeInv, EndScan
  PROVE  EncodeInv'
  <1> USE DEF EncodeInv
  <1>1. /\ at = "scan" /\ j > Len(label) /\ at' = "search" /\ n' = n + 1
        /\ label' = label /\ j' = j /\ h' = h /\ out' = out /\ SetDelta(delta + 1)
    BY DEF EndScan
  <1>2. /\ label \in Seq(Nat) /\ Len(label) \in Nat /\ h \in Nat /\ h <= Len(label)
        /\ n \in Nat /\ n >= 128 /\ n <= MaxCode /\ MaxCode \in Nat
        /\ delta \in Nat /\ j - 1 = Len(label)
    <2>1. /\ label \in Seq(Nat) /\ Len(label) \in Nat /\ h \in Nat /\ h <= Len(label)
          /\ n \in Nat /\ n >= InitialN /\ delta \in Nat /\ MaxCode \in Nat
          /\ j \in Nat /\ j <= Len(label) + 1
      BY Typed
    <2> QED BY <1>1, <2>1 DEF Phases, InitialN
  <1> DEFINE p == Cardinality(Below(label, Len(label), n))
             e == Cardinality(Equal(label, Len(label), n))
             a == (n - InitialN) * (h + 1)
             d == delta + 1
  <1>3. p \in Nat /\ e \in Nat /\ d \in Nat
    BY <1>2, CountType
  <1>4. a \in Nat
    <2>1. n - InitialN \in Nat /\ h + 1 \in Nat
      BY <1>2 DEF InitialN
    <2> QED BY <2>1
  <1>5. h = p + e
    BY <1>1, <1>2 DEF CountsHandled, Counted
  <1>6. CountsHandled'
    <2>1. Counted' = Cardinality(Below(label, Len(label), n + 1))
      BY <1>1 DEF Counted
    <2>2. Cardinality(Below(label, Len(label), n + 1)) = p + e
      BY <1>2, CountUpTo
    <2> HIDE DEF p, e
    <2> QED BY <1>1, <1>5, <2>1, <2>2 DEF CountsHandled
  <1>7. ~ wrapped => delta <= a + p
    BY <1>1, <1>2 DEF DeltaBounded, Passed
  <1>8. ~ wrapped => d <= a + h + 1
    <2> HIDE DEF a, p, e
    <2> QED BY <1>2, <1>3, <1>4, <1>5, <1>7
  <1>9. Len(label) <= MaxLength /\ ~ wrapped => d < Word
    <2> SUFFICES ASSUME Len(label) <= MaxLength, ~ wrapped PROVE d < Word
      OBVIOUS
    <2>1. h \in 0..MaxLength /\ n \in InitialN..MaxCode
      BY <1>2, PunycodeAssumption DEF InitialN
    <2>2. d <= (n - InitialN) * (h + 1) + h + 1
      <3> HIDE DEF d
      <3> QED BY <1>8
    <2> HIDE DEF d
    <2> QED BY <1>3, <2>1, <2>2, Fits
  <1>10. /\ delta' \in 0..(Word - 1) /\ wrapped' \in BOOLEAN
         /\ ~ wrapped' => ~ wrapped /\ delta' = d
         /\ wrapped' => Len(label) > MaxLength
    <2>1. SetDelta(d)
      BY <1>1
    <2> HIDE DEF d
    <2> QED BY <1>3, <1>9, <2>1, Exact
  <1>11. EncodeTypeOK'
    <2>1. n' \in InitialN..(MaxCode + 1)
      BY <1>1, <1>2 DEF InitialN
    <2>2. Written' = Written
      BY <1>1 DEF Written
    <2> HIDE DEF d
    <2> QED BY <1>1, <1>10, <2>1, <2>2 DEF EncodeTypeOK
  <1>12. DeltaBounded'
    <2>1. Passed' = 0
      BY <1>1 DEF Passed
    <2>2. (n' - InitialN) * (h' + 1) = a + h + 1
      <3> DEFINE x == n - InitialN
                 y == h + 1
      <3>1. x \in Nat /\ y \in Nat /\ n + 1 - InitialN = x + 1
        BY <1>2 DEF InitialN
      <3>2. (x + 1) * y = x * y + y
        <4> HIDE DEF x, y
        <4> QED BY <3>1
      <3>3. a = x * y /\ a + h + 1 = a + y
        BY <1>2, <1>4
      <3>4. n' - InitialN = x + 1 /\ h' + 1 = y
        <4>1. n' = n + 1 /\ h' = h /\ n + 1 - InitialN = x + 1
          <5> HIDE DEF x, EncodeInv
          <5> QED BY <1>1, <3>1
        <4>2. h' + 1 = y
          BY <4>1
        <4>3. n' - InitialN = n + 1 - InitialN
          <5>1. n' = n + 1 /\ n \in Nat /\ n' \in Nat
            BY <1>1, <1>2
          <5> HIDE DEF x, y, a, d, p, e, EncodeInv
          <5> QED BY <5>1 DEF InitialN
        <4> QED BY <4>1, <4>2, <4>3
      <3> HIDE DEF a, x, y
      <3>5. (n' - InitialN) * (h' + 1) = (x + 1) * y
        BY <3>4, Zenon
      <3> QED BY <3>2, <3>3, <3>5
    <2> HIDE DEF a, d
    <2> QED BY <1>2, <1>4, <1>8, <1>10, <2>1, <2>2 DEF DeltaBounded
  <1>13. Phases' /\ NeverFails' /\ WrapsLate' /\ KeepsLength'
    BY <1>1, <1>10 DEF Phases, NeverFails, WrapsLate, KeepsLength
  <1> QED BY <1>6, <1>11, <1>12, <1>13

\* All code points are handled.
LEMMA DoneStep ==
  ASSUME EncodeInv, Encoded
  PROVE  EncodeInv'
  <1> USE DEF EncodeInv
  <1>1. /\ at = "search" /\ h >= Len(label) /\ at' = "done"
        /\ label' = label /\ j' = j /\ h' = h /\ n' = n /\ delta' = delta
        /\ out' = out /\ wrapped' = wrapped
    BY DEF Encoded
  <1>2. h = Len(label)
    <2>1. h \in Nat /\ Len(label) \in Nat /\ h <= Len(label)
      BY Typed
    <2> QED BY <1>1, <2>1
  <1>3. EncodeTypeOK' /\ NeverFails' /\ WrapsLate' /\ KeepsLength' /\ Phases'
    BY <1>1, <1>2 DEF EncodeTypeOK, NeverFails, WrapsLate, KeepsLength, Phases, Written
  <1>4. CountsHandled' /\ DeltaBounded'
    BY <1>1 DEF CountsHandled, Counted, DeltaBounded, Passed
  <1> QED BY <1>3, <1>4

\* Once its result is taken the encoder is as in the beginning.
LEMMA TakeStep == Take => EncodeInv'
  <1> SUFFICES ASSUME Take PROVE EncodeInv'
    OBVIOUS
  <1>1. (EncodeInit => EncodeInv)'
    BY EncodeInitially, PTL
  <1>2. EncodeInit'
    BY DEF Take, EncodeInit
  <1> QED BY <1>1, <1>2

\* The loop over the basic code points starts: none of them is counted yet.
LEMMA StartStep ==
  ASSUME EncodeInv, NEW l \in Seq(0..MaxCode), Encode(l)
  PROVE  EncodeInv'
  <1> USE DEF EncodeInv
  <1>1. /\ at = "idle" /\ at' = "copy" /\ label' = l /\ label = <<>>
        /\ j' = j /\ h' = h /\ n' = n /\ delta' = delta /\ out' = out /\ wrapped' = wrapped
    BY DEF Encode, Phases
  <1>2. j = 1 /\ h = 0 /\ n = 128 /\ delta = 0 /\ ~ wrapped
    <2>1. j \in Nat /\ j >= 1 /\ j <= 0 + 1 /\ h \in Nat /\ h <= 0 /\ Len(label) = 0
      BY <1>1, Typed
    <2> QED BY <1>1, <2>1 DEF Phases, InitialN
  <1>3. EncodeTypeOK'
    <2>1. Len(l) \in Nat
      OBVIOUS
    <2>2. j' \in 1..(Len(label') + 1) /\ h' \in 0..Len(label')
      BY <1>1, <1>2, <2>1
    <2> QED BY <1>1, <2>2 DEF EncodeTypeOK, Written
  <1>4. CountsHandled'
    <2>1. Counted' = Cardinality(Below(l, j - 1, n))
      BY <1>1 DEF Counted
    <2>2. j - 1 = 0
      BY <1>2
    <2> QED BY <1>1, <1>2, <2>1, <2>2, CountNone DEF CountsHandled
  <1>5. Phases' /\ NeverFails' /\ WrapsLate' /\ KeepsLength'
    BY <1>1, <1>2 DEF Phases, NeverFails, WrapsLate, KeepsLength
  <1>6. DeltaBounded'
    BY <1>1 DEF DeltaBounded, Passed
  <1> QED BY <1>3, <1>4, <1>5, <1>6

\* Who does not touch the encoder leaves it well.
LEMMA EncodeStutter == EncodeInv /\ UNCHANGED encodeVars => EncodeInv'
  BY DEF EncodeInv, encodeVars, EncodeTypeOK, Written, Phases, CountsHandled, Counted, NeverFails,
     DeltaBounded, Passed, WrapsLate, KeepsLength

\* Whoever has the encoder take a step keeps it well.
LEMMA EncodeInductive ==
  ASSUME EncodeInv, EncodeNext \/ UNCHANGED encodeVars
  PROVE  EncodeInv'
  <1>1. CASE EncodeStep
    BY <1>1, CopyStep, DelimitStep, AdvanceStep, FailStep, PassStep, InsertStep, DigitStep,
       LastDigitStep, EndStep, DoneStep, Zenon DEF EncodeStep
  <1>2. CASE Take
    BY <1>2, TakeStep
  <1>3. CASE \E l \in Seq(0..MaxCode) : Encode(l)
    BY <1>3, StartStep
  <1>4. CASE UNCHANGED encodeVars
    BY <1>4, EncodeStutter
  <1> QED BY <1>1, <1>2, <1>3, <1>4 DEF EncodeNext

-----------------------------------------------------------------------------
\* The arithmetic of an encoder stays within a uint32 for every label that a
\* domain may have, and a label too long for that is recognised by the length
\* of what is written.
THEOREM EncodeInvariant == EncodeSpec => []EncodeInv
  <1>1. EncodeInv /\ [EncodeNext]_encodeVars => EncodeInv'
    BY EncodeInductive
  <1> QED BY EncodeInitially, <1>1, PTL DEF EncodeSpec

\* "no code point >= n" (punycode.go:75) is never returned.
THEOREM EncoderNeverFails == EncodeSpec => []NeverFails
  BY EncodeInvariant, PTL DEF EncodeInv

\* A label too long for the arithmetic has an encoding too long for a domain.
LEMMA DoneExact ==
  ASSUME EncodeInv
  PROVE  EncodedExactly
  <1> SUFFICES ASSUME at = "done", Len(out) <= MaxLength, wrapped PROVE FALSE
    BY DEF EncodedExactly
  <1>1. h = Len(label) /\ Len(out) >= h /\ Len(label) > MaxLength
    BY DEF EncodeInv, Phases, KeepsLength, WrapsLate
  <1>2. h \in Nat /\ Len(out) \in Nat /\ MaxLength \in Nat
    BY Typed, PunycodeAssumption DEF EncodeInv
  <1> QED BY <1>1, <1>2

\* An encoding that is short enough for a domain was computed without an
\* overflow (punycode.go:79, 88): no two labels share it for that reason.
THEOREM EncodesExactly == EncodeSpec => []EncodedExactly
  <1>1. EncodeInv => EncodedExactly
    BY DoneExact
  <1> QED BY <1>1, EncodeInvariant, PTL

-----------------------------------------------------------------------------
(* Scaling a delta down, in the encoder and in the decoder.                *)

Scales(g) ==
  g = [d \in Nat |-> IF d > 455 THEN 36 + g[d \div 35] ELSE (36 * d) \div (d + 38)]

\* The recursion goes down to where it ends.
LEMMA ScalesLess ==
  ASSUME NEW d \in Nat
  PROVE  /\ d \div 35 \in Nat /\ (36 * d) \div (d + 38) \in Nat
         /\ d > 455 => d \div 35 < d
<1>1. d \div 35 \in Nat /\ (d > 455 => d \div 35 < d)
  OBVIOUS
<1>2. 36 * d \in Nat /\ d + 38 \in Nat \ {0}
  OBVIOUS
<1>3. \A a \in Nat, b \in Nat \ {0} : a \div b \in Nat
  OBVIOUS
<1>4. (36 * d) \div (d + 38) \in Nat
  BY <1>2, <1>3, Zenon
<1> QED BY <1>1, <1>4

\* There is one such function ...
LEMMA ScalesExists == \E g \in [Nat -> Nat] : Scales(g)
<1> DEFINE S == [Nat -> Nat]
           next(f) == [d \in Nat |-> IF d > 455 THEN 36 + f[d \div 35] ELSE (36 * d) \div (d + 38)]
           base == [d \in Nat |-> 0]
           step == [m \in Nat |-> [f \in S |-> next(f)]]
<1>1. base \in S
  OBVIOUS
<1>2. ASSUME NEW f \in S PROVE next(f) \in S
  <2>1. ASSUME NEW d \in Nat
        PROVE  (IF d > 455 THEN 36 + f[d \div 35] ELSE (36 * d) \div (d + 38)) \in Nat
    BY ScalesLess
  <2> QED BY <2>1
<1>3. step \in [Nat -> [S -> S]]
  <2> HIDE DEF S, next
  <2> QED BY <1>2
<1>4. PICK F \in [Nat -> S] : F[0] = base /\ \A m \in Nat : F[m + 1] = step[m + 1][F[m]]
  <2> HIDE DEF S, base, step
  <2>1. \E F : Recurses(F, S, base, step)
    BY <1>1, <1>3, Recursion, Zenon
  <2> QED BY <2>1 DEF Recurses
<1>5. ASSUME NEW m \in Nat PROVE F[m] \in S /\ F[m + 1] = next(F[m])
  <2> HIDE DEF S, next
  <2>1. m + 1 \in Nat
    OBVIOUS
  <2>2. F[m] \in S /\ F[m + 1] = step[m + 1][F[m]]
    BY <1>4 
  <2>3. step[m + 1][F[m]] = next(F[m])
    BY <2>1, <2>2
  <2> QED BY <2>2, <2>3
<1> DEFINE g == [d \in Nat |-> F[d + 1][d]]
<1>6. g \in [Nat -> Nat]
  <2>1. ASSUME NEW d \in Nat PROVE F[d + 1][d] \in Nat
    <3>1. d + 1 \in Nat
      OBVIOUS
    <3>2. F[d + 1] \in [Nat -> Nat]
      BY <1>5, <3>1
    <3> QED BY <3>2
  <2> QED BY <2>1
<1>7. ASSUME NEW d \in Nat, NEW m \in Nat
      PROVE  F[m + 1][d] = IF d > 455 THEN 36 + F[m][d \div 35] ELSE (36 * d) \div (d + 38)
  <2>1. F[m + 1] = next(F[m])
    BY <1>5
  <2> QED BY <2>1
<1>8. ASSUME NEW d \in Nat PROVE g[d] = F[d + 1][d]
  OBVIOUS
<1> DEFINE Same == {m \in Nat : \A l \in 0..m : \A d \in 0..(l - 1) : F[l][d] = g[d]}
<1> HIDE DEF g, S, step, base, next
<1>9. Same = Nat
  <2>1. 0 \in Same
    OBVIOUS
  <2>2. ASSUME NEW m \in Same PROVE m + 1 \in Same
    <3>1. m \in Nat /\ \A l \in 0..m : \A d \in 0..(l - 1) : F[l][d] = g[d]
      BY <2>2
    <3>2. ASSUME NEW d \in 0..m PROVE F[m + 1][d] = g[d]
      <4>1. d \in Nat /\ d \in 0..m
        BY <3>1
      <4>2. F[m + 1][d] = IF d > 455 THEN 36 + F[m][d \div 35] ELSE (36 * d) \div (d + 38)
        BY <1>7, <3>1, <4>1
      <4>3. g[d] = IF d > 455 THEN 36 + F[d][d \div 35] ELSE (36 * d) \div (d + 38)
        BY <1>7, <1>8, <4>1
      <4>4. d > 455 => d \div 35 \in 0..(m - 1) /\ d \div 35 \in 0..(d - 1)
        <5>1. d \div 35 \in Nat /\ (d > 455 => d \div 35 < d)
          BY <4>1, ScalesLess
        <5> QED BY <3>1, <4>1, <5>1
      <4>5. d > 455 => F[m][d \div 35] = g[d \div 35] /\ F[d][d \div 35] = g[d \div 35]
        <5>1. m \in 0..m
          BY <3>1
        <5> QED BY <3>1, <4>1, <4>4, <5>1
      <4> QED BY <4>2, <4>3, <4>5
    <3>3. ASSUME NEW l \in 0..(m + 1) PROVE \A d \in 0..(l - 1) : F[l][d] = g[d]
      <4>1. CASE l \in 0..m
        BY <3>1, <4>1
      <4>2. CASE l = m + 1
        <5>1. (m + 1) - 1 = m
          BY <3>1
        <5> QED BY <3>2, <4>2, <5>1
      <4> QED BY <3>1, <4>1, <4>2
    <3> QED BY <3>1, <3>3
  <2> HIDE DEF Same
  <2>3. Same \in SUBSET Nat
    BY DEF Same
  <2> QED BY <2>1, <2>2, <2>3, Induction
<1>10. ASSUME NEW d \in Nat
       PROVE  g[d] = IF d > 455 THEN 36 + g[d \div 35] ELSE (36 * d) \div (d + 38)
  <2>1. g[d] = IF d > 455 THEN 36 + F[d][d \div 35] ELSE (36 * d) \div (d + 38)
    BY <1>7, <1>8
  <2>2. d > 455 => F[d][d \div 35] = g[d \div 35]
    <3>1. d > 455 => d \div 35 \in 0..(d - 1)
      BY ScalesLess
    <3>2. d \in 0..d
      OBVIOUS
    <3>3. d \in Same
      BY <1>9
    <3> QED BY <3>1, <3>2, <3>3
  <2> QED BY <2>1, <2>2
<1>11. Scales(g)
  <2> DEFINE body(d) == IF d > 455 THEN 36 + g[d \div 35] ELSE (36 * d) \div (d + 38)
  <2>1. \A d \in Nat : g[d] = body(d)
    BY <1>10
  <2>2. g = [d \in Nat |-> g[d]]
    BY <1>6
  <2> HIDE DEF body
  <2>3. g = [d \in Nat |-> body(d)]
    BY <2>1, <2>2
  <2> QED BY <2>3 DEF Scales, body
<1> QED BY <1>6, <1>11

\* ... and no other.
LEMMA ScalesUnique ==
  ASSUME NEW f, NEW g, Scales(f), Scales(g), NEW d \in Nat
  PROVE  f[d] = g[d]
<1> DEFINE Apart == {e \in Nat : f[e] # g[e]}
<1>1. ASSUME NEW e \in Nat
      PROVE  /\ f[e] = IF e > 455 THEN 36 + f[e \div 35] ELSE (36 * e) \div (e + 38)
             /\ g[e] = IF e > 455 THEN 36 + g[e \div 35] ELSE (36 * e) \div (e + 38)
  BY Zenon DEF Scales
<1>2. Apart = {}
  <2> SUFFICES ASSUME Apart # {} PROVE FALSE
    OBVIOUS
  <2>1. PICK e \in Apart : \A x \in Apart : e <= x
    <3>1. Apart \in SUBSET Nat
      OBVIOUS
    <3> HIDE DEF Apart
    <3> QED BY <3>1, LeastNumber
  <2>2. e \in Nat /\ f[e] # g[e]
    BY <2>1
  <2>3. e > 455
    BY <1>1, <2>2
  <2>4. e \div 35 \in Nat /\ e \div 35 < e
    BY <2>2, <2>3, ScalesLess
  <2>5. f[e \div 35] = g[e \div 35]
    BY <2>1, <2>2, <2>4
  <2> QED BY <1>1, <2>2, <2>5
<1> QED BY <1>2

\* The encoder's scaling solves the equation, ...
LEMMA ScaledIs == Scales(Scaled) /\ \A d \in Nat : Scaled[d] \in Nat
<1>1. PICK g \in [Nat -> Nat] : Scales(g)
  BY ScalesExists
<1>2. ((Base - TMin) * TMax) \div 2 = 455 /\ Base - TMin + 1 = 36 /\ Base - TMin = 35
  BY DEF Base, TMin, TMax
<1>3. Scales(Scaled)
  <2>1. Scaled = CHOOSE f : f = [d \in Nat |-> IF d > ((Base - TMin) * TMax) \div 2 THEN Base + f[d \div (Base - TMin)]
                                         ELSE ((Base - TMin + 1) * d) \div (d + Skew)]
    BY DEF Scaled
  <2>2. Scaled = CHOOSE f : f = [d \in Nat |-> IF d > 455 THEN 36 + f[d \div 35]
                                         ELSE (36 * d) \div (d + 38)]
    BY <1>2, <2>1 DEF Base, Skew
  <2>3. \E f : f = [d \in Nat |-> IF d > 455 THEN 36 + f[d \div 35] ELSE (36 * d) \div (d + 38)]
    BY <1>1 DEF Scales
  <2> QED BY <2>2, <2>3, ZenonT(40) DEF Scales
<1>4. \A d \in Nat : Scaled[d] = g[d]
  BY <1>1, <1>3, ScalesUnique
<1> QED BY <1>3, <1>4

\* ... and so does the decoder's.
LEMMA ShrinkIs == Scales(Shrink)
<1>1. PICK g \in [Nat -> Nat] : Scales(g)
  BY ScalesExists
<1> QED BY <1>1, Zenon DEF Shrink, Scales

\* The bias is adapted alike.
LEMMA SameBias ==
  ASSUME NEW d \in Nat, NEW points \in Nat \ {0}, NEW first \in BOOLEAN
  PROVE  /\ Adapt(d, points, first) = NewBias(d, points, first)
         /\ Adapt(d, points, first) \in Nat
<1> DEFINE e == IF first THEN d \div 700 ELSE d \div 2
<1>1. e \in Nat
  OBVIOUS
<1>2. \A x \in Nat, y \in Nat \ {0} : x + x \div y \in Nat
  OBVIOUS
<1> HIDE DEF e
<1>3. e + e \div points \in Nat
  BY <1>1, <1>2
<1>4. Scaled[e + e \div points] = Shrink[e + e \div points] /\ Scaled[e + e \div points] \in Nat
  BY <1>3, ScaledIs, ShrinkIs, ScalesUnique
<1> QED BY <1>4 DEF Adapt, NewBias, Damp, e

-----------------------------------------------------------------------------
(* The decoder eats one digit after the other.                             *)

\* The decoder after m digits is one digit further than after m - 1.
LEMMA RunIs ==
  ASSUME NEW text, NEW s
  PROVE  /\ Run(text, s)[0] = Start(text)
         /\ \A m \in Nat : Run(text, s)[m + 1] = Eat(Run(text, s)[m], s[m + 1])
<1> DEFINE first == Start(text)
           next(d, m) == Eat(d, s[m])
           Runs(f) == f = [m \in Nat |-> IF m = 0 THEN first ELSE next(f[m - 1], m)]
           Begins(m, f) == /\ f[0] = first
                           /\ \A l \in 0..(m - 1) : f[l + 1] = next(f[l], l + 1)
<1>1. Run(text, s) = CHOOSE f : Runs(f)
  BY DEF Run
<1> HIDE DEF first, next
<1>2. ASSUME NEW m \in Nat PROVE \E f : Begins(m, f)
  <2> DEFINE Some == {l \in Nat : \E f : Begins(l, f)}
  <2>1. 0 \in Some
    <3>1. Begins(0, [l \in 0..0 |-> first])
      OBVIOUS
    <3> QED BY <3>1
  <2>2. ASSUME NEW l \in Some PROVE l + 1 \in Some
    <3>1. PICK f : Begins(l, f)
      BY <2>2
    <3>2. l \in Nat
      BY <2>2
    <3> DEFINE g == [x \in 0..(l + 1) |-> IF x <= l THEN f[x] ELSE next(f[l], l + 1)]
    <3>3. g[0] = first
      BY <3>1, <3>2
    <3>4. ASSUME NEW x \in 0..((l + 1) - 1) PROVE g[x + 1] = next(g[x], x + 1)
      <4>1. x \in 0..(l + 1) /\ x + 1 \in 0..(l + 1) /\ x <= l
        BY <3>2
      <4>2. g[x] = f[x]
        BY <4>1
      <4>3. CASE x = l
        BY <3>2, <4>1, <4>2, <4>3
      <4>4. CASE x \in 0..(l - 1)
        <5>1. g[x + 1] = f[x + 1]
          BY <3>2, <4>1, <4>4
        <5> QED BY <3>1, <4>2, <4>4, <5>1
      <4> QED BY <3>2, <4>3, <4>4
    <3> HIDE DEF g
    <3>5. Begins(l + 1, g)
      BY <3>3, <3>4
    <3> QED BY <3>2, <3>5
  <2> HIDE DEF Some
  <2>3. Some \in SUBSET Nat
    BY DEF Some
  <2>4. Some = Nat
    BY <2>1, <2>2, <2>3, Induction
  <2> QED BY <2>4 DEF Some
<1>3. ASSUME NEW l \in Nat, NEW m \in Nat, NEW f, NEW g, Begins(l, f), Begins(m, g),
             NEW x \in Nat, x <= l, x <= m
      PROVE  f[x] = g[x]
  <2> DEFINE Same == {y \in Nat : y <= l /\ y <= m => f[y] = g[y]}
  <2>1. 0 \in Same
    BY <1>3
  <2>2. ASSUME NEW y \in Same PROVE y + 1 \in Same
    <3> SUFFICES ASSUME y + 1 <= l, y + 1 <= m PROVE f[y + 1] = g[y + 1]
      OBVIOUS
    <3>1. y \in 0..(l - 1) /\ y \in 0..(m - 1) /\ f[y] = g[y]
      OBVIOUS
    <3> QED BY <1>3, <3>1
  <2> HIDE DEF Same
  <2>3. Same \in SUBSET Nat
    BY DEF Same
  <2>4. Same = Nat
    BY <2>1, <2>2, <2>3, Induction
  <2> QED BY <1>3, <2>4 DEF Same
<1> DEFINE H(m) == CHOOSE f : Begins(m, f)
           F == [m \in Nat |-> H(m)[m]]
<1>4. ASSUME NEW m \in Nat PROVE Begins(m, H(m))
  BY <1>2
<1> HIDE DEF H
<1>5. ASSUME NEW m \in Nat, m # 0 PROVE F[m] = next(F[m - 1], m)
  <2>1. m - 1 \in Nat /\ m - 1 \in 0..(m - 1) /\ m - 1 <= m /\ m - 1 <= m - 1 /\ (m - 1) + 1 = m
    BY <1>5
  <2>2. Begins(m, H(m)) /\ Begins(m - 1, H(m - 1))
    BY <1>4, <2>1
  <2>3. H(m)[(m - 1) + 1] = next(H(m)[m - 1], (m - 1) + 1)
    BY <2>1, <2>2
  <2> HIDE DEF Begins
  <2>4. H(m)[m - 1] = H(m - 1)[m - 1]
    BY <1>3, <2>1, <2>2
  <2>5. F[m] = H(m)[m] /\ F[m - 1] = H(m - 1)[m - 1]
    BY <2>1
  <2> HIDE DEF F
  <2> QED BY <2>1, <2>3, <2>4, <2>5
<1>6. F[0] = first
  BY <1>4
<1>7. Runs(F)
  <2> DEFINE body(m) == IF m = 0 THEN first ELSE next(F[m - 1], m)
  <2>1. \A m \in Nat : F[m] = body(m)
    BY <1>5, <1>6
  <2>2. F = [m \in Nat |-> F[m]]
    OBVIOUS
  <2> HIDE DEF F, body
  <2>3. F = [m \in Nat |-> body(m)]
    BY <2>1, <2>2
  <2> QED BY <2>3 DEF body
<1> DEFINE R == Run(text, s)
<1> HIDE DEF Runs, F, R
<1>8. Runs(R)
  BY <1>1, <1>7 DEF R
<1>9. ASSUME NEW m \in Nat PROVE R[m] = IF m = 0 THEN first ELSE next(R[m - 1], m)
  BY <1>8, Zenon DEF Runs
<1>10. ASSUME NEW m \in Nat PROVE R[m + 1] = next(R[m], m + 1)
  <2>1. m + 1 \in Nat /\ m + 1 # 0 /\ (m + 1) - 1 = m
    OBVIOUS
  <2> QED BY <1>9, <2>1
<1> QED BY <1>9, <1>10 DEF first, next, R

\* It depends on the digits read, not on those to come.
LEMMA RunSame ==
  ASSUME NEW text, NEW s, NEW u, NEW m \in Nat, Alike(s, u, m)
  PROVE  Run(text, s)[m] = Run(text, u)[m]
<1> DEFINE Same == {l \in Nat : l <= m => Run(text, s)[l] = Run(text, u)[l]}
<1>1. 0 \in Same
  BY RunIs
<1>2. ASSUME NEW l \in Same PROVE l + 1 \in Same
  <2> SUFFICES ASSUME l + 1 <= m PROVE Run(text, s)[l + 1] = Run(text, u)[l + 1]
    OBVIOUS
  <2>1. l \in Nat /\ l + 1 \in 1..m /\ Run(text, s)[l] = Run(text, u)[l]
    OBVIOUS
  <2> QED BY <2>1, RunIs DEF Alike
<1> HIDE DEF Same
<1>3. Same \in SUBSET Nat
  BY DEF Same
<1>4. Same = Nat
  BY <1>1, <1>2, <1>3, Induction
<1> QED BY <1>4 DEF Same

\* The decoder after all of s.
State(text, s) == Run(text, s)[Len(s)]

\* One more digit is eaten last.
LEMMA StateMore ==
  ASSUME NEW text, NEW s \in Seq(Nat), NEW c \in Nat
  PROVE  State(text, Append(s, c)) = Eat(State(text, s), c)
<1> DEFINE u == Append(s, c)
           m == Len(s)
<1>1. m \in Nat /\ Len(u) = m + 1 /\ u[m + 1] = c
  OBVIOUS
<1>0. Alike(s, u, m)
  BY DEF Alike
<1> HIDE DEF u, m
<1>2. Run(text, u)[m + 1] = Eat(Run(text, u)[m], u[m + 1])
  BY <1>1, RunIs
<1>3. Run(text, s)[m] = Run(text, u)[m]
  BY <1>1, <1>0, RunSame
<1> QED BY <1>1, <1>2, <1>3 DEF State, u, m

-----------------------------------------------------------------------------
(* One digit, written and read.                                            *)

\* The decoder reads the digit that the encoder writes.
LEMMA DigitRead ==
  ASSUME NEW d \in 0..35
  PROVE  DigitValue(Digit(d)) = d /\ Digit(d) \in Nat /\ Digit(d) # Hyphen
  BY DEF DigitValue, Digit, Hyphen

\* Both have the same threshold.
LEMMA SameThreshold ==
  ASSUME k \in Nat, bias \in Nat
  PROVE  Threshold = TLimit(k, bias) /\ Threshold \in 1..26
  BY DEF Threshold, TLimit, TMin, TMax

\* A digit and the rest, put together again.
LEMMA DigitSplit ==
  ASSUME NEW p \in Nat, NEW t \in 1..26, p >= t
  PROVE  LET d == t + ((p - t) % (36 - t))
             r == (p - t) \div (36 - t)
         IN d \in 0..35 /\ d >= t /\ r \in Nat /\ d + r * (36 - t) = p
<1> DEFINE a == p - t
           b == 36 - t
           x == a \div b
           y == a % b
<1>1. a \in Nat /\ b \in Nat \ {0} /\ p = t + a /\ b = 36 - t
  OBVIOUS
<1> HIDE DEF a, b
<1>2. y \in 0..(b - 1) /\ x \in Nat /\ x * b + y = a
  BY <1>1, Division
<1>3. x * b \in Nat
  BY <1>1, <1>2
<1> HIDE DEF x, y
<1>4. t + y \in 0..35 /\ t + y >= t
  BY <1>1, <1>2
<1>5. (t + y) + x * b = p
  <2> DEFINE z == x * b
  <2>1. z \in Nat /\ z + y = a
    BY <1>2, <1>3
  <2> HIDE DEF z
  <2>2. (t + y) + z = p
    BY <1>1, <1>2, <2>1
  <2> QED BY <2>2 DEF z
<1> QED BY <1>2, <1>4, <1>5 DEF a, b, x, y

\* The weight of a digit and of the rest.
LEMMA Weighs ==
  ASSUME NEW v \in Nat, NEW w \in Nat, NEW d \in Nat, NEW r \in Nat, NEW c \in Nat
  PROVE  (v + d * w) + r * (w * c) = v + (d + r * c) * w /\ v + d * w \in Nat /\ w * c \in Nat
<1>1. \A x, y \in Nat : x * y \in Nat
  OBVIOUS
<1>2. (d + r * c) * w = d * w + (r * c) * w
  BY <1>1
<1>3. (r * c) * w = r * (w * c)
  BY <1>1
<1>4. d * w \in Nat /\ r * (w * c) \in Nat /\ w * c \in Nat
  BY <1>1
<1> DEFINE a == d * w
           b == r * (w * c)
<1>5. a \in Nat /\ b \in Nat /\ (d + r * c) * w = a + b
  BY <1>2, <1>3, <1>4
<1> HIDE DEF a, b
<1>6. (v + a) + b = v + (d + r * c) * w
  BY <1>5
<1> QED BY <1>4, <1>6 DEF a, b

\* What stands where after an insertion.
LEMMA InsertedAt ==
  ASSUME NEW t \in Seq(Nat), NEW r \in 0..Len(t), NEW c \in Nat
  PROVE  LET u == InsertAt(t, r + 1, c)
         IN /\ u \in Seq(Nat) /\ Len(t) \in Nat /\ Len(u) = Len(t) + 1 /\ u[r + 1] = c
            /\ \A y \in 1..r : u[y] = t[y]
            /\ \A y \in (r + 1)..Len(t) : u[y + 1] = t[y]
<1> DEFINE a == SubSeq(t, 1, (r + 1) - 1)
           b == SubSeq(t, r + 1, Len(t))
           e == <<c>>
           f == a \o e
           u == f \o b
<1>1. Len(t) \in Nat /\ r \in Nat /\ r <= Len(t) /\ (r + 1) - 1 = r
  OBVIOUS
<1>2. a \in Seq(Nat) /\ Len(a) = r /\ \A y \in 1..r : a[y] = t[y]
  BY <1>1
<1>3. b \in Seq(Nat) /\ Len(b) = Len(t) - r /\ \A y \in 1..(Len(t) - r) : b[y] = t[r + y]
  BY <1>1
<1>4. e \in Seq(Nat) /\ Len(e) = 1 /\ e[1] = c
  OBVIOUS
<1> HIDE DEF a, b, e
<1>5. /\ f \in Seq(Nat) /\ Len(f) = Len(a) + Len(e)
      /\ \A x \in 1..Len(a) : f[x] = a[x]
      /\ \A x \in 1..Len(e) : f[Len(a) + x] = e[x]
  BY <1>2, <1>4, ConcatIs
<1> HIDE DEF f
<1>6. /\ u \in Seq(Nat) /\ Len(u) = Len(f) + Len(b)
      /\ \A x \in 1..Len(f) : u[x] = f[x]
      /\ \A x \in 1..Len(b) : u[Len(f) + x] = b[x]
  BY <1>3, <1>5, ConcatIs
<1>10. u = InsertAt(t, r + 1, c)
  BY DEF InsertAt, a, b, e, f
<1> HIDE DEF u
<1>7. Len(f) = r + 1 /\ Len(u) = Len(t) + 1
  BY <1>1, <1>2, <1>3, <1>4, <1>5, <1>6
<1>8. u[r + 1] = c
  <2>1. 1 \in 1..Len(e) /\ r + 1 \in 1..Len(f)
    BY <1>1, <1>4, <1>7
  <2>2. f[r + 1] = c
    BY <1>2, <1>4, <1>5, <2>1
  <2>3. u[r + 1] = f[r + 1]
    BY <1>6, <2>1, Zenon
  <2> QED BY <2>2, <2>3
<1>9. ASSUME NEW y \in 1..r PROVE u[y] = t[y]
  <2>1. y \in 1..Len(a) /\ y \in 1..Len(f)
    BY <1>1, <1>2, <1>7
  <2> QED BY <1>2, <1>5, <1>6, <2>1
<1>11. ASSUME NEW y \in (r + 1)..Len(t) PROVE u[y + 1] = t[y]
  <2>1. y - r \in 1..(Len(t) - r) /\ r + (y - r) = y /\ y + 1 = (r + 1) + (y - r)
    BY <1>1
  <2>2. y - r \in 1..Len(b) /\ y + 1 = Len(f) + (y - r)
    BY <1>3, <1>7, <2>1
  <2>3. u[y + 1] = b[y - r]
    BY <1>6, <2>2
  <2> QED BY <1>3, <2>1, <2>3
<1> QED BY <1>1, <1>6, <1>7, <1>8, <1>9, <1>10, <1>11

-----------------------------------------------------------------------------
(* What is written decodes to what was handled.                            *)

Basics == {x \in 1..Len(label) : IsBasic(label[x])}
Foreign == \E x \in 1..Len(label) : ~ IsBasic(label[x])

\* The hyphen, 0 if there is none, and what the decoder makes of the rest.
Cut == IF NBasic = 0 THEN 0 ELSE NBasic + 1
Decoder == State(SubSeq(out, 1, Cut - 1), SubSeq(out, Cut + 1, Len(out)))

Delimited ==
  /\ out \in Seq(Nat) /\ Cut <= Len(out)
  /\ Cut > 0 => out[Cut] = Hyphen
  /\ \A x \in (Cut + 1)..Len(out) : out[x] # Hyphen

\* The runes that have been inserted: those below n, and those of n that the
\* scan has passed.
Scanned == IF at \in {"scan", "digits"} THEN j - 1 ELSE 0
Handled == {x \in 1..Len(label) : label[x] < n \/ (label[x] = n /\ x <= Scanned)}

DecoderType ==
  [text : Seq(Nat), code : Nat, i : Nat, old : Nat, w : Nat, pos : Nat, bias : Nat]

\* The decoder has inserted the same, and stands where the encoder does: both
\* count h + 1 places for each code point.
Follows(d) ==
  /\ d \in DecoderType
  /\ Picks(d.text, label, Handled) /\ Len(d.text) = h
  /\ d.code * (h + 1) + d.old + delta = n * (h + 1) + RankIn(Handled, Scanned)
  /\ NBasic <= h /\ (d.old = 0 <=> h = NBasic)
  /\ d.bias = bias

\* The digits that were written give the rest of delta its weight.
Weighed(d) ==
  IF at = "digits" THEN d.pos = k /\ d.i + q * d.w = d.old + delta
  ELSE d.pos = 36 /\ d.w = 1 /\ d.i = d.old

RoundTrip ==
  /\ bias \in Nat /\ q \in Nat /\ k \in Nat
  /\ at \in {"idle", "copy"} => bias = InitialBias
  /\ at = "idle" => j = 1 /\ h = 0 /\ out = <<>>
  /\ at = "copy" => out \in Seq(Nat) /\ Picks(out, label, Basics \cap (1..(j - 1)))
  /\ at \in {"search", "scan", "digits", "done"} /\ Foreign /\ ~ wrapped =>
       Delimited /\ Follows(Decoder) /\ Weighed(Decoder)

DecodesBack == at = "done" /\ Foreign /\ ~ wrapped => Decode(out) = label

-----------------------------------------------------------------------------
\* The types of what the proofs below count.
LEMMA Counts ==
  ASSUME EncodeInv
  PROVE  /\ label \in Seq(Nat) /\ Len(label) \in Nat /\ h \in Nat /\ n \in Nat /\ delta \in Nat
         /\ j \in Nat /\ j >= 1 /\ j - 1 \in 0..Len(label) /\ Scanned \in 0..Len(label)
         /\ Handled \in SUBSET (1..Len(label)) /\ Basics \in SUBSET (1..Len(label))
         /\ NBasic = Cardinality(Basics) /\ NBasic \in Nat /\ Cut \in Nat
<1>1. /\ label \in Seq(Nat) /\ Len(label) \in Nat /\ h \in Nat /\ n \in Nat /\ delta \in Nat
      /\ j \in Nat /\ j >= 1 /\ j - 1 \in 0..Len(label)
  BY Typed DEF EncodeInv
<1>2. Scanned \in 0..Len(label)
  BY <1>1 DEF Scanned
<1>3. Handled \in SUBSET (1..Len(label)) /\ Basics \in SUBSET (1..Len(label))
  BY DEF Handled, Basics
<1>4. NBasic = Cardinality(Basics)
  BY DEF NBasic, Basics
<1>5. NBasic \in Nat
  BY <1>1, <1>3, <1>4, RankType
<1> QED BY <1>1, <1>2, <1>3, <1>4, <1>5 DEF Cut

\* A value that delta was given without exceeding a uint32.
LEMMA DeltaIs ==
  ASSUME NEW d \in Nat, SetDelta(d), ~ wrapped', wrapped \in BOOLEAN
  PROVE  ~ wrapped /\ delta' = d
<1>1. Word \in Nat \ {0}
  BY PunycodeAssumption
<1>2. ~ (d >= Word) /\ ~ wrapped
  BY DEF SetDelta
<1>3. d % Word = d
  BY <1>1, <1>2
<1> QED BY <1>2, <1>3 DEF SetDelta

\* What does not write leaves the decoder where it is.
LEMMA DecoderSame ==
  ASSUME UNCHANGED <<label, out>>
  PROVE  /\ Decoder' = Decoder /\ (Delimited' <=> Delimited) /\ (Foreign' <=> Foreign)
         /\ Basics' = Basics /\ NBasic' = NBasic
  BY DEF Decoder, Delimited, Cut, NBasic, Foreign, Basics

\* What writes a digit has the decoder read one more.
LEMMA DecoderMore ==
  ASSUME EncodeInv, Delimited, label' = label, NEW c \in Nat, c # Hyphen, out' = Append(out, c)
  PROVE  /\ Delimited' /\ Decoder' = Eat(Decoder, c) /\ (Foreign' <=> Foreign)
         /\ Basics' = Basics /\ NBasic' = NBasic
<1>1. NBasic' = NBasic /\ Cut' = Cut /\ (Foreign' <=> Foreign) /\ Basics' = Basics
  BY DEF NBasic, Cut, Foreign, Basics
<1>2. out \in Seq(Nat) /\ Cut \in 0..Len(out)
  BY Counts DEF Delimited
<1> DEFINE text == SubSeq(out, 1, Cut - 1)
           s == SubSeq(out, Cut + 1, Len(out))
<1>3. SubSeq(out', 1, Cut' - 1) = text /\ SubSeq(out', Cut' + 1, Len(out')) = Append(s, c) /\ s \in Seq(Nat)
  BY <1>1, <1>2, SlicesMore
<1>4. Decoder' = State(text, Append(s, c)) /\ Decoder = State(text, s)
  BY <1>3 DEF Decoder
<1>5. Decoder' = Eat(Decoder, c)
  <2> HIDE DEF text, s
  <2> QED BY <1>3, <1>4, StateMore
<1>6. Delimited'
  <2>1. /\ out' \in Seq(Nat) /\ Len(out) \in Nat /\ Len(out') = Len(out) + 1
        /\ out'[Len(out) + 1] = c /\ \A x \in 1..Len(out) : out'[x] = out[x]
    BY <1>2
  <2>2. Cut' > 0 => out'[Cut'] = Hyphen
    BY <1>1, <1>2, <2>1 DEF Delimited
  <2>3. ASSUME NEW x \in (Cut + 1)..Len(out') PROVE out'[x] # Hyphen
    <3>1. CASE x \in (Cut + 1)..Len(out)
      BY <1>2, <2>1, <3>1 DEF Delimited
    <3>2. CASE x = Len(out) + 1
      BY <2>1, <3>2
    <3> QED BY <1>2, <2>1, <3>1, <3>2
  <2> QED BY <1>1, <1>2, <2>1, <2>2, <2>3 DEF Delimited
<1> QED BY <1>1, <1>5, <1>6

\* The types of a decoder's fields.
LEMMA DecoderTyped ==
  ASSUME NEW d \in DecoderType
  PROVE  /\ d.text \in Seq(Nat) /\ d.code \in Nat /\ d.i \in Nat /\ d.old \in Nat /\ d.w \in Nat
         /\ d.pos \in Nat /\ d.bias \in Nat
  BY DEF DecoderType

\* Once the basic runes are written, it is the decoder that matters.
LEMMA Later ==
  ASSUME bias' \in Nat, q' \in Nat, k' \in Nat, at' \in {"search", "scan", "digits", "done"},
         Foreign' /\ ~ wrapped' => Delimited' /\ Follows(Decoder)' /\ Weighed(Decoder)'
  PROVE  RoundTrip'
  BY DEF RoundTrip

\* A rune that is handled is one more place, any other is none.
LEMMA PassRound ==
  ASSUME EncodeInv, RoundTrip, PassBy
  PROVE  RoundTrip'
<1>1. /\ at = "scan" /\ j <= Len(label) /\ label[j] # n /\ at' = at /\ j' = j + 1
      /\ label' = label /\ h' = h /\ n' = n /\ bias' = bias /\ q' = q /\ k' = k /\ out' = out
  BY DEF PassBy
<1>2. bias \in Nat /\ q \in Nat /\ k \in Nat
  BY DEF RoundTrip
<1> SUFFICES ASSUME Foreign', ~ wrapped'
             PROVE  Delimited' /\ Follows(Decoder)' /\ Weighed(Decoder)'
  BY <1>1, <1>2, Later
<1>3. /\ label \in Seq(Nat) /\ Len(label) \in Nat /\ h \in Nat /\ n \in Nat /\ delta \in Nat
      /\ j \in Nat /\ j >= 1 /\ Handled \in SUBSET (1..Len(label)) /\ NBasic \in Nat
  BY Counts
<1>4. wrapped \in BOOLEAN
  BY DEF EncodeInv, EncodeTypeOK
<1>5. ~ wrapped /\ delta' = delta + IF label[j] < n THEN 1 ELSE 0
  <2>1. CASE label[j] < n
    <3>1. SetDelta(delta + 1) /\ delta + 1 \in Nat
      BY <1>3, <2>1 DEF PassBy
    <3> QED BY <1>4, <2>1, <3>1, DeltaIs
  <2>2. CASE ~ (label[j] < n)
    BY <1>3, <2>2 DEF PassBy
  <2> QED BY <2>1, <2>2
<1>6. PICK d : d = Decoder
  OBVIOUS
<1>7. /\ Decoder' = d /\ (Delimited' <=> Delimited) /\ Foreign /\ Basics' = Basics /\ NBasic' = NBasic
  BY <1>1, <1>6, DecoderSame
<1>8. Delimited /\ Follows(d) /\ Weighed(d)
  BY <1>1, <1>5, <1>6, <1>7 DEF RoundTrip
<1>9. Scanned = j - 1 /\ Scanned' = j
  BY <1>1, <1>3 DEF Scanned
<1>10. Handled' = Handled
  <2>1. ASSUME NEW x \in 1..Len(label)
        PROVE  label[x] = n /\ x <= j <=> label[x] = n /\ x <= j - 1
    BY <1>1, <1>3
  <2>2. Handled = {x \in 1..Len(label) : label[x] < n \/ (label[x] = n /\ x <= j - 1)}
    BY <1>9 DEF Handled
  <2>3. Handled' = {x \in 1..Len(label) : label[x] < n \/ (label[x] = n /\ x <= j)}
    BY <1>1, <1>9 DEF Handled
  <2> QED BY <2>1, <2>2, <2>3
<1>11. RankIn(Handled, j) = RankIn(Handled, j - 1) + IF label[j] < n THEN 1 ELSE 0
  <2>1. j \in Handled <=> label[j] < n
    BY <1>1, <1>3 DEF Handled
  <2>2. j \in Nat \ {0}
    BY <1>3
  <2> QED BY <1>3, <2>1, <2>2, RankStep
<1>12. d.code * (h + 1) + d.old + delta' = n * (h + 1) + RankIn(Handled, j)
  <2> DEFINE a == d.code * (h + 1)
             b == n * (h + 1)
             r == RankIn(Handled, j - 1)
             o == d.old
  <2>1. a \in Nat /\ b \in Nat /\ r \in Nat /\ o \in Nat
    <3>1. h + 1 \in Nat /\ d.code \in Nat /\ d.old \in Nat
      BY <1>3, <1>8, DecoderTyped DEF Follows
    <3> QED BY <1>3, <3>1, ProductType, RankType
  <2>2. a + o + delta = b + r
    BY <1>8, <1>9 DEF Follows
  <2> HIDE DEF a, b, r, o
  <2>3. a + o + delta' = b + RankIn(Handled, j)
    <3> DEFINE e == IF label[j] < n THEN 1 ELSE 0
               s == RankIn(Handled, j)
    <3>1. e \in Nat /\ delta' = delta + e /\ s = r + e
      BY <1>5, <1>11 DEF r
    <3> HIDE DEF e, s
    <3>2. a + o + delta' = b + s
      BY <1>3, <2>1, <2>2, <3>1
    <3> QED BY <3>2 DEF s
  <2> QED BY <2>3 DEF a, b, o
<1>13. Follows(Decoder)'
  BY <1>1, <1>7, <1>8, <1>9, <1>10, <1>12 DEF Follows
<1>14. Weighed(Decoder)'
  BY <1>1, <1>7, <1>8 DEF Weighed
<1> QED BY <1>7, <1>8, <1>13, <1>14

\* An insertion begins: its digits are to give delta.
LEMMA InsertRound ==
  ASSUME EncodeInv, RoundTrip, Insert
  PROVE  RoundTrip'
<1>1. /\ at = "scan" /\ at' = "digits" /\ q' = delta /\ k' = 36 /\ j' = j /\ wrapped' = wrapped
      /\ label' = label /\ h' = h /\ n' = n /\ delta' = delta /\ bias' = bias /\ out' = out
  BY DEF Insert, Base
<1>2. bias \in Nat /\ delta \in Nat
  BY Counts DEF RoundTrip
<1> SUFFICES ASSUME Foreign', ~ wrapped'
             PROVE  Delimited' /\ Follows(Decoder)' /\ Weighed(Decoder)'
  BY <1>1, <1>2, Later
<1>3. PICK d : d = Decoder
  OBVIOUS
<1>4. /\ Decoder' = d /\ (Delimited' <=> Delimited) /\ Foreign /\ Basics' = Basics /\ NBasic' = NBasic
  BY <1>1, <1>3, DecoderSame
<1>5. Delimited /\ Follows(d) /\ Weighed(d)
  BY <1>1, <1>3, <1>4 DEF RoundTrip
<1>6. Scanned' = Scanned /\ Handled' = Handled
  BY <1>1 DEF Scanned, Handled
<1>7. Follows(Decoder)'
  BY <1>1, <1>4, <1>5, <1>6 DEF Follows
<1>8. Weighed(Decoder)'
  <2>1. d.i = d.old /\ d.w = 1 /\ d.pos = 36 /\ d.old \in Nat
    BY <1>1, <1>5, DecoderTyped DEF Weighed, Follows
  <2>2. d.i + delta * d.w = d.old + delta
    BY <1>2, <2>1
  <2> QED BY <1>1, <1>4, <2>1, <2>2 DEF Weighed
<1> QED BY <1>4, <1>5, <1>7, <1>8

\* All runes are handled.
LEMMA DoneRound ==
  ASSUME EncodeInv, RoundTrip, Encoded
  PROVE  RoundTrip'
<1>1. /\ at = "search" /\ at' = "done" /\ UNCHANGED <<label, j, h, n, delta, bias, q, k, out, wrapped>>
  BY DEF Encoded
<1>2. bias \in Nat /\ q \in Nat /\ k \in Nat
  BY DEF RoundTrip
<1> SUFFICES ASSUME Foreign', ~ wrapped'
             PROVE  Delimited' /\ Follows(Decoder)' /\ Weighed(Decoder)'
  BY <1>1, <1>2, Later
<1>3. PICK d : d = Decoder
  OBVIOUS
<1>4. /\ Decoder' = d /\ (Delimited' <=> Delimited) /\ Foreign /\ Basics' = Basics /\ NBasic' = NBasic
  BY <1>1, <1>3, DecoderSame
<1>5. Delimited /\ Follows(d) /\ Weighed(d)
  BY <1>1, <1>3, <1>4 DEF RoundTrip
<1>6. Scanned' = Scanned /\ Handled' = Handled
  BY <1>1 DEF Scanned, Handled
<1>7. Follows(Decoder)'
  BY <1>1, <1>4, <1>5, <1>6 DEF Follows
<1>8. Weighed(Decoder)'
  BY <1>1, <1>4, <1>5 DEF Weighed
<1> QED BY <1>4, <1>5, <1>7, <1>8

\* The next code point: as many places as there are code points between, for
\* each of the runes handled and the one to come.
LEMMA AdvanceRound ==
  ASSUME EncodeInv, RoundTrip, Advance
  PROVE  RoundTrip'
<1>1. /\ at = "search" /\ at' = "scan" /\ j' = 1 /\ label' = label /\ h' = h
      /\ bias' = bias /\ q' = q /\ k' = k /\ out' = out
  BY DEF Advance
<1>2. bias \in Nat /\ q \in Nat /\ k \in Nat
  BY DEF RoundTrip
<1> SUFFICES ASSUME Foreign', ~ wrapped'
             PROVE  Delimited' /\ Follows(Decoder)' /\ Weighed(Decoder)'
  BY <1>1, <1>2, Later
<1>3. /\ label \in Seq(Nat) /\ Len(label) \in Nat /\ h \in Nat /\ n \in Nat /\ delta \in Nat
      /\ Handled \in SUBSET (1..Len(label)) /\ NBasic \in Nat
  BY Counts
<1>4. wrapped \in BOOLEAN
  BY DEF EncodeInv, EncodeTypeOK
<1>5. PICK x \in Left : /\ \A y \in Left : label[x] <= label[y]
                        /\ SetDelta(delta + (label[x] - n) * (h + 1))
                        /\ n' = label[x]
  BY DEF Advance
<1> DEFINE m == label[x]
<1>6. m \in Nat /\ m >= n
  BY <1>3, <1>5 DEF Left
<1>7. (m - n) * (h + 1) \in Nat /\ (m - n) * (h + 1) + n * (h + 1) = m * (h + 1)
      /\ n * (h + 1) \in Nat /\ m * (h + 1) \in Nat
  <2>1. m - n \in Nat /\ h + 1 \in Nat
    BY <1>3, <1>6
  <2>2. \A y, z, p \in Nat : y >= z => (y - z) * p + z * p = y * p
    OBVIOUS
  <2> HIDE DEF m
  <2> QED BY <1>3, <1>6, <2>1, <2>2, ProductType
<1>8. ~ wrapped /\ delta' = delta + (m - n) * (h + 1)
  <2> DEFINE e == delta + (m - n) * (h + 1)
  <2>1. e \in Nat
    BY <1>3, <1>7, SMTT(30)
  <2>2. SetDelta(e)
    BY <1>5
  <2> HIDE DEF e
  <2>3. ~ wrapped /\ delta' = e
    BY <1>4, <2>1, <2>2, DeltaIs
  <2> QED BY <2>3 DEF e
<1>9. PICK d : d = Decoder
  OBVIOUS
<1>10. /\ Decoder' = d /\ (Delimited' <=> Delimited) /\ Foreign /\ Basics' = Basics /\ NBasic' = NBasic
  BY <1>1, <1>9, DecoderSame
<1>11. Delimited /\ Follows(d) /\ Weighed(d)
  BY <1>1, <1>8, <1>9, <1>10 DEF RoundTrip
<1>12. Scanned = 0 /\ Scanned' = 0
  BY <1>1 DEF Scanned
<1>13. Handled' = Handled
  <2>1. Handled = {y \in 1..Len(label) : label[y] < n}
    BY <1>12 DEF Handled
  <2>2. Handled' = {y \in 1..Len(label) : label[y] < m}
    BY <1>1, <1>5, <1>12 DEF Handled
  <2>3. ASSUME NEW y \in 1..Len(label) PROVE label[y] < n <=> label[y] < m
    <3>1. label[y] \in Nat
      BY <1>3
    <3>2. label[y] >= n => m <= label[y]
      BY <1>5 DEF Left
    <3> HIDE DEF m
    <3> QED BY <1>3, <1>6, <3>1, <3>2
  <2> QED BY <2>1, <2>2, <2>3
<1>14. d.code * (h + 1) + d.old + delta' = m * (h + 1) + RankIn(Handled, 0)
  <2> DEFINE a == d.code * (h + 1)
             b == n * (h + 1)
             c == (m - n) * (h + 1)
             e == m * (h + 1)
             o == d.old
             r == RankIn(Handled, 0)
  <2>1. a \in Nat /\ o \in Nat /\ b \in Nat /\ c \in Nat /\ e \in Nat /\ c + b = e /\ r = 0
    <3>1. h + 1 \in Nat /\ d.code \in Nat /\ d.old \in Nat
      BY <1>3, <1>11, DecoderTyped DEF Follows
    <3> QED BY <1>3, <1>7, <3>1, ProductType, RankAll
  <2>2. a + o + delta = b + r
    BY <1>11, <1>12 DEF Follows
  <2>3. delta' = delta + c
    BY <1>8
  <2> HIDE DEF a, b, c, e, o, r
  <2>4. a + o + delta' = e + r
    BY <1>3, <2>1, <2>2, <2>3
  <2> QED BY <2>4 DEF a, e, o, r
<1>15. Follows(Decoder)'
  BY <1>1, <1>5, <1>10, <1>11, <1>12, <1>13, <1>14 DEF Follows
<1>16. Weighed(Decoder)'
  BY <1>1, <1>10, <1>11 DEF Weighed
<1> QED BY <1>10, <1>11, <1>15, <1>16

\* The scan is over: h places more, and one, bring the decoder to the next
\* code point.
LEMMA EndRound ==
  ASSUME EncodeInv, RoundTrip, EndScan
  PROVE  RoundTrip'
<1>1. /\ at = "scan" /\ j > Len(label) /\ at' = "search" /\ label' = label /\ h' = h /\ n' = n + 1
      /\ j' = j /\ bias' = bias /\ q' = q /\ k' = k /\ out' = out /\ SetDelta(delta + 1)
  BY DEF EndScan
<1>2. bias \in Nat /\ q \in Nat /\ k \in Nat
  BY DEF RoundTrip
<1> SUFFICES ASSUME Foreign', ~ wrapped'
             PROVE  Delimited' /\ Follows(Decoder)' /\ Weighed(Decoder)'
  BY <1>1, <1>2, Later
<1>3. /\ label \in Seq(Nat) /\ Len(label) \in Nat /\ h \in Nat /\ n \in Nat /\ delta \in Nat
      /\ j \in Nat /\ j - 1 \in 0..Len(label) /\ Handled \in SUBSET (1..Len(label)) /\ NBasic \in Nat
  BY Counts
<1>4. ~ wrapped /\ delta' = delta + 1
  <2>1. wrapped \in BOOLEAN /\ delta + 1 \in Nat
    BY <1>3 DEF EncodeInv, EncodeTypeOK
  <2> QED BY <1>1, <2>1, DeltaIs
<1>5. PICK d : d = Decoder
  OBVIOUS
<1>6. /\ Decoder' = d /\ (Delimited' <=> Delimited) /\ Foreign /\ Basics' = Basics /\ NBasic' = NBasic
  BY <1>1, <1>5, DecoderSame
<1>7. Delimited /\ Follows(d) /\ Weighed(d)
  BY <1>1, <1>4, <1>5, <1>6 DEF RoundTrip
<1>8. Scanned = Len(label) /\ Scanned' = 0
  BY <1>1, <1>3 DEF Scanned
<1>9. Handled' = Handled
  <2>1. Handled = {x \in 1..Len(label) : label[x] < n \/ label[x] = n}
    BY <1>3, <1>8 DEF Handled
  <2>2. Handled' = {x \in 1..Len(label) : label[x] < n + 1}
    BY <1>1, <1>8 DEF Handled
  <2>3. ASSUME NEW x \in 1..Len(label) PROVE label[x] < n \/ label[x] = n <=> label[x] < n + 1
    <3>1. label[x] \in Nat
      BY <1>3
    <3> QED BY <1>3, <3>1
  <2> QED BY <2>1, <2>2, <2>3
<1>10. d.code * (h + 1) + d.old + delta' = (n + 1) * (h + 1) + RankIn(Handled, 0)
  <2> DEFINE a == d.code * (h + 1)
             b == n * (h + 1)
             e == (n + 1) * (h + 1)
             o == d.old
             r == RankIn(Handled, Len(label))
             s == RankIn(Handled, 0)
  <2>1. a \in Nat /\ o \in Nat /\ b \in Nat /\ e \in Nat /\ e = b + (h + 1)
    <3>1. h + 1 \in Nat /\ n + 1 \in Nat /\ d.code \in Nat /\ d.old \in Nat
      BY <1>3, <1>7, DecoderTyped DEF Follows
    <3>2. \A y, z \in Nat : (y + 1) * z = y * z + z
      OBVIOUS
    <3> QED BY <1>3, <3>1, <3>2, ProductType
  <2>2. r = h /\ s = 0
    BY <1>3, <1>7, RankAll DEF Follows, Picks
  <2>3. a + o + delta = b + r
    BY <1>7, <1>8 DEF Follows
  <2> HIDE DEF a, b, e, o, r, s
  <2>4. a + o + delta' = e + s
    BY <1>3, <1>4, <2>1, <2>2, <2>3
  <2> QED BY <2>4 DEF a, e, o, s
<1>11. Follows(Decoder)'
  BY <1>1, <1>6, <1>7, <1>8, <1>9, <1>10 DEF Follows
<1>12. Weighed(Decoder)'
  BY <1>1, <1>6, <1>7 DEF Weighed
<1> QED BY <1>6, <1>7, <1>11, <1>12

\* A digit that does not complete its integer.
LEMMA EatMore ==
  ASSUME NEW d \in DecoderType, NEW c, NEW x \in Nat, NEW t \in 1..26, DigitValue(c) = x,
         TLimit(d.pos, d.bias) = t, x >= t
  PROVE  LET e == Eat(d, c)
         IN /\ e \in DecoderType /\ e.text = d.text /\ e.code = d.code /\ e.old = d.old
            /\ e.bias = d.bias /\ e.pos = d.pos + 36 /\ e.i = d.i + x * d.w
            /\ e.w = d.w * (36 - t)
<1> DEFINE u == d.i + x * d.w
           v == d.w * (36 - t)
           y == d.pos + 36
           e == [d EXCEPT !.i = u, !.w = v, !.pos = y]
<1>1. Eat(d, c) = e
  BY DEF Eat
<1>2. u \in Nat /\ v \in Nat /\ y \in Nat
  <2>1. d.i \in Nat /\ d.w \in Nat /\ d.pos \in Nat /\ 36 - t \in Nat
    BY DecoderTyped
  <2>2. x * d.w \in Nat /\ d.w * (36 - t) \in Nat
    BY <2>1, ProductType
  <2> DEFINE z == x * d.w
  <2>3. z \in Nat /\ u = d.i + z
    BY <2>2
  <2> HIDE DEF z
  <2>4. u \in Nat
    BY <2>1, <2>3
  <2> QED BY <2>1, <2>2, <2>4
<1> HIDE DEF u, v, y
<1>3. /\ e \in DecoderType /\ e.text = d.text /\ e.code = d.code /\ e.old = d.old
      /\ e.bias = d.bias /\ e.pos = y /\ e.i = u /\ e.w = v
  BY <1>2 DEF DecoderType
<1> QED BY <1>1, <1>3 DEF u, v, y

\* The last digit, x, of an insertion of code at place r, y from the last.
Inserts(d, x, y, code, r) ==
  /\ d.i + x * d.w = d.old + y
  /\ d.old + y = (code - d.code) * (Len(d.text) + 1) + r

\* A digit that does.
LEMMA EatLast ==
  ASSUME NEW d \in DecoderType, NEW c, NEW x \in Nat, DigitValue(c) = x,
         ~ (x >= TLimit(d.pos, d.bias)),
         NEW y \in Nat, NEW code \in Nat, NEW r \in 0..Len(d.text), Inserts(d, x, y, code, r),
         NEW e, e = Eat(d, c)
  PROVE  /\ e.text = InsertAt(d.text, r + 1, code) /\ e.code = code /\ e.old = r + 1
         /\ e.i = r + 1 /\ e.w = 1 /\ e.pos = 36
         /\ e.bias = NewBias(y, Len(d.text) + 1, d.old = 0)
         /\ (e.bias \in Nat => e \in DecoderType)
<1> DEFINE p == Len(d.text) + 1
           num == d.i + x * d.w
<1>1. d.text \in Seq(Nat) /\ p \in Nat \ {0} /\ r \in 0..(p - 1) /\ r \in Nat /\ d.code \in Nat /\ d.old \in Nat
  <2>1. d.text \in Seq(Nat) /\ d.code \in Nat /\ d.old \in Nat
    BY DecoderTyped
  <2>2. Len(d.text) \in Nat
    BY <2>1
  <2> QED BY <2>1, <2>2
<1>2. num = d.old + y /\ num \in Nat /\ num - d.old = y
  <2>1. d.old + y \in Nat /\ (d.old + y) - d.old = y
    BY <1>1
  <2> QED BY <2>1 DEF Inserts
<1>3. d.code + (num \div p) = code /\ num % p = r
  <2> DEFINE z == code - d.code
  <2>1. z \in Int /\ Divides(num, z, p, r)
    BY <1>1, <1>2 DEF Divides, Inserts
  <2>2. d.code + z = code
    BY <1>1
  <2>3. p \in Nat \ {0} /\ num \in Nat /\ r \in 0..(p - 1)
    BY <1>1, <1>2
  <2> HIDE DEF num, p, z
  <2>4. num \div p = z /\ num % p = r
    BY <2>1, <2>3, DivisionIs, Zenon
  <2> QED BY <2>2, <2>4, Zenon
<1>5. Eat(d, c) =
        [text |-> InsertAt(d.text, (num % p) + 1, d.code + (num \div p)), code |-> d.code + (num \div p),
         i |-> (num % p) + 1, old |-> (num % p) + 1, w |-> 1, pos |-> 36,
         bias |-> NewBias(num - d.old, p, d.old = 0)]
  BY DEF Eat
<1> DEFINE text == InsertAt(d.text, r + 1, code)
           bs == NewBias(y, p, d.old = 0)
<1>6. text \in Seq(Nat)
  BY <1>1, InsertedAt
<1> HIDE DEF num, p, text, bs
<1>7. Eat(d, c) = [text |-> text, code |-> code, i |-> r + 1, old |-> r + 1, w |-> 1, pos |-> 36,
                   bias |-> bs]
  BY <1>2, <1>3, <1>5 DEF text, bs
<1>8. bs \in Nat => Eat(d, c) \in DecoderType
  <2>1. r + 1 \in Nat
    BY <1>1
  <2> QED BY <1>6, <1>7, <2>1 DEF DecoderType
<1> QED BY <1>7, <1>8 DEF text, bs, p

\* A digit more.
LEMMA DigitRound ==
  ASSUME EncodeInv, RoundTrip, WriteDigit
  PROVE  RoundTrip'
<1> DEFINE t == Threshold
           x == t + ((q - t) % (36 - t))
           r == (q - t) \div (36 - t)
<1>1. /\ at = "digits" /\ at' = "digits" /\ q >= t /\ out' = Append(out, Digit(x)) /\ q' = r
      /\ k' = k + 36 /\ UNCHANGED <<label, j, h, n, delta, bias, wrapped>>
  BY DEF WriteDigit, Base
<1>2. bias \in Nat /\ q \in Nat /\ k \in Nat
  BY DEF RoundTrip
<1>3. t = TLimit(k, bias) /\ t \in 1..26
  BY <1>2, SameThreshold
<1> HIDE DEF t
<1>4. x \in 0..35 /\ x >= t /\ r \in Nat /\ x + r * (36 - t) = q
  BY <1>1, <1>2, <1>3, DigitSplit
<1> HIDE DEF x, r
<1>5. q' \in Nat /\ k' \in Nat
  BY <1>1, <1>2, <1>4
<1> SUFFICES ASSUME Foreign', ~ wrapped'
             PROVE  Delimited' /\ Follows(Decoder)' /\ Weighed(Decoder)'
  BY <1>1, <1>2, <1>5, Later
<1> DEFINE c == Digit(x)
<1>6. DigitValue(c) = x /\ c \in Nat /\ c # Hyphen
  BY <1>4, DigitRead
<1> HIDE DEF c
<1>7. Foreign
  BY <1>1 DEF Foreign
<1>8. PICK d : d = Decoder
  OBVIOUS
<1>9. Delimited /\ Follows(d) /\ Weighed(d)
  BY <1>1, <1>7, <1>8 DEF RoundTrip
<1>10. Delimited' /\ Decoder' = Eat(d, c) /\ NBasic' = NBasic
  BY <1>1, <1>6, <1>8, <1>9, DecoderMore DEF c
<1>11. d \in DecoderType /\ d.pos = k /\ d.bias = bias /\ d.i + q * d.w = d.old + delta
  BY <1>1, <1>9 DEF Follows, Weighed
<1> DEFINE e == Eat(d, c)
<1>12. /\ e \in DecoderType /\ e.text = d.text /\ e.code = d.code /\ e.old = d.old
       /\ e.bias = d.bias /\ e.pos = d.pos + 36 /\ e.i = d.i + x * d.w
       /\ e.w = d.w * (36 - t)
  <2>1. x \in Nat
    BY <1>4
  <2> QED BY <1>3, <1>4, <1>6, <1>11, <2>1, EatMore
<1> HIDE DEF e
<1>13. Scanned' = Scanned /\ Handled' = Handled
  BY <1>1 DEF Scanned, Handled
<1>14. Follows(Decoder)'
  BY <1>1, <1>9, <1>10, <1>12, <1>13 DEF Follows, e
<1>15. e.i + q' * e.w = e.old + delta'
  <2>1. d.i \in Nat /\ d.w \in Nat /\ x \in Nat /\ 36 - t \in Nat
    BY <1>3, <1>4, <1>11, DecoderTyped, SMTT(30)
  <2>2. (d.i + x * d.w) + r * (d.w * (36 - t)) = d.i + (x + r * (36 - t)) * d.w
    BY <1>4, <2>1, Weighs
  <2> QED BY <1>1, <1>4, <1>11, <1>12, <2>2
<1>16. Weighed(Decoder)'
  BY <1>1, <1>10, <1>11, <1>12, <1>15 DEF Weighed, e
<1> QED BY <1>10, <1>14, <1>16

\* The digit that completes an insertion: the rune at j, after those handled
\* that stand before it.
LEMMA LastDigitRound ==
  ASSUME EncodeInv, RoundTrip, WriteLastDigit
  PROVE  RoundTrip'
<1>1. /\ at = "digits" /\ at' = "scan" /\ q < Threshold /\ out' = Append(out, Digit(q))
      /\ bias' = Adapt(delta, h + 1, h = NBasic) /\ delta' = 0 /\ h' = h + 1 /\ j' = j + 1
      /\ label' = label /\ n' = n /\ q' = q /\ k' = k /\ wrapped' = wrapped
  BY DEF WriteLastDigit
<1>2. bias \in Nat /\ q \in Nat /\ k \in Nat
  BY DEF RoundTrip
<1>3. /\ label \in Seq(Nat) /\ Len(label) \in Nat /\ h \in Nat /\ n \in Nat /\ delta \in Nat
      /\ j \in Nat /\ j >= 1 /\ Handled \in SUBSET (1..Len(label)) /\ NBasic \in Nat
  BY Counts
<1>4. j \in 1..Len(label) /\ label[j] = n
  BY <1>1, <1>3 DEF EncodeInv, Phases
<1> DEFINE first == h = NBasic
           p == h + 1
<1>5. p \in Nat \ {0} /\ first \in BOOLEAN
  BY <1>3
<1>6. Adapt(delta, p, first) = NewBias(delta, p, first) /\ bias' \in Nat
  <2> HIDE DEF p, first
  <2>1. Adapt(delta, p, first) = NewBias(delta, p, first) /\ Adapt(delta, p, first) \in Nat
    BY <1>3, <1>5, SameBias
  <2> QED BY <1>1, <2>1 DEF p, first
<1> SUFFICES ASSUME Foreign', ~ wrapped'
             PROVE  Delimited' /\ Follows(Decoder)' /\ Weighed(Decoder)'
  BY <1>1, <1>2, <1>6, Later
<1> DEFINE t == Threshold
           c == Digit(q)
<1>7. t = TLimit(k, bias) /\ t \in 1..26
  BY <1>2, SameThreshold
<1>8. DigitValue(c) = q /\ c \in Nat /\ c # Hyphen
  <2>1. q \in 0..35
    <3>1. q < t
      BY <1>1
    <3> HIDE DEF t
    <3> QED BY <1>2, <1>7, <3>1
  <2> QED BY <2>1, DigitRead
<1>9. Foreign
  BY <1>1 DEF Foreign
<1>10. PICK d : d = Decoder
  OBVIOUS
<1>11. Delimited /\ Follows(d) /\ Weighed(d)
  BY <1>1, <1>9, <1>10 DEF RoundTrip
<1>12. Delimited' /\ Decoder' = Eat(d, c) /\ NBasic' = NBasic
  BY <1>1, <1>8, <1>10, <1>11, DecoderMore
<1> DEFINE S == Handled
           r == RankIn(S, j - 1)
           e == Eat(d, c)
<1>13. /\ d \in DecoderType /\ d.pos = k /\ d.bias = bias /\ d.i + q * d.w = d.old + delta
       /\ Picks(d.text, label, S) /\ Len(d.text) = h /\ (d.old = 0 <=> first) /\ NBasic <= h
       /\ d.code * p + d.old + delta = n * p + r /\ d.text \in Seq(Nat)
  <2>1. Scanned = j - 1
    BY <1>1 DEF Scanned
  <2> QED BY <1>1, <1>11, <2>1, DecoderTyped DEF Follows, Weighed
<1>24. S \in SUBSET (1..Len(label))
  BY <1>3
<1>14. j \notin S /\ Handled' = S \cup {j} /\ Scanned = j - 1 /\ Scanned' = j
  <2>1. Scanned = j - 1 /\ Scanned' = j
    BY <1>1, <1>3 DEF Scanned
  <2>2. S = {x \in 1..Len(label) : label[x] < n \/ (label[x] = n /\ x <= j - 1)}
    BY <2>1 DEF Handled
  <2>3. Handled' = {x \in 1..Len(label) : label[x] < n \/ (label[x] = n /\ x <= j)}
    BY <1>1, <2>1 DEF Handled
  <2>4. ASSUME NEW x \in 1..Len(label) PROVE x <= j <=> x <= j - 1 \/ x = j
    BY <1>3
  <2>5. j \notin S
    BY <1>3, <1>4, <2>2
  <2> HIDE DEF S
  <2> QED BY <1>4, <2>1, <2>2, <2>3, <2>4, <2>5
<1> HIDE DEF S
<1>15. r \in 0..h /\ r \in Nat /\ RankIn(S, j) = r /\ RankIn(S \cup {j}, j) = r + 1
  <2>1. r \in Nat /\ r <= Cardinality(S) /\ Cardinality(S) = h
    BY <1>3, <1>13, <1>24, RankType DEF Picks
  <2>2. RankIn(S, j) = r
    <3>1. j \in Nat \ {0} /\ r \in Nat
      BY <1>3, <2>1
    <3>2. RankIn(S, j) = RankIn(S, j - 1) + IF j \in S THEN 1 ELSE 0
      BY <1>3, <1>24, <3>1, RankStep
    <3> QED BY <1>14, <3>1, <3>2
  <2>3. RankIn(S \cup {j}, j) = RankIn(S, j) + IF j <= j THEN 1 ELSE 0
    BY <1>3, <1>4, <1>14, <1>24, RankAdd, ZenonT(40)
  <2> QED BY <1>3, <2>1, <2>2, <2>3
<1> HIDE DEF r, t, c
<1>16. d.old + delta = (n - d.code) * p + r
  <2> DEFINE a == d.code * p
             b == n * p
             o == d.old
  <2>1. a \in Nat /\ b \in Nat /\ o \in Nat /\ (n - d.code) * p = b - a
    <3>1. p \in Nat /\ d.code \in Nat /\ d.old \in Nat
      BY <1>3, <1>13, DecoderTyped
    <3>2. \A y, z, w \in Nat : (y - z) * w = y * w - z * w
      OBVIOUS
    <3> HIDE DEF p
    <3> QED BY <1>3, <3>1, <3>2, ProductType
  <2>2. a + o + delta = b + r
    BY <1>13
  <2> HIDE DEF a, b, o
  <2>3. o + delta = (b - a) + r
    BY <1>3, <1>15, <2>1, <2>2
  <2> QED BY <2>1, <2>3 DEF o
<1>17. /\ e.text = InsertAt(d.text, r + 1, n) /\ e.code = n /\ e.old = r + 1
       /\ e.i = r + 1 /\ e.w = 1 /\ e.pos = 36 /\ e.bias = NewBias(delta, p, d.old = 0)
       /\ (e.bias \in Nat => e \in DecoderType)
  <2>1. ~ (q >= TLimit(d.pos, d.bias))
    <3>1. TLimit(d.pos, d.bias) = t /\ q < t
      BY <1>1, <1>7, <1>13 DEF t
    <3>2. ~ (q >= t)
      BY <1>2, <1>7, <3>1
    <3> QED BY <3>1, <3>2
  <2>2. Len(d.text) + 1 = p /\ r \in 0..Len(d.text)
    BY <1>13, <1>15
  <2>3. d.old + delta = (n - d.code) * (Len(d.text) + 1) + r
    BY <1>16, <2>2
  <2>4. d.i + q * d.w = d.old + delta /\ d \in DecoderType
    BY <1>13
  <2>5. /\ e.text = InsertAt(d.text, r + 1, n) /\ e.code = n /\ e.old = r + 1
        /\ e.i = r + 1 /\ e.w = 1 /\ e.pos = 36
        /\ e.bias = NewBias(delta, Len(d.text) + 1, d.old = 0)
        /\ (e.bias \in Nat => e \in DecoderType)
    <3> HIDE DEF e
    <3>1. e = Eat(d, c)
      BY DEF e
    <3>2. Inserts(d, q, delta, n, r)
      BY <2>3, <2>4 DEF Inserts
    <3> QED BY <1>2, <1>3, <1>8, <2>1, <2>2, <2>4, <3>1, <3>2, EatLast
  <2> HIDE DEF p, e
  <2> QED BY <2>2, <2>5
<1>18. e.bias = bias' /\ e \in DecoderType
  <2>1. (d.old = 0) = first
    BY <1>13
  <2> QED BY <1>1, <1>6, <1>17, <2>1
<1>19. Picks(e.text, label, Handled') /\ Len(e.text) = h'
  <2> DEFINE u == InsertAt(d.text, r + 1, n)
  <2>1. /\ u \in Seq(Nat) /\ Len(u) = Len(d.text) + 1 /\ u[r + 1] = n
        /\ \A y \in 1..r : u[y] = d.text[y]
        /\ \A y \in (r + 1)..Len(d.text) : u[y + 1] = d.text[y]
    <3> DEFINE text == d.text
    <3>1. text \in Seq(Nat) /\ r \in 0..Len(text)
      BY <1>13, <1>15
    <3> HIDE DEF text
    <3>2. LET v == InsertAt(text, r + 1, n)
          IN /\ v \in Seq(Nat) /\ Len(v) = Len(text) + 1 /\ v[r + 1] = n
             /\ \A y \in 1..r : v[y] = text[y]
             /\ \A y \in (r + 1)..Len(text) : v[y + 1] = text[y]
      BY <1>3, <3>1, InsertedAt, ZenonT(40)
    <3> QED BY <3>2 DEF text
  <2> HIDE DEF u
  <2>2. Picks(u, label, S \cup {j})
    <3>1. S \in SUBSET (1..Len(label)) /\ Picks(d.text, label, S)
      BY <1>13, <1>24
    <3>2. /\ u[RankIn(S, j) + 1] = label[j]
          /\ \A y \in 1..RankIn(S, j) : u[y] = d.text[y]
          /\ \A y \in (RankIn(S, j) + 1)..Len(d.text) : u[y + 1] = d.text[y]
      BY <1>4, <1>15, <2>1
    <3> QED BY <1>3, <1>4, <1>14, <2>1, <3>1, <3>2, PicksMore
  <2> QED BY <1>1, <1>13, <1>14, <1>17, <2>1, <2>2 DEF u
<1>20. e.code * (h' + 1) + e.old + delta' = n' * (h' + 1) + RankIn(Handled', Scanned')
  <2> DEFINE b == n * (h' + 1)
  <2>1. b \in Nat
    <3>1. h' + 1 \in Nat
      BY <1>1, <1>3
    <3> QED BY <1>3, <3>1, ProductType
  <2>2. e.code * (h' + 1) = b /\ n' * (h' + 1) = b /\ e.old = r + 1 /\ delta' = 0
        /\ RankIn(Handled', Scanned') = r + 1
    BY <1>1, <1>14, <1>15, <1>17
  <2> HIDE DEF b
  <2>3. b + (r + 1) + 0 = b + (r + 1)
    BY <1>15, <2>1
  <2> QED BY <2>2, <2>3
<1>21. NBasic' <= h' /\ (e.old = 0 <=> h' = NBasic')
  BY <1>1, <1>3, <1>12, <1>13, <1>15, <1>17
<1>22. Follows(Decoder)'
  <2> HIDE DEF e
  <2>1. Decoder' = e
    BY <1>12 DEF e
  <2> QED BY <1>1, <1>18, <1>19, <1>20, <1>21, <2>1 DEF Follows
<1>23. Weighed(Decoder)'
  BY <1>1, <1>12, <1>17 DEF Weighed
<1> QED BY <1>12, <1>22, <1>23

\* Basic runes are copied in their order.
LEMMA CopyRound ==
  ASSUME EncodeInv, RoundTrip, CopyBasic
  PROVE  RoundTrip'
<1>1. /\ at = "copy" /\ j <= Len(label) /\ j' = j + 1 /\ at' = at /\ label' = label
      /\ bias' = bias /\ q' = q /\ k' = k
      /\ out' = IF IsBasic(label[j]) THEN Append(out, label[j]) ELSE out
  BY DEF CopyBasic
<1>2. /\ label \in Seq(Nat) /\ Len(label) \in Nat /\ j \in Nat /\ j >= 1 /\ j \in 1..Len(label)
      /\ Basics \in SUBSET (1..Len(label))
  BY <1>1, Counts
<1> DEFINE S == Basics \cap (1..(j - 1))
<1>3. out \in Seq(Nat) /\ Picks(out, label, S) /\ S \in SUBSET (1..Len(label)) /\ j \notin S
  BY <1>1, <1>2 DEF RoundTrip
<1>4. Basics' = Basics /\ (Basics \cap (1..(j' - 1))) = IF IsBasic(label[j]) THEN S \cup {j} ELSE S
  <2>1. Basics' = Basics
    BY <1>1 DEF Basics
  <2>2. j' - 1 = j /\ 1..j = (1..(j - 1)) \cup {j}
    BY <1>1, <1>2
  <2>3. j \in Basics <=> IsBasic(label[j])
    BY <1>2 DEF Basics
  <2> QED BY <2>1, <2>2, <2>3
<1>5. out' \in Seq(Nat) /\ Picks(out', label, Basics \cap (1..(j' - 1)))
  <2>1. CASE IsBasic(label[j])
    <3> DEFINE u == Append(out, label[j])
    <3>1. /\ u \in Seq(Nat) /\ Len(out) \in Nat /\ Len(u) = Len(out) + 1 /\ u[Len(out) + 1] = label[j]
          /\ \A y \in 1..Len(out) : u[y] = out[y]
      BY <1>2, <1>3
    <3> HIDE DEF u
    <3>2. RankIn(S, j) = Len(out)
      <4>1. UpTo(S, j) = S
        BY <1>2 DEF UpTo
      <4> QED BY <1>3, <4>1 DEF RankIn, Picks
    <3>3. /\ u[RankIn(S, j) + 1] = label[j]
          /\ \A y \in 1..RankIn(S, j) : u[y] = out[y]
          /\ \A y \in (RankIn(S, j) + 1)..Len(out) : u[y + 1] = out[y]
      <4>1. \A m \in Nat : \A y \in (m + 1)..m : u[y + 1] = out[y]
        OBVIOUS
      <4> QED BY <3>1, <3>2, <4>1, Zenon
    <3> HIDE DEF S
    <3>4. Picks(u, label, S \cup {j})
      BY <1>2, <1>3, <3>1, <3>3, PicksMore
    <3>5. out' = u /\ (Basics \cap (1..(j' - 1))) = S \cup {j}
      BY <1>1, <1>4, <2>1 DEF u
    <3> QED BY <3>1, <3>4, <3>5
  <2>2. CASE ~ IsBasic(label[j])
    <3> HIDE DEF S
    <3>1. out' = out /\ (Basics \cap (1..(j' - 1))) = S
      BY <1>1, <1>4, <2>2
    <3> QED BY <1>3, <3>1
  <2> QED BY <2>1, <2>2
<1>6. bias \in Nat /\ q \in Nat /\ k \in Nat /\ bias = InitialBias
  BY <1>1 DEF RoundTrip
<1> QED BY <1>1, <1>4, <1>5, <1>6 DEF RoundTrip

\* The hyphen, if it is written, is the last of all; what stands before it is
\* what was copied.
LEMMA Opened ==
  ASSUME NEW s \in Seq(Nat), NEW u \in Seq(Nat), NEW c \in {0, Len(s) + 1}, Len(u) = c,
         c = 0 => Len(s) = 0, Alike(s, u, Len(s))
  PROVE  State(SubSeq(u, 1, c - 1), SubSeq(u, c + 1, Len(u))) = Start(s)
<1> DEFINE a == SubSeq(u, 1, c - 1)
           b == SubSeq(u, c + 1, Len(u))
<1>1. Len(s) \in Nat /\ Len(u) = c /\ c \in Nat
  OBVIOUS
<1>2. b = <<>> /\ Len(b) = 0
  BY <1>1
<1>3. a \in Seq(Nat) /\ Len(a) = Len(s) /\ Alike(a, s, Len(a))
  <2>1. CASE c = 0
    <3>1. a = <<>> /\ a \in Seq(Nat) /\ Len(a) = 0
      BY <2>1
    <3> HIDE DEF a
    <3> QED BY <2>1, <3>1 DEF Alike
  <2>2. CASE c = Len(s) + 1
    <3>1. a = [y \in 1..(c - 1) |-> u[y]]
      BY <1>1, PrefixIs
    <3>2. a \in Seq(Nat) /\ Len(a) = c - 1 /\ \A y \in 1..(c - 1) : a[y] = u[y]
      BY <1>1, <2>2
    <3> HIDE DEF a
    <3>3. Len(a) = Len(s)
      BY <1>1, <2>2, <3>2
    <3> QED BY <3>2, <3>3, <2>2, <1>1 DEF Alike
  <2> QED BY <2>1, <2>2
<1> HIDE DEF a, b
<1>4. a = s
  BY <1>3, SameSeq
<1> QED BY <1>2, <1>4, RunIs DEF State, a, b

\* The decoder starts where the basic runes end.
LEMMA DelimitRound ==
  ASSUME EncodeInv, RoundTrip, Delimit
  PROVE  RoundTrip'
<1>1. /\ at = "copy" /\ j > Len(label) /\ at' = "search"
      /\ out' = (IF h > 0 /\ h < Len(label) THEN Append(out, Hyphen) ELSE out)
      /\ UNCHANGED <<label, j, h, n, delta, bias, q, k, wrapped>>
  BY DEF Delimit
<1>2. bias \in Nat /\ q \in Nat /\ k \in Nat
  BY DEF RoundTrip
<1> SUFFICES ASSUME Foreign', ~ wrapped'
             PROVE  Delimited' /\ Follows(Decoder)' /\ Weighed(Decoder)'
  BY <1>1, <1>2, Later
<1>3. /\ label \in Seq(Nat) /\ Len(label) \in Nat /\ h \in Nat /\ j \in Nat
      /\ Basics \in SUBSET (1..Len(label)) /\ NBasic = Cardinality(Basics)
      /\ j - 1 = Len(label) /\ NBasic \in Nat
  BY <1>1, Counts
<1>4. n = 128 /\ delta = 0 /\ bias = 72
  BY <1>1 DEF EncodeInv, Phases, InitialN, RoundTrip, InitialBias
<1>5. h = NBasic
  <2>1. h = Cardinality(Below(label, Len(label), 128))
    BY <1>1, <1>3, <1>4 DEF EncodeInv, CountsHandled, Counted
  <2>2. Below(label, Len(label), 128) = Basics
    BY DEF Below, Basics, IsBasic
  <2> QED BY <1>3, <2>1, <2>2
<1>6. out \in Seq(Nat) /\ Picks(out, label, Basics) /\ Len(out) = h
  <2>1. Basics \cap (1..(j - 1)) = Basics
    BY <1>3
  <2>2. out \in Seq(Nat) /\ Picks(out, label, Basics)
    BY <1>1, <2>1 DEF RoundTrip
  <2> QED BY <1>3, <1>5, <2>2 DEF Picks
<1>7. h < Len(label)
  <2>1. IsFiniteSet(1..Len(label)) /\ Cardinality(1..Len(label)) = Len(label)
    BY <1>3, Interval
  <2>2. Basics # 1..Len(label)
    BY <1>1 DEF Foreign, Basics
  <2>3. h <= Len(label) /\ h # Len(label)
    BY <1>3, <1>5, <2>1, <2>2, FS_Subset
  <2> QED BY <1>3, <2>3
<1> DEFINE c == IF h = 0 THEN 0 ELSE h + 1
<1>8. out' = (IF h = 0 THEN out ELSE Append(out, 45)) /\ NBasic' = h /\ Cut' = c
  BY <1>1, <1>3, <1>5, <1>7 DEF Hyphen, NBasic, Cut
<1>9. /\ out' \in Seq(Nat) /\ Len(out') = c /\ (c > 0 => out'[c] = 45)
      /\ Alike(out, out', Len(out)) /\ c \in {0, Len(out) + 1} /\ (c = 0 => Len(out) = 0)
  <2>1. CASE h = 0
    BY <1>6, <1>8, <2>1 DEF Alike
  <2>2. CASE h # 0
    <3> DEFINE u == Append(out, 45)
    <3>1. /\ u \in Seq(Nat) /\ Len(u) = Len(out) + 1 /\ u[Len(out) + 1] = 45
          /\ \A y \in 1..Len(out) : out[y] = u[y]
      BY <1>6
    <3> HIDE DEF u
    <3>2. out' = u /\ c = h + 1
      BY <1>8, <2>2 DEF u
    <3> QED BY <1>3, <1>6, <3>1, <3>2 DEF Alike
  <2> QED BY <2>1, <2>2
<1> HIDE DEF c
<1>10. Decoder' = Start(out)
  <2>1. State(SubSeq(out', 1, c - 1), SubSeq(out', c + 1, Len(out'))) = Start(out)
    BY <1>6, <1>9, Opened
  <2> QED BY <1>8, <2>1 DEF Decoder
<1>11. Delimited'
  <2>1. c \in Nat /\ (c + 1)..c = {}
    BY <1>3, <1>6, <1>9
  <2> QED BY <1>8, <1>9, <2>1 DEF Delimited, Hyphen
<1> DEFINE d == Start(out)
<1>12. /\ d \in DecoderType /\ d.text = out /\ d.code = 128 /\ d.i = 0 /\ d.old = 0 /\ d.w = 1
       /\ d.pos = 36 /\ d.bias = 72
  BY <1>6 DEF Start, DecoderType
<1> HIDE DEF d
<1>13. Scanned' = 0 /\ Handled' = Basics
  <2>1. Scanned' = 0
    BY <1>1 DEF Scanned
  <2>2. Handled' = {x \in 1..Len(label) : label[x] < 128 \/ (label[x] = 128 /\ x <= 0)}
    BY <1>1, <1>4, <2>1 DEF Handled
  <2>3. \A x \in 1..Len(label) : ~ (x <= 0)
    BY <1>3
  <2> QED BY <2>1, <2>2, <2>3 DEF Basics, IsBasic
<1>14. RankIn(Basics, 0) = 0
  BY <1>3, RankAll
<1>15. Follows(Decoder)'
  <2>1. Decoder' = d /\ h' = h /\ n' = 128 /\ delta' = 0 /\ label' = label /\ bias' = 72
    BY <1>1, <1>4, <1>10 DEF d
  <2>2. d.code * (h + 1) + d.old + 0 = 128 * (h + 1) + RankIn(Basics, 0)
    BY <1>3, <1>12, <1>14
  <2> QED BY <1>3, <1>5, <1>6, <1>8, <1>12, <1>13, <2>1, <2>2 DEF Follows
<1>16. Weighed(Decoder)'
  BY <1>1, <1>10, <1>12 DEF Weighed, d
<1> QED BY <1>11, <1>15, <1>16

\* A label starts with nothing written.
LEMMA StartRound ==
  ASSUME EncodeInv, RoundTrip, NEW l \in Seq(0..MaxCode), Encode(l)
  PROVE  RoundTrip'
<1>1. at = "idle" /\ at' = "copy" /\ UNCHANGED <<j, bias, q, k, out>>
  BY DEF Encode
<1>2. bias \in Nat /\ q \in Nat /\ k \in Nat /\ bias = InitialBias /\ j = 1 /\ out = <<>>
  BY <1>1 DEF RoundTrip
<1>3. out' \in Seq(Nat) /\ Picks(out', label', Basics' \cap (1..(j' - 1)))
  <2>1. Basics' \cap (1..(j' - 1)) = {}
    BY <1>1, <1>2
  <2>2. out' = <<>> /\ out' \in Seq(Nat) /\ Len(out') = 0
    BY <1>1, <1>2
  <2> QED BY <2>1, <2>2, FS_EmptySet DEF Picks
<1> QED BY <1>1, <1>2, <1>3 DEF RoundTrip

\* Nothing has been written yet.
LEMMA RoundInitially ==
  ASSUME EncodeInit
  PROVE  RoundTrip
  BY DEF EncodeInit, RoundTrip, InitialBias, Base

\* Nothing of a label is left for the next one.
LEMMA TakeRound ==
  ASSUME Take
  PROVE  RoundTrip'
  BY DEF Take, RoundTrip, InitialBias, Base

\* Nor does anything change when the encoder rests.
LEMMA StutterRound ==
  ASSUME RoundTrip, UNCHANGED encodeVars
  PROVE  RoundTrip'
<1>1. UNCHANGED <<at, label, j, h, n, delta, bias, q, k, out, wrapped>>
  BY DEF encodeVars
<1>2. /\ Decoder' = Decoder /\ (Delimited' <=> Delimited) /\ (Foreign' <=> Foreign)
      /\ Basics' = Basics /\ NBasic' = NBasic
  BY <1>1, DecoderSame
<1>3. Scanned' = Scanned /\ Handled' = Handled
  BY <1>1 DEF Scanned, Handled
<1>4. PICK d : d = Decoder
  OBVIOUS
<1>5. Follows(Decoder)' <=> Follows(d)
  BY <1>1, <1>2, <1>3, <1>4 DEF Follows
<1>6. Weighed(Decoder)' <=> Weighed(d)
  BY <1>1, <1>2, <1>4 DEF Weighed
<1> QED BY <1>1, <1>2, <1>4, <1>5, <1>6 DEF RoundTrip

\* Whoever has the encoder take a step keeps decoder and encoder together.
LEMMA RoundInductive ==
  ASSUME EncodeInv, RoundTrip, EncodeNext \/ UNCHANGED encodeVars
  PROVE  RoundTrip'
<1>1. CASE EncodeStep
  <2>1. CASE Fail
    BY <2>1, FailStep
  <2> QED BY <1>1, <2>1, CopyRound, DelimitRound, AdvanceRound, PassRound, InsertRound,
             DigitRound, LastDigitRound, EndRound, DoneRound, Zenon DEF EncodeStep
<1>2. CASE Take
  BY <1>2, TakeRound
<1>3. CASE \E l \in Seq(0..MaxCode) : Encode(l)
  BY <1>3, StartRound
<1>4. CASE UNCHANGED encodeVars
  BY <1>4, StutterRound
<1> QED BY <1>1, <1>2, <1>3, <1>4 DEF EncodeNext

\* Step by step the RFC's decoder, fed with what has been written, inserts the
\* same code points at the same places as the encoder (punycode.go:84-114).
THEOREM EncodeRoundTrip == EncodeSpec => []RoundTrip
<1>1. EncodeInit => RoundTrip
  BY RoundInitially
<1>2. EncodeInv /\ RoundTrip /\ [EncodeNext]_encodeVars => RoundTrip'
  BY RoundInductive
<1> QED BY <1>1, <1>2, EncodeInvariant, PTL DEF EncodeSpec

\* The decoder looks for the hyphen where the encoder wrote it.
LEMMA CutIs ==
  ASSUME Delimited, NBasic \in Nat
  PROVE  Cut = IF Hyphens(out) = {} THEN 0 ELSE Max(Hyphens(out))
<1> DEFINE H == Hyphens(out)
<1>1. out \in Seq(Nat) /\ Len(out) \in Nat /\ Cut \in Nat /\ Cut <= Len(out) /\ DOMAIN out = 1..Len(out)
  BY DEF Delimited, Cut
<1>2. H = {x \in 1..Len(out) : out[x] = 45}
  BY <1>1 DEF Hyphens
<1>3. \A x \in H : x \in Nat /\ x <= Cut
  <2> TAKE x \in H
  <2>1. x \in 1..Len(out) /\ out[x] = Hyphen
    BY <1>2 DEF Hyphen
  <2>2. x \notin (Cut + 1)..Len(out)
    BY <2>1 DEF Delimited
  <2> QED BY <1>1, <2>1, <2>2
<1>4. CASE Cut = 0
  <2>1. H = {}
    BY <1>2, <1>3, <1>4
  <2> QED BY <1>4, <2>1
<1>5. CASE Cut # 0
  <2>1. Cut \in H
    BY <1>1, <1>2, <1>5 DEF Delimited, Hyphen
  <2> HIDE DEF H
  <2>2. Max(H) \in H /\ \A y \in H : Max(H) >= y
    <3>1. \E x \in H : \A y \in H : x >= y
      BY <1>1, <1>3, <2>1
    <3> QED BY <3>1 DEF Max
  <2>3. Max(H) = Cut
    <3> DEFINE m == Max(H)
    <3>1. m \in H /\ m >= Cut
      BY <2>1, <2>2
    <3> HIDE DEF m
    <3>2. m \in Nat /\ m <= Cut
      BY <1>3, <3>1
    <3>3. m = Cut
      BY <1>1, <3>1, <3>2
    <3> QED BY <3>3 DEF m
  <2> QED BY <2>1, <2>3 DEF H
<1> QED BY <1>4, <1>5

\* When all runes are handled, the decoder has the label.
LEMMA DoneBack ==
  ASSUME EncodeInv, RoundTrip
  PROVE  DecodesBack
<1> SUFFICES ASSUME at = "done", Foreign, ~ wrapped
             PROVE  Decode(out) = label
  BY DEF DecodesBack
<1>1. Delimited /\ Follows(Decoder)
  BY DEF RoundTrip
<1>2. /\ label \in Seq(Nat) /\ Len(label) \in Nat /\ NBasic \in Nat
      /\ Handled \in SUBSET (1..Len(label)) /\ h = Len(label)
  BY Counts DEF EncodeInv, Phases
<1> DEFINE text == Decoder.text
<1>3. text \in Seq(Nat) /\ Picks(text, label, Handled) /\ Len(text) = h
  BY <1>1, DecoderTyped DEF Follows
<1> HIDE DEF text
<1>4. Handled = 1..Len(label)
  <2>1. Cardinality(Handled) = Len(label)
    BY <1>2, <1>3 DEF Picks
  <2> QED BY <1>2, <2>1, Interval, FS_Subset
<1>5. text = label
  BY <1>2, <1>3, <1>4, PicksAll
<1>6. Decode(out) = text
  <2> DEFINE cut == IF Hyphens(out) = {} THEN 0 ELSE Max(Hyphens(out))
             digits == SubSeq(out, cut + 1, Len(out))
  <2>1. Decode(out) = Run(SubSeq(out, 1, cut - 1), digits)[Len(digits)].text
    BY DEF Decode
  <2>2. cut = Cut
    BY <1>1, <1>2, CutIs
  <2> HIDE DEF cut
  <2> QED BY <2>1, <2>2 DEF text, Decoder, State
<1> QED BY <1>5, <1>6

\* What is written for a label decodes to it.
THEOREM EncodesBack == EncodeSpec => []DecodesBack
<1>1. EncodeInv /\ RoundTrip => DecodesBack
  BY DoneBack
<1> QED BY <1>1, EncodeInvariant, EncodeRoundTrip, PTL

-----------------------------------------------------------------------------
(* A text and its labels.                                                  *)

Stretch(t, y) == {x \in DOMAIN t \ Places(t, Dots) : DotsBefore(t, x) = y - 1}

Dotless(t) == \A x \in 1..Len(t) : t[x] \notin Dots

\* A set of places that is not empty has a first one and a last one.
LEMMA Ends ==
  ASSUME NEW m \in Nat, NEW S \in SUBSET (1..m), S # {}
  PROVE  /\ Min(S) \in S /\ Max(S) \in S /\ Min(S) \in 1..m /\ Max(S) \in 1..m
         /\ \A x \in S : Min(S) <= x /\ x <= Max(S)
<1>1. S \in SUBSET Nat
  OBVIOUS
<1>2. PICK a \in S : \A x \in S : a <= x
  BY <1>1, LeastNumber
<1> DEFINE T == {m - x : x \in S}
<1>3. T \in SUBSET Nat /\ T # {}
  OBVIOUS
<1>4. PICK b \in T : \A y \in T : b <= y
  <2> HIDE DEF T
  <2> QED BY <1>3, LeastNumber
<1>5. PICK c \in S : b = m - c
  OBVIOUS
<1>6. \A x \in S : x <= c
  <2> TAKE x \in S
  <2>1. m - x \in T
    OBVIOUS
  <2>2. m - c <= m - x
    BY <1>4, <1>5, <2>1
  <2> QED BY <2>2
<1>7. Min(S) \in S /\ \A x \in S : Min(S) <= x
  BY <1>2 DEF Min
<1>8. Max(S) \in S /\ \A x \in S : Max(S) >= x
  <2>1. \A x \in S : c >= x
    BY <1>6
  <2> QED BY <1>5, <2>1 DEF Max
<1>9. Min(S) \in 1..m /\ Max(S) \in 1..m
  BY <1>7, <1>8
<1> QED BY <1>7, <1>8, <1>9

\* What stands where in a slice.
LEMMA SliceIs ==
  ASSUME NEW A, NEW t \in Seq(A), NEW a \in 1..Len(t), NEW b \in 1..Len(t), a <= b
  PROVE  LET u == SubSeq(t, a, b)
         IN /\ u \in Seq(A) /\ Len(u) = b - a + 1 /\ Len(u) <= Len(t)
            /\ u = [x \in 1..(b - a + 1) |-> t[a + x - 1]]
            /\ \A x \in 1..Len(u) : u[x] = t[a + x - 1] /\ a + x - 1 \in a..b /\ a + x - 1 \in 1..Len(t)
<1>1. Len(t) \in Nat /\ a \in Nat /\ b \in Nat /\ 1 <= a /\ b <= Len(t)
  OBVIOUS
<1> QED BY <1>1

\* What lies between the first and the last of some places.
LEMMA BetweenIs ==
  ASSUME NEW A, NEW t \in Seq(A), NEW S \in SUBSET (1..Len(t))
  PROVE  /\ Between(t, S) \in Seq(A) /\ Len(Between(t, S)) \in Nat /\ Len(Between(t, S)) <= Len(t)
         /\ S = {} => Between(t, S) = <<>>
         /\ \A x \in 1..Len(Between(t, S)) :
              \E z \in 1..Len(t) : /\ Min(S) <= z /\ z <= Max(S) /\ S # {}
                                   /\ Between(t, S)[x] = t[z]
         /\ \A z \in S : \E x \in 1..Len(Between(t, S)) : Between(t, S)[x] = t[z]
<1>1. CASE S = {}
  <2>1. Between(t, S) = <<>>
    BY <1>1 DEF Between
  <2>2. Len(t) \in Nat /\ <<>> \in Seq(A) /\ Len(<<>>) = 0
    OBVIOUS
  <2>3. 1..Len(Between(t, S)) = {}
    BY <2>1, <2>2
  <2>4. Between(t, S) \in Seq(A) /\ Len(Between(t, S)) \in Nat /\ Len(Between(t, S)) <= Len(t)
    BY <2>1, <2>2
  <2>5. \A x \in 1..Len(Between(t, S)) : FALSE
    BY <2>3
  <2> QED BY <1>1, <2>1, <2>4, <2>5, Zenon
<1>2. CASE S # {}
  <2> DEFINE a == Min(S)
             b == Max(S)
             u == SubSeq(t, a, b)
  <2>1. Len(t) \in Nat
    OBVIOUS
  <2>2. a \in 1..Len(t) /\ b \in 1..Len(t) /\ a <= b /\ \A x \in S : a <= x /\ x <= b
    <3>1. /\ a \in S /\ b \in S /\ a \in 1..Len(t) /\ b \in 1..Len(t)
          /\ \A x \in S : a <= x /\ x <= b
      BY <1>2, <2>1, Ends
    <3> QED BY <3>1
  <2>3. Between(t, S) = u
    BY <1>2 DEF Between
  <2> HIDE DEF a, b
  <2>4. /\ u \in Seq(A) /\ Len(u) = b - a + 1 /\ Len(u) <= Len(t)
        /\ \A x \in 1..Len(u) : u[x] = t[a + x - 1] /\ a + x - 1 \in a..b /\ a + x - 1 \in 1..Len(t)
    BY <2>2, SliceIs
  <2> HIDE DEF u
  <2>5. ASSUME NEW x \in 1..Len(u)
        PROVE  \E z \in 1..Len(t) : a <= z /\ z <= b /\ u[x] = t[z]
    <3>1. u[x] = t[a + x - 1] /\ a + x - 1 \in a..b /\ a + x - 1 \in 1..Len(t)
      BY <2>4
    <3>2. a <= a + x - 1 /\ a + x - 1 <= b
      BY <3>1
    <3> QED BY <3>1, <3>2
  <2>6. ASSUME NEW z \in S PROVE \E x \in 1..Len(u) : u[x] = t[z]
    <3>1. z - a + 1 \in 1..Len(u) /\ a + (z - a + 1) - 1 = z
      BY <2>1, <2>2, <2>4
    <3>2. u[z - a + 1] = t[a + (z - a + 1) - 1]
      BY <2>4, <3>1
    <3> QED BY <3>1, <3>2
  <2>7. Len(u) \in Nat
    BY <2>2, <2>4
  <2>8. /\ Len(u) <= Len(t) /\ u \in Seq(A)
        /\ \A x \in 1..Len(u) :
             \E z \in 1..Len(t) : Min(S) <= z /\ z <= Max(S) /\ S # {} /\ u[x] = t[z]
    BY <1>2, <2>4, <2>5 DEF a, b
  <2> QED BY <1>2, <2>3, <2>6, <2>7, <2>8, Zenon
<1> QED BY <1>1, <1>2

\* The dots of a text, and how many are before a place.
LEMMA DotsAre ==
  ASSUME NEW t, NEW m \in Nat, DOMAIN t = 1..m
  PROVE  /\ Places(t, Dots) \in SUBSET (1..m) /\ Cardinality(Places(t, Dots)) \in Nat
         /\ \A x \in Nat \ {0} : DotsBefore(t, x) = RankIn(Places(t, Dots), x - 1)
         /\ \A x \in Nat \ {0} : /\ DotsBefore(t, x) \in Nat
                                 /\ DotsBefore(t, x) <= Cardinality(Places(t, Dots))
         /\ \A y : Stretch(t, y) \in SUBSET (1..m)
<1> DEFINE D == Places(t, Dots)
<1>1. D \in SUBSET (1..m)
  BY DEF Places
<1>2. \A y : Stretch(t, y) \in SUBSET (1..m)
  BY DEF Stretch
<1>3. ASSUME NEW x \in Nat \ {0} PROVE DotsBefore(t, x) = RankIn(D, x - 1)
  <2>1. {d \in D : d < x} = UpTo(D, x - 1)
    BY <1>1 DEF UpTo
  <2> QED BY <2>1 DEF DotsBefore, RankIn
<1> HIDE DEF D
<1>4. ASSUME NEW x \in Nat \ {0} PROVE RankIn(D, x - 1) \in Nat /\ RankIn(D, x - 1) <= Cardinality(D)
  BY <1>1, RankType
<1>5. Cardinality(D) \in Nat
  BY <1>1, RankType
<1> QED BY <1>1, <1>2, <1>3, <1>4, <1>5 DEF D

\* A label's places lie together, with no dot between them.
LEMMA StretchWhole ==
  ASSUME NEW t, NEW m \in Nat, DOMAIN t = 1..m, NEW y \in Nat,
         NEW x \in Stretch(t, y), NEW z \in Stretch(t, y), NEW w \in 1..m, x <= w, w <= z
  PROVE  t[w] \notin Dots
<1> DEFINE D == Places(t, Dots)
<1>1. x \in 1..m /\ z \in 1..m /\ x \in Nat \ {0} /\ z \in Nat \ {0} /\ w \in Nat \ {0}
  BY DotsAre
<1>2. /\ D \in SUBSET (1..m) /\ DotsBefore(t, x) = RankIn(D, x - 1)
      /\ DotsBefore(t, z) = RankIn(D, z - 1)
  BY <1>1, DotsAre
<1>3. DotsBefore(t, x) = y - 1 /\ DotsBefore(t, z) = y - 1 /\ z \notin D
  BY DEF Stretch
<1> SUFFICES ASSUME w \in D PROVE FALSE
  BY DEF Places
<1> HIDE DEF D
<1>4. w < z
  BY <1>1, <1>3
<1>5. RankIn(D, x - 1) <= RankIn(D, w - 1)
  <2>1. x - 1 \in Nat /\ w - 1 \in Nat /\ x - 1 <= w - 1
    BY <1>1
  <2> QED BY <1>2, <2>1, RankUpTo
<1>6. RankIn(D, w - 1) + 1 <= RankIn(D, w)
  <2>1. w - 1 \in Nat /\ w \in Nat /\ w - 1 < w
    BY <1>1
  <2> QED BY <1>2, <2>1, RankMore
<1>7. RankIn(D, w) <= RankIn(D, z - 1)
  <2>1. w \in Nat /\ z - 1 \in Nat /\ w <= z - 1
    BY <1>1, <1>4
  <2> QED BY <1>2, <2>1, RankUpTo
<1>8. RankIn(D, w - 1) \in Nat /\ RankIn(D, w) \in Nat /\ RankIn(D, x - 1) \in Nat /\ RankIn(D, z - 1) \in Nat
  BY <1>2, RankType
<1> QED BY <1>2, <1>3, <1>5, <1>6, <1>7, <1>8

\* There is one label more than there are dots.
LEMMA SplitIs ==
  ASSUME NEW t, NEW m \in Nat, DOMAIN t = 1..m
  PROVE  /\ DOMAIN Split(t) = 1..(Cardinality(Places(t, Dots)) + 1)
         /\ Len(Split(t)) = Cardinality(Places(t, Dots)) + 1
         /\ Len(Split(t)) \in Nat \ {0}
         /\ \A y \in 1..Len(Split(t)) : Split(t)[y] = Between(t, Stretch(t, y))
<1> DEFINE c == Cardinality(Places(t, Dots)) + 1
<1>1. c \in Nat \ {0}
  BY DotsAre
<1>2. Split(t) = [y \in 1..c |-> Between(t, Stretch(t, y))]
  BY DEF Split, Stretch
<1> HIDE DEF c
<1>3. DOMAIN Split(t) = 1..c /\ Len(Split(t)) = c /\ \A y \in 1..c : Split(t)[y] = Between(t, Stretch(t, y))
  BY <1>1, <1>2
<1> QED BY <1>1, <1>3 DEF c

\* The labels of a text: they have its characters, and no dot; and every other
\* character is in one.
LEMMA SplitLabels ==
  ASSUME NEW A, NEW t \in Seq(A)
  PROVE  /\ Split(t) \in Seq(Seq(A)) /\ Len(Split(t)) \in Nat \ {0}
         /\ \A y \in 1..Len(Split(t)) :
              /\ Split(t)[y] \in Seq(A) /\ Dotless(Split(t)[y]) /\ Len(Split(t)[y]) <= Len(t)
              /\ \A x \in 1..Len(Split(t)[y]) : \E z \in 1..Len(t) : Split(t)[y][x] = t[z]
         /\ \A z \in 1..Len(t) : t[z] \notin Dots =>
              \E y \in 1..Len(Split(t)) : \E x \in 1..Len(Split(t)[y]) : Split(t)[y][x] = t[z]
<1> DEFINE m == Len(t)
           s == Split(t)
<1>1. m \in Nat /\ DOMAIN t = 1..m
  OBVIOUS
<1>2. /\ Len(s) = Cardinality(Places(t, Dots)) + 1 /\ Len(s) \in Nat \ {0} /\ DOMAIN s = 1..Len(s)
      /\ \A y \in 1..Len(s) : s[y] = Between(t, Stretch(t, y))
  BY <1>1, SplitIs
<1>3. \A y : Stretch(t, y) \in SUBSET (1..m)
  BY <1>1, DotsAre
<1> HIDE DEF s
<1>4. ASSUME NEW y \in 1..Len(s)
      PROVE  /\ s[y] \in Seq(A) /\ Dotless(s[y]) /\ Len(s[y]) <= Len(t)
             /\ \A x \in 1..Len(s[y]) : \E z \in 1..Len(t) : s[y][x] = t[z]
  <2> DEFINE S == Stretch(t, y)
             l == Between(t, S)
  <2>1. S \in SUBSET (1..m) /\ s[y] = l /\ y \in Nat
    BY <1>2, <1>3
  <2> HIDE DEF S
  <2>2. /\ l \in Seq(A) /\ Len(l) \in Nat /\ Len(l) <= Len(t)
        /\ \A x \in 1..Len(l) :
             \E z \in 1..Len(t) : Min(S) <= z /\ z <= Max(S) /\ S # {} /\ l[x] = t[z]
    BY <2>1, BetweenIs
  <2> HIDE DEF l
  <2>3. ASSUME NEW x \in 1..Len(l) PROVE l[x] \notin Dots /\ \E z \in 1..Len(t) : l[x] = t[z]
    <3>1. PICK z \in 1..Len(t) : Min(S) <= z /\ z <= Max(S) /\ S # {} /\ l[x] = t[z]
      BY <2>2
    <3>2. Min(S) \in S /\ Max(S) \in S
      BY <1>1, <2>1, <3>1, Ends
    <3>3. t[z] \notin Dots
      BY <1>1, <2>1, <3>1, <3>2, StretchWhole DEF S
    <3> QED BY <3>1, <3>3
  <2> QED BY <2>1, <2>2, <2>3 DEF Dotless
<1>5. s \in Seq(Seq(A))
  <2>1. s = [y \in 1..Len(s) |-> Between(t, Stretch(t, y))]
    BY <1>1, <1>2 DEF s, Split, Stretch
  <2>2. \A y \in 1..Len(s) : Between(t, Stretch(t, y)) \in Seq(A)
    BY <1>2, <1>4
  <2>3. s \in [1..Len(s) -> Seq(A)]
    BY <2>1, <2>2
  <2> QED BY <1>2, <2>3
<1>6. ASSUME NEW z \in 1..m, t[z] \notin Dots
      PROVE  \E y \in 1..Len(s) : \E x \in 1..Len(s[y]) : s[y][x] = t[z]
  <2> DEFINE y == DotsBefore(t, z) + 1
  <2>1. z \in Nat \ {0}
    OBVIOUS
  <2>2. DotsBefore(t, z) \in Nat /\ DotsBefore(t, z) <= Cardinality(Places(t, Dots))
    BY <1>1, <2>1, DotsAre
  <2>3. Cardinality(Places(t, Dots)) \in Nat
    BY <1>1, DotsAre
  <2>4. y \in 1..Len(s) /\ DotsBefore(t, z) = y - 1
    BY <1>2, <2>2, <2>3
  <2>5. z \in Stretch(t, y)
    BY <1>1, <1>6, <2>4 DEF Stretch, Places
  <2> HIDE DEF y
  <2>6. \E x \in 1..Len(Between(t, Stretch(t, y))) : Between(t, Stretch(t, y))[x] = t[z]
    BY <1>3, <2>5, BetweenIs
  <2> QED BY <1>2, <2>4, <2>6
<1> QED BY <1>2, <1>4, <1>5, <1>6 DEF s

\* A text without a dot is one label.
LEMMA SplitOne ==
  ASSUME NEW t \in Seq(Nat), Dotless(t)
  PROVE  Len(Split(t)) = 1 /\ Split(t)[1] = t
<1> DEFINE m == Len(t)
           S == Stretch(t, 1)
<1>1. m \in Nat /\ DOMAIN t = 1..m
  OBVIOUS
<1>2. Places(t, Dots) = {}
  BY <1>1 DEF Places, Dotless
<1>3. Cardinality(Places(t, Dots)) = 0
  BY <1>2, FS_EmptySet
<1>4. Len(Split(t)) = 1 /\ Split(t)[1] = Between(t, S)
  <2>1. 1 \in 1..1
    OBVIOUS
  <2>2. Len(Split(t)) = 1
    <3>1. Len(Split(t)) = Cardinality(Places(t, Dots)) + 1
      BY <1>1, SplitIs
    <3> QED BY <1>3, <3>1
  <2> QED BY <1>1, <2>1, <2>2, SplitIs
<1>5. S = 1..m
  <2>1. \A x \in 1..m : DotsBefore(t, x) = 0
    <3> TAKE x \in 1..m
    <3>1. {d \in Places(t, Dots) : d < x} = {}
      BY <1>2
    <3> QED BY <3>1, FS_EmptySet DEF DotsBefore
  <2> QED BY <1>1, <1>2, <2>1 DEF Stretch
<1>6. Between(t, 1..m) = t
  <2>1. CASE m = 0
    <3>1. 1..m = {} /\ t = <<>>
      BY <2>1
    <3> QED BY <3>1 DEF Between
  <2>2. CASE m # 0
    <3>1. 1..m # {} /\ 1 \in 1..m /\ m \in 1..m
      <4> HIDE DEF m
      <4>1. 1 \in 1..m /\ m \in 1..m
        BY <1>1, <2>2
      <4> QED BY <4>1
    <3>2. /\ Min(1..m) \in 1..m /\ Max(1..m) \in 1..m
          /\ \A x \in 1..m : Min(1..m) <= x /\ x <= Max(1..m)
      BY <1>1, <3>1, Ends
    <3>3. Min(1..m) = 1 /\ Max(1..m) = m
      <4> DEFINE a == Min(1..m)
                 b == Max(1..m)
      <4>1. a \in 1..m /\ b \in 1..m /\ a <= 1 /\ m <= b
        BY <3>1, <3>2
      <4> HIDE DEF a, b, m
      <4>2. a = 1 /\ b = m
        BY <1>1, <4>1
      <4> QED BY <4>2 DEF a, b
    <3>4. SubSeq(t, 1, m) = t
      OBVIOUS
    <3> QED BY <3>1, <3>3, <3>4 DEF Between
  <2> QED BY <2>1, <2>2
<1> QED BY <1>4, <1>5, <1>6

\* u is t, a dot and l.
Joins(u, t, l) ==
  /\ u \in Seq(Nat) /\ Len(u) = Len(t) + 1 + Len(l) /\ u[Len(t) + 1] = Dot
  /\ \A x \in 1..Len(t) : u[x] = t[x]
  /\ \A x \in 1..Len(l) : u[Len(t) + 1 + x] = l[x]

\* A dot and a label are put behind a text.
LEMMA JoinsIs ==
  ASSUME NEW t \in Seq(Nat), NEW l \in Seq(Nat)
  PROVE  Joins(t \o <<Dot>> \o l, t, l)
<1> DEFINE d == <<Dot>>
           v == t \o d
           u == v \o l
<1>1. d \in Seq(Nat) /\ Len(d) = 1 /\ d[1] = Dot
  BY DEF Dot
<1> HIDE DEF d
<1>2. /\ v \in Seq(Nat) /\ Len(t) \in Nat /\ Len(v) = Len(t) + 1
      /\ \A x \in 1..Len(t) : v[x] = t[x]
      /\ v[Len(t) + 1] = Dot
  <2>1. /\ v \in Seq(Nat) /\ Len(t) \in Nat /\ Len(v) = Len(t) + Len(d)
        /\ \A x \in 1..Len(t) : v[x] = t[x]
        /\ \A x \in 1..Len(d) : v[Len(t) + x] = d[x]
    BY <1>1, ConcatIs
  <2>2. 1 \in 1..Len(d)
    BY <1>1
  <2> QED BY <1>1, <2>1, <2>2
<1> HIDE DEF v
<1>3. /\ u \in Seq(Nat) /\ Len(l) \in Nat /\ Len(u) = Len(v) + Len(l)
      /\ \A x \in 1..Len(v) : u[x] = v[x]
      /\ \A x \in 1..Len(l) : u[Len(v) + x] = l[x]
  BY <1>2, ConcatIs
<1> HIDE DEF u
<1>4. u[Len(t) + 1] = Dot /\ \A x \in 1..Len(t) : u[x] = t[x]
  <2>1. Len(t) + 1 \in 1..Len(v) /\ \A x \in 1..Len(t) : x \in 1..Len(v)
    BY <1>2
  <2> QED BY <1>2, <1>3, <2>1
<1>5. \A x \in 1..Len(l) : u[Len(t) + 1 + x] = l[x]
  BY <1>2, <1>3
<1>6. Joins(u, t, l)
  BY <1>2, <1>3, <1>4, <1>5 DEF Joins
<1> QED BY <1>6 DEF u, v, d

\* The places of t are cut out of u as they are out of t.
LEMMA SameBetween ==
  ASSUME NEW t \in Seq(Nat), NEW u \in Seq(Nat), Len(t) <= Len(u), Alike(u, t, Len(t)),
         NEW S \in SUBSET (1..Len(t))
  PROVE  Between(u, S) = Between(t, S)
<1>1. CASE S = {}
  BY <1>1 DEF Between
<1>2. CASE S # {}
  <2> DEFINE a == Min(S)
             b == Max(S)
  <2>1. Len(t) \in Nat /\ Len(u) \in Nat
    OBVIOUS
  <2>2. a \in S /\ b \in S /\ a \in 1..Len(t) /\ b \in 1..Len(t) /\ \A x \in S : a <= x /\ x <= b
    BY <1>2, <2>1, Ends
  <2>3. a <= b /\ a \in 1..Len(u) /\ b \in 1..Len(u)
    BY <2>1, <2>2
  <2> HIDE DEF a, b
  <2>4. /\ SubSeq(t, a, b) = [x \in 1..(b - a + 1) |-> t[a + x - 1]]
        /\ SubSeq(u, a, b) = [x \in 1..(b - a + 1) |-> u[a + x - 1]]
    BY <2>2, <2>3, SliceIs
  <2>5. \A x \in 1..(b - a + 1) : u[a + x - 1] = t[a + x - 1]
    <3> TAKE x \in 1..(b - a + 1)
    <3>1. a + x - 1 \in 1..Len(t)
      BY <2>2, <2>3
    <3> QED BY <3>1 DEF Alike
  <2>6. [x \in 1..(b - a + 1) |-> u[a + x - 1]] = [x \in 1..(b - a + 1) |-> t[a + x - 1]]
    BY <2>5
  <2>7. SubSeq(u, a, b) = SubSeq(t, a, b)
    BY <2>4, <2>6
  <2> QED BY <1>2, <2>7 DEF Between, a, b
<1> QED BY <1>1, <1>2

\* One more label.
LEMMA SplitMore ==
  ASSUME NEW t \in Seq(Nat), NEW l \in Seq(Nat), Dotless(l), NEW u, Joins(u, t, l)
  PROVE  /\ Len(Split(u)) = Len(Split(t)) + 1 /\ Split(u)[Len(Split(t)) + 1] = l
         /\ \A y \in 1..Len(Split(t)) : Split(u)[y] = Split(t)[y]
<1> DEFINE m == Len(t)
           p == m + 1
           D == Places(t, Dots)
           E == Places(u, Dots)
           c == Cardinality(D)
<1>1. /\ m \in Nat /\ Len(l) \in Nat /\ u \in Seq(Nat) /\ Len(u) = p + Len(l) /\ u[p] = Dot
      /\ Alike(u, t, m) /\ \A x \in 1..Len(l) : u[p + x] = l[x]
      /\ DOMAIN t = 1..m /\ DOMAIN u = 1..Len(u) /\ Len(u) \in Nat
  <2>1. m \in Nat /\ Len(l) \in Nat /\ DOMAIN t = 1..m
    OBVIOUS
  <2>2. /\ u \in Seq(Nat) /\ Len(u) = p + Len(l) /\ u[p] = Dot
        /\ Alike(u, t, m) /\ \A x \in 1..Len(l) : u[p + x] = l[x]
    BY DEF Joins, Alike
  <2>3. DOMAIN u = 1..Len(u) /\ Len(u) \in Nat
    BY <2>2
  <2> QED BY <2>1, <2>2, <2>3
<1>2. D \in SUBSET (1..m) /\ IsFiniteSet(D) /\ c \in Nat
  <2>1. D \in SUBSET (1..m)
    BY <1>1, DotsAre
  <2> HIDE DEF D
  <2> QED BY <1>1, <2>1, RankType
<1>3. \A x \in (p + 1)..Len(u) : u[x] \notin Dots
  <2> TAKE x \in (p + 1)..Len(u)
  <2>1. x - p \in 1..Len(l) /\ p + (x - p) = x
    <3>1. p \in Nat /\ Len(u) = p + Len(l) /\ Len(l) \in Nat
      BY <1>1
    <3> HIDE DEF p
    <3> QED BY <3>1
  <2>2. u[x] = l[x - p]
    BY <1>1, <2>1
  <2> QED BY <2>1, <2>2 DEF Dotless
<1>4. E = D \cup {p}
  <2>1. \A x \in 1..m : x \in E <=> x \in D
    BY <1>1 DEF Places, Alike
  <2>2. p \in E
    BY <1>1 DEF Places, Dots
  <2>3. \A x \in E : x \in 1..m \/ x = p
    <3> TAKE x \in E
    <3>1. x \in 1..Len(u) /\ x \notin (p + 1)..Len(u)
      BY <1>1, <1>3 DEF Places
    <3> QED BY <1>1, <3>1
  <2> HIDE DEF D, E
  <2> QED BY <1>2, <2>1, <2>2, <2>3
<1>5. Cardinality(E) = c + 1 /\ p \notin D
  <2>1. p \notin D
    BY <1>1, <1>2
  <2> HIDE DEF D, E
  <2>2. Cardinality(D \cup {p}) = Cardinality(D) + 1
    BY <1>2, <2>1, FS_AddElement
  <2> QED BY <1>4, <2>1, <2>2
<1>6. Len(Split(t)) = c + 1 /\ Len(Split(u)) = c + 2
  <2>1. Len(Split(t)) = c + 1 /\ Len(Split(u)) = (c + 1) + 1
    BY <1>1, <1>5, SplitIs
  <2> QED BY <1>2, <2>1
<1>7. \A x \in 1..p : DotsBefore(u, x) = DotsBefore(t, x)
  <2> TAKE x \in 1..p
  <2>1. ~ (p < x)
    BY <1>1
  <2> HIDE DEF D, E
  <2>2. {d \in E : d < x} = {d \in D : d < x}
    BY <1>4, <2>1
  <2> QED BY <2>2 DEF DotsBefore, D, E
<1>8. \A x \in (p + 1)..Len(u) : DotsBefore(u, x) = c + 1
  <2> TAKE x \in (p + 1)..Len(u)
  <2>1. \A d \in D \cup {p} : d < x
    <3>1. m \in Nat /\ p = m + 1 /\ D \in SUBSET (1..m) /\ x > p
      <4>1. m \in Nat /\ D \in SUBSET (1..m)
        BY <1>1, <1>2
      <4> HIDE DEF D, m
      <4> QED BY <4>1
    <3> HIDE DEF m, p, D
    <3> QED BY <3>1
  <2> HIDE DEF D, E
  <2>2. {d \in E : d < x} = E
    BY <1>4, <2>1
  <2> QED BY <1>5, <2>2 DEF DotsBefore, E
<1>9. \A x \in 1..p : DotsBefore(t, x) \in 0..c
  <2> TAKE x \in 1..p
  <2>1. x \in Nat \ {0}
    BY <1>1
  <2>2. DotsBefore(t, x) \in Nat /\ DotsBefore(t, x) <= c
    BY <1>1, <2>1, DotsAre
  <2> QED BY <1>2, <2>2
<1>10. p \in E
  BY <1>4
<1> HIDE DEF D, E, c
<1>11. ASSUME NEW y \in 1..(c + 1) PROVE Split(u)[y] = Split(t)[y]
  <2>1. Stretch(u, y) = Stretch(t, y)
    <3>1. \A x \in 1..m : x \in Stretch(u, y) <=> x \in Stretch(t, y)
      <4> TAKE x \in 1..m
      <4>1. x \in 1..p /\ x \in DOMAIN u /\ x \in DOMAIN t /\ x # p
        <5>1. m \in Nat /\ p = m + 1 /\ Len(u) = p + Len(l) /\ Len(l) \in Nat
          BY <1>1
        <5>2. DOMAIN u = 1..Len(u) /\ DOMAIN t = 1..m
          BY <1>1
        <5> HIDE DEF m, p
        <5>3. x \in 1..p /\ x \in 1..Len(u) /\ x # p
          BY <5>1
        <5> QED BY <5>2, <5>3
      <4>2. DotsBefore(u, x) = DotsBefore(t, x) /\ (x \in E <=> x \in D)
        BY <1>4, <1>7, <4>1
      <4> QED BY <4>1, <4>2 DEF Stretch, D, E
    <3>2. \A x \in Stretch(t, y) : x \in 1..m
      BY <1>1, DotsAre
    <3>3. \A x \in Stretch(u, y) : x \in 1..m
      <4> TAKE x \in Stretch(u, y)
      <4>1. x \in 1..Len(u) /\ x \notin E /\ DotsBefore(u, x) = y - 1
        BY <1>1 DEF Stretch, E
      <4>2. x # p
        BY <1>10, <4>1
      <4>3. x \notin (p + 1)..Len(u)
        BY <1>2, <1>8, <4>1
      <4>4. m \in Nat /\ p = m + 1 /\ Len(u) \in Nat
        BY <1>1
      <4> HIDE DEF m, p
      <4> QED BY <4>1, <4>2, <4>3, <4>4
    <3> QED BY <3>1, <3>2, <3>3
  <2>2. Stretch(t, y) \in SUBSET (1..m)
    BY <1>1, DotsAre
  <2>3. Between(u, Stretch(t, y)) = Between(t, Stretch(t, y))
    <3>1. Len(t) <= Len(u)
      BY <1>1
    <3> QED BY <1>1, <2>2, <3>1, SameBetween
  <2>4. Split(u)[y] = Between(u, Stretch(u, y)) /\ Split(t)[y] = Between(t, Stretch(t, y))
    <3>1. y \in 1..Len(Split(u)) /\ y \in 1..Len(Split(t))
      BY <1>2, <1>6
    <3> QED BY <1>1, <3>1, SplitIs
  <2> QED BY <2>1, <2>3, <2>4
<1>12. Split(u)[c + 2] = l
  <2> DEFINE S == Stretch(u, c + 2)
  <2>1. Split(u)[c + 2] = Between(u, S)
    <3>1. c + 2 \in 1..Len(Split(u))
      BY <1>2, <1>6
    <3> QED BY <1>1, <3>1, SplitIs
  <2>2. S = (p + 1)..Len(u)
    <3>1. ASSUME NEW x \in S PROVE x \in (p + 1)..Len(u)
      <4>1. x \in 1..Len(u) /\ x \notin E /\ DotsBefore(u, x) = (c + 2) - 1
        BY <1>1 DEF Stretch, E
      <4>2. x \notin 1..p
        <5>1. ASSUME x \in 1..p PROVE FALSE
          <6>1. DotsBefore(u, x) \in 0..c
            BY <1>7, <1>9, <5>1
          <6> QED BY <1>2, <4>1, <6>1
        <5> QED BY <5>1
      <4> QED BY <1>1, <4>1, <4>2
    <3>2. ASSUME NEW x \in (p + 1)..Len(u) PROVE x \in S
      <4>1. x \in DOMAIN u /\ DotsBefore(u, x) = (c + 2) - 1 /\ u[x] \notin Dots
        BY <1>1, <1>2, <1>3, <1>8
      <4> QED BY <4>1 DEF Stretch, Places
    <3> QED BY <3>1, <3>2
  <2>3. CASE Len(l) = 0
    <3>1. S = {} /\ l = <<>>
      BY <1>1, <2>2, <2>3
    <3> QED BY <2>1, <3>1 DEF Between
  <2>4. CASE Len(l) # 0
    <3> DEFINE a == Min(S)
               b == Max(S)
    <3>1. S # {} /\ S \in SUBSET (1..Len(u)) /\ p + 1 \in S /\ Len(u) \in S
      <4>1. p \in Nat /\ p >= 1 /\ Len(u) \in Nat /\ p + 1 <= Len(u)
        BY <1>1, <2>4
      <4> HIDE DEF p, S
      <4>2. p + 1 \in (p + 1)..Len(u) /\ Len(u) \in (p + 1)..Len(u)
        BY <4>1
      <4>3. (p + 1)..Len(u) \in SUBSET (1..Len(u))
        BY <4>1
      <4> QED BY <2>2, <4>2, <4>3
    <3>2. a \in S /\ b \in S /\ \A x \in S : a <= x /\ x <= b
      <4> HIDE DEF S
      <4> QED BY <1>1, <3>1, Ends
    <3>3. a = p + 1 /\ b = Len(u)
      <4>1. a \in (p + 1)..Len(u) /\ b \in (p + 1)..Len(u) /\ a <= p + 1 /\ Len(u) <= b
        BY <2>2, <3>1, <3>2
      <4>2. p \in Nat /\ Len(u) \in Nat
        BY <1>1
      <4> HIDE DEF a, b, p
      <4> QED BY <4>1, <4>2
    <3>4. Split(u)[c + 2] = SubSeq(u, p + 1, Len(u))
      BY <2>1, <3>1, <3>3 DEF Between
    <3>5. SubSeq(u, p + 1, Len(u)) = l
      <4> DEFINE f == SubSeq(u, p + 1, Len(u))
      <4>1. p \in 0..Len(u) /\ Len(u) - p = Len(l)
        BY <1>1
      <4>2. f \in Seq(Nat) /\ Len(f) = Len(u) - p /\ \A y \in 1..(Len(u) - p) : f[y] = u[p + y]
        BY <1>1, <4>1, SuffixIs
      <4> HIDE DEF f
      <4>3. Len(f) = Len(l) /\ Alike(f, l, Len(f))
        BY <1>1, <4>1, <4>2 DEF Alike
      <4>4. f = l
        BY <4>2, <4>3, SameSeq
      <4> QED BY <4>4 DEF f
    <3> QED BY <3>4, <3>5
  <2> QED BY <2>3, <2>4
<1>13. Len(Split(t)) + 1 = c + 2
  BY <1>2, <1>6
<1> QED BY <1>6, <1>11, <1>12, <1>13

\* strings.Join puts one label after the other.
LEMMA JoinedIs ==
  ASSUME NEW ls \in Seq(Seq(Nat)), Len(ls) >= 1
  PROVE  LET f == Joined(ls)
         IN /\ f[1] = ls[1]
            /\ \A m \in 1..(Len(ls) - 1) : f[m + 1] = f[m] \o <<Dot>> \o ls[m + 1]
<1> DEFINE c == Len(ls)
           S == Seq(Nat)
           base == ls[1]
           next(s, m) == IF m < c THEN s \o <<Dot>> \o ls[m + 1] ELSE s
           step == [m \in Nat |-> [s \in S |-> next(s, m)]]
<1>1. c \in Nat /\ c >= 1 /\ DOMAIN ls = 1..c /\ \A x \in 1..c : ls[x] \in S
  OBVIOUS
<1>2. base \in S
  BY <1>1
<1>3. ASSUME NEW s \in S, NEW m \in Nat PROVE next(s, m) \in S
  <2>1. CASE m < c
    <3>1. m + 1 \in 1..c
      BY <1>1, <2>1
    <3>2. ls[m + 1] \in S
      BY <1>1, <3>1
    <3>3. s \o <<Dot>> \o ls[m + 1] \in S
      BY <3>2, JoinsIs DEF Joins
    <3> QED BY <2>1, <3>3
  <2>2. CASE ~ (m < c)
    BY <2>2
  <2> QED BY <2>1, <2>2
<1>4. step \in [Nat -> [S -> S]]
  <2> HIDE DEF next
  <2> QED BY <1>3
<1>5. PICK g : Recurses(g, S, base, step)
  <2> HIDE DEF S, base, step
  <2> QED BY <1>2, <1>4, Recursion
<1>6. g \in [Nat -> S] /\ g[0] = base /\ \A m \in Nat : g[m + 1] = step[m + 1][g[m]]
  BY <1>5 DEF Recurses
<1>7. ASSUME NEW m \in Nat PROVE g[m + 1] = next(g[m], m + 1)
  <2> HIDE DEF next
  <2>1. m + 1 \in Nat
    OBVIOUS
  <2>2. g[m] \in S /\ g[m + 1] = step[m + 1][g[m]]
    <3> HIDE DEF S, step
    <3> QED BY <1>6
  <2>3. \A p \in Nat : \A s \in S : step[p][s] = next(s, p)
    <3> HIDE DEF S
    <3> QED OBVIOUS
  <2> HIDE DEF S, step
  <2> QED BY <2>1, <2>2, <2>3
<1> HIDE DEF step, base
<1> DEFINE e == [m \in 1..c |-> g[m - 1]]
<1>8. e = [m \in DOMAIN ls |-> IF m = 1 THEN ls[1] ELSE e[m - 1] \o <<Dot>> \o ls[m]]
  <2>1. ASSUME NEW m \in 1..c
        PROVE  g[m - 1] = IF m = 1 THEN ls[1] ELSE e[m - 1] \o <<Dot>> \o ls[m]
    <3>1. CASE m = 1
      <4>1. m - 1 = 0
        BY <3>1
      <4> QED BY <1>6, <3>1, <4>1 DEF base
    <3>2. CASE m # 1
      <4>1. m - 2 \in Nat /\ (m - 2) + 1 = m - 1 /\ m - 1 < c /\ (m - 1) + 1 = m /\ m - 1 \in 1..c
            /\ (m - 1) - 1 = m - 2
        BY <1>1, <3>2
      <4>2. g[m - 1] = next(g[m - 2], m - 1)
        BY <1>7, <4>1, Zenon
      <4>3. g[m - 1] = g[m - 2] \o <<Dot>> \o ls[m]
        BY <4>1, <4>2
      <4>4. e[m - 1] = g[m - 2]
        BY <4>1
      <4> HIDE DEF e
      <4> QED BY <3>2, <4>3, <4>4
    <3> QED BY <3>1, <3>2
  <2>2. [m \in 1..c |-> g[m - 1]] =
          [m \in 1..c |-> IF m = 1 THEN ls[1] ELSE e[m - 1] \o <<Dot>> \o ls[m]]
    <3> HIDE DEF e
    <3> QED BY <2>1
  <2>3. e = [m \in 1..c |-> IF m = 1 THEN ls[1] ELSE e[m - 1] \o <<Dot>> \o ls[m]]
    BY <2>2, Zenon
  <2> HIDE DEF e
  <2> QED BY <1>1, <2>3
<1> HIDE DEF e
<1> DEFINE f == Joined(ls)
<1>9. f = [m \in DOMAIN ls |-> IF m = 1 THEN ls[1] ELSE f[m - 1] \o <<Dot>> \o ls[m]]
  BY <1>8, Zenon DEF Joined
<1> HIDE DEF f
<1>10. f[1] = ls[1]
  <2>1. 1 \in DOMAIN ls
    BY <1>1
  <2> QED BY <1>9, <2>1
<1>11. ASSUME NEW m \in 1..(c - 1) PROVE f[m + 1] = f[m] \o <<Dot>> \o ls[m + 1]
  <2>1. m + 1 \in DOMAIN ls /\ m + 1 # 1 /\ (m + 1) - 1 = m
    BY <1>1
  <2>2. f[m + 1] = IF m + 1 = 1 THEN ls[1] ELSE f[(m + 1) - 1] \o <<Dot>> \o ls[m + 1]
    BY <1>9, <2>1
  <2> QED BY <2>1, <2>2
<1> QED BY <1>10, <1>11 DEF f

\* All dots of a text are ASCII ones.
OnlyDot(t) == \A x \in 1..Len(t) : t[x] \in Dots => t[x] = Dot

\* A text of labels without a dot falls into them again.
LEMMA JoinSplits ==
  ASSUME NEW ls \in Seq(Seq(Nat)), Len(ls) >= 1, \A y \in 1..Len(ls) : Dotless(ls[y])
  PROVE  Join(ls) \in Seq(Nat) /\ OnlyDot(Join(ls)) /\ Split(Join(ls)) = ls
<1> DEFINE c == Len(ls)
           f == Joined(ls)
           Good(t, m) == /\ t \in Seq(Nat) /\ OnlyDot(t) /\ Len(Split(t)) = m
                         /\ \A y \in 1..m : Split(t)[y] = ls[y]
           G == {m \in Nat : m < c => Good(f[m + 1], m + 1)}
<1>1. c \in Nat /\ c >= 1 /\ \A x \in 1..c : ls[x] \in Seq(Nat)
  OBVIOUS
<1>2. f[1] = ls[1] /\ \A m \in 1..(c - 1) : f[m + 1] = f[m] \o <<Dot>> \o ls[m + 1]
  BY JoinedIs
<1> HIDE DEF f
<1>3. 0 \in G
  <2> DEFINE t == ls[1]
  <2>1. t \in Seq(Nat) /\ Dotless(t)
    BY <1>1
  <2> HIDE DEF t
  <2>2. Len(Split(t)) = 1 /\ Split(t)[1] = t
    BY <2>1, SplitOne
  <2>3. OnlyDot(t)
    BY <2>1 DEF OnlyDot, Dotless
  <2>4. \A y \in 1..1 : Split(t)[y] = ls[y]
    BY <2>2 DEF t
  <2>5. Good(t, 1)
    BY <2>1, <2>2, <2>3, <2>4
  <2> HIDE DEF Good
  <2> QED BY <1>2, <2>5 DEF t
<1>4. ASSUME NEW m \in G PROVE m + 1 \in G
  <2> SUFFICES ASSUME m + 1 < c PROVE Good(f[m + 2], m + 2)
    <3>1. m + 1 \in Nat /\ (m + 1) + 1 = m + 2
      OBVIOUS
    <3> HIDE DEF Good
    <3> QED BY <3>1
  <2> DEFINE t == f[m + 1]
             l == ls[m + 2]
             u == f[m + 2]
  <2>1. m \in Nat /\ m < c /\ m + 1 \in 1..(c - 1) /\ (m + 1) + 1 = m + 2 /\ m + 2 \in 1..c
    BY <1>1
  <2>2. Good(t, m + 1)
    BY <2>1
  <2>3. u = t \o <<Dot>> \o l
    BY <1>2, <2>1
  <2>4. l \in Seq(Nat) /\ Dotless(l) /\ t \in Seq(Nat)
    BY <1>1, <2>1, <2>2
  <2>7. l = ls[m + 2] /\ u = f[m + 2]
    OBVIOUS
  <2> HIDE DEF t, l, u
  <2>5. Joins(u, t, l)
    BY <2>3, <2>4, JoinsIs
  <2>6. /\ Len(Split(u)) = Len(Split(t)) + 1 /\ Split(u)[Len(Split(t)) + 1] = l
        /\ \A y \in 1..Len(Split(t)) : Split(u)[y] = Split(t)[y]
    BY <2>4, <2>5, SplitMore
  <2>8. Len(Split(t)) = m + 1 /\ \A y \in 1..(m + 1) : Split(t)[y] = ls[y]
    BY <2>2
  <2>9. Len(Split(u)) = m + 2 /\ \A y \in 1..(m + 2) : Split(u)[y] = ls[y]
    <3>1. Len(Split(u)) = m + 2 /\ Split(u)[m + 2] = ls[m + 2]
      BY <2>1, <2>6, <2>7, <2>8
    <3>2. \A y \in 1..(m + 1) : Split(u)[y] = ls[y]
      BY <2>6, <2>8
    <3>3. \A y \in 1..(m + 2) : y \in 1..(m + 1) \/ y = m + 2
      BY <2>1
    <3> QED BY <3>1, <3>2, <3>3
  <2>10. OnlyDot(u)
    <3> SUFFICES ASSUME NEW x \in 1..Len(u), u[x] \in Dots PROVE u[x] = Dot
      BY DEF OnlyDot
    <3>1. Len(t) \in Nat /\ Len(l) \in Nat /\ Len(u) = Len(t) + 1 + Len(l)
      <4>1. Len(t) \in Nat /\ Len(l) \in Nat
        BY <2>4
      <4>2. Len(u) = Len(t) + 1 + Len(l)
        BY <2>5 DEF Joins
      <4> QED BY <4>1, <4>2
    <3>2. CASE x \in 1..Len(t)
      BY <2>2, <2>5, <3>2 DEF Joins, OnlyDot
    <3>3. CASE x = Len(t) + 1
      BY <2>5, <3>3 DEF Joins
    <3>4. CASE x > Len(t) + 1
      <4>1. x - (Len(t) + 1) \in 1..Len(l) /\ Len(t) + 1 + (x - (Len(t) + 1)) = x
        BY <3>1, <3>4
      <4>2. u[x] = l[x - (Len(t) + 1)]
        BY <2>5, <4>1 DEF Joins
      <4> QED BY <2>4, <4>1, <4>2 DEF Dotless
    <3> QED BY <3>1, <3>2, <3>3, <3>4
  <2>11. Good(u, m + 2)
    BY <2>5, <2>9, <2>10 DEF Joins
  <2> HIDE DEF Good
  <2> QED BY <2>7, <2>11
<1>5. G = Nat
  <2>1. G \in SUBSET Nat
    OBVIOUS
  <2> HIDE DEF G
  <2> QED BY <1>3, <1>4, <2>1, Induction
<1>6. Good(Join(ls), c)
  <2>1. c - 1 \in G /\ c - 1 < c /\ (c - 1) + 1 = c
    <3> HIDE DEF G, c
    <3>1. c - 1 \in Nat /\ c - 1 < c /\ (c - 1) + 1 = c
      BY <1>1
    <3> QED BY <1>5, <3>1
  <2> HIDE DEF Good
  <2> QED BY <2>1 DEF Join, f
<1>7. Split(Join(ls)) = ls
  <2> DEFINE s == Split(Join(ls))
  <2>1. s \in Seq(Seq(Nat)) /\ Len(s) = c /\ \A y \in 1..c : s[y] = ls[y]
    BY <1>6, SplitLabels
  <2> DEFINE T == Seq(Nat)
  <2>3. s \in Seq(T) /\ ls \in Seq(T)
    BY <2>1
  <2> HIDE DEF s, T
  <2>4. Len(s) = Len(ls) /\ Alike(s, ls, Len(s))
    BY <2>1 DEF Alike
  <2>2. s = ls
    BY <2>3, <2>4, SameSeq
  <2> QED BY <2>2 DEF s
<1> QED BY <1>6, <1>7

-----------------------------------------------------------------------------
(* The characters of an encoding.                                          *)

\* A label's basic runes, digits and the hyphen are all that is written, ...
Stems(s, l) ==
  /\ s \in Seq(Nat)
  /\ \A x \in 1..Len(s) :
       \/ s[x] = Hyphen \/ s[x] \in 97..122 \/ s[x] \in 48..57
       \/ \E y \in 1..Len(l) : IsBasic(l[y]) /\ s[x] = l[y]

\* ... and every basic rune of the first m is.
Keeps(s, l, m) == \A y \in 1..m : IsBasic(l[y]) => \E x \in 1..Len(s) : s[x] = l[y]

Copies ==
  /\ Stems(out, label)
  /\ at = "copy" => Keeps(out, label, j - 1)
  /\ at \in {"search", "scan", "digits", "done"} => Keeps(out, label, Len(label))

\* One more character of those that an encoding has.
LEMMA StemsMore ==
  ASSUME NEW s, NEW l, NEW c \in Nat, NEW m, Stems(s, l),
         \/ c = Hyphen \/ c \in 97..122 \/ c \in 48..57
         \/ \E y \in 1..Len(l) : IsBasic(l[y]) /\ c = l[y]
  PROVE  /\ Stems(Append(s, c), l) /\ (Keeps(s, l, m) => Keeps(Append(s, c), l, m))
         /\ \E x \in 1..Len(Append(s, c)) : Append(s, c)[x] = c
<1> DEFINE u == Append(s, c)
<1>1. /\ u \in Seq(Nat) /\ Len(s) \in Nat /\ Len(u) = Len(s) + 1 /\ u[Len(s) + 1] = c
      /\ \A x \in 1..Len(s) : u[x] = s[x]
  BY DEF Stems
<1> HIDE DEF u
<1>2. /\ \A x \in 1..Len(u) : x \in 1..Len(s) \/ x = Len(s) + 1
      /\ \A x \in 1..Len(s) : x \in 1..Len(u)
      /\ Len(s) + 1 \in 1..Len(u)
  BY <1>1
<1>3. Stems(u, l)
  <2>1. ASSUME NEW x \in 1..Len(u)
        PROVE  \/ u[x] = Hyphen \/ u[x] \in 97..122 \/ u[x] \in 48..57
               \/ \E y \in 1..Len(l) : IsBasic(l[y]) /\ u[x] = l[y]
    <3>1. CASE x \in 1..Len(s)
      <4>1. u[x] = s[x]
        BY <1>1, <3>1
      <4> QED BY <3>1, <4>1 DEF Stems
    <3>2. CASE x = Len(s) + 1
      <4>1. u[x] = c
        BY <1>1, <3>2
      <4> QED BY <4>1
    <3> QED BY <1>2, <3>1, <3>2
  <2> QED BY <1>1, <2>1 DEF Stems
<1>4. Keeps(s, l, m) => Keeps(u, l, m)
  <2> SUFFICES ASSUME Keeps(s, l, m), NEW y \in 1..m, IsBasic(l[y])
               PROVE  \E x \in 1..Len(u) : u[x] = l[y]
    BY DEF Keeps
  <2>1. PICK x \in 1..Len(s) : s[x] = l[y]
    BY DEF Keeps
  <2> QED BY <1>1, <1>2, <2>1
<1> QED BY <1>1, <1>2, <1>3, <1>4 DEF u

\* A digit is one of them.
LEMMA DigitStems ==
  ASSUME NEW d \in 0..35
  PROVE  Digit(d) \in Nat /\ (Digit(d) \in 97..122 \/ Digit(d) \in 48..57)
  BY DEF Digit

\* A basic rune is copied.
LEMMA CopiesCopy ==
  ASSUME EncodeInv, Copies, CopyBasic
  PROVE  Copies'
<1>1. /\ at = "copy" /\ at' = "copy" /\ j' = j + 1 /\ label' = label /\ j \in Nat /\ j \in 1..Len(label)
      /\ label[j] \in Nat
  <2>1. label \in Seq(Nat) /\ Len(label) \in Nat /\ j \in Nat /\ j >= 1
    BY Counts
  <2> QED BY <2>1 DEF CopyBasic
<1>2. Stems(out, label) /\ Keeps(out, label, j - 1)
  BY <1>1 DEF Copies
<1>3. \A y \in 1..j : y \in 1..(j - 1) \/ y = j
  BY <1>1
<1>4. Stems(out', label) /\ Keeps(out', label, j)
  <2>1. CASE IsBasic(label[j])
    <3>1. out' = Append(out, label[j])
      BY <2>1 DEF CopyBasic
    <3>2. /\ Stems(out', label) /\ Keeps(out', label, j - 1)
          /\ \E x \in 1..Len(out') : out'[x] = label[j]
      BY <1>1, <1>2, <2>1, <3>1, StemsMore
    <3> QED BY <1>3, <3>2, Zenon DEF Keeps
  <2>2. CASE ~ IsBasic(label[j])
    <3>1. out' = out
      BY <2>2 DEF CopyBasic
    <3> QED BY <1>2, <1>3, <2>2, <3>1, Zenon DEF Keeps
  <2> QED BY <2>1, <2>2
<1>5. j' - 1 = j
  BY <1>1
<1> QED BY <1>1, <1>4, <1>5 DEF Copies

\* What is in front of the digits holds all basic runes.
LEMMA CopiesStep ==
  ASSUME EncodeInv, RoundTrip, Copies, EncodeStep
  PROVE  Copies'
<1>1. bias \in Nat /\ q \in Nat /\ k \in Nat /\ Stems(out, label)
  BY DEF RoundTrip, Copies
<1>2. label' = label
  BY DEF EncodeStep, CopyBasic, Delimit, Advance, Fail, PassBy, Insert, WriteDigit, WriteLastDigit,
     EndScan, Encoded
<1>3. CASE CopyBasic
  BY <1>3, CopiesCopy
<1>4. CASE Delimit
  <2>1. /\ at = "copy" /\ at' = "search" /\ j > Len(label)
        /\ out' = IF h > 0 /\ h < Len(label) THEN Append(out, Hyphen) ELSE out
    BY <1>4 DEF Delimit
  <2>2. j - 1 = Len(label)
    <3>1. j \in Nat /\ Len(label) \in Nat /\ j - 1 \in 0..Len(label)
      BY Counts
    <3> QED BY <2>1, <3>1
  <2>3. Keeps(out, label, Len(label))
    BY <2>1, <2>2 DEF Copies
  <2>4. Stems(out', label) /\ Keeps(out', label, Len(label))
    <3>1. Hyphen \in Nat
      BY DEF Hyphen
    <3>2. Stems(Append(out, Hyphen), label) /\ Keeps(Append(out, Hyphen), label, Len(label))
      BY <1>1, <2>3, <3>1, StemsMore
    <3> QED BY <1>1, <2>1, <2>3, <3>2
  <2> QED BY <1>2, <2>1, <2>4 DEF Copies
<1>5. CASE WriteDigit \/ WriteLastDigit
  <2>1. at = "digits" /\ at' \in {"digits", "scan"} /\ Keeps(out, label, Len(label))
    BY <1>5 DEF WriteDigit, WriteLastDigit, Copies
  <2>2. \E d \in 0..35 : out' = Append(out, Digit(d))
    <3> DEFINE t == Threshold
    <3>1. t \in 1..26
      BY <1>1, SameThreshold
    <3>2. CASE WriteDigit
      <4> DEFINE d == t + ((q - t) % (36 - t))
      <4>1. q >= t /\ out' = Append(out, Digit(d))
        BY <3>2 DEF WriteDigit, Base
      <4> HIDE DEF t
      <4>2. d \in 0..35
        BY <1>1, <3>1, <4>1, DigitSplit
      <4> QED BY <4>1, <4>2
    <3>3. CASE WriteLastDigit
      <4>1. q < t /\ out' = Append(out, Digit(q))
        BY <3>3 DEF WriteLastDigit
      <4> HIDE DEF t
      <4>2. q \in 0..35
        BY <1>1, <3>1, <4>1
      <4> QED BY <4>1, <4>2
    <3> QED BY <1>5, <3>2, <3>3
  <2>3. PICK d \in 0..35 : out' = Append(out, Digit(d))
    BY <2>2
  <2>4. Stems(out', label) /\ Keeps(out', label, Len(label))
    <3> DEFINE c == Digit(d)
    <3>1. c \in Nat /\ (c \in 97..122 \/ c \in 48..57)
      BY DigitStems
    <3> HIDE DEF c
    <3>2. Stems(Append(out, c), label) /\ Keeps(Append(out, c), label, Len(label))
      BY <1>1, <2>1, <3>1, StemsMore
    <3> QED BY <2>3, <3>2 DEF c
  <2> QED BY <1>2, <2>1, <2>4 DEF Copies
<1>6. CASE Advance \/ PassBy \/ Insert \/ EndScan \/ Encoded
  <2>1. /\ at \in {"search", "scan", "digits", "done"} /\ at' \in {"search", "scan", "digits", "done"}
        /\ out' = out
    BY <1>6 DEF Advance, PassBy, Insert, EndScan, Encoded
  <2> QED BY <1>2, <2>1 DEF Copies
<1>7. CASE Fail
  <2>1. at' = "failed" /\ out' = out
    BY <1>7 DEF Fail
  <2> QED BY <1>2, <2>1 DEF Copies
<1> QED BY <1>3, <1>4, <1>5, <1>6, <1>7 DEF EncodeStep

\* A new label has none copied.
LEMMA CopiesStart ==
  ASSUME RoundTrip, NEW l \in Seq(0..MaxCode), Encode(l)
  PROVE  Copies'
<1>1. at' = "copy" /\ j' = 1 /\ out' = <<>>
  BY DEF Encode, RoundTrip
<1>2. 1..Len(out') = {} /\ 1..(j' - 1) = {} /\ out' \in Seq(Nat)
  BY <1>1
<1> QED BY <1>1, <1>2 DEF Copies, Stems, Keeps

\* An idle encoder has written nothing.
LEMMA CopiesEmpty ==
  ASSUME at = "idle", out = <<>>
  PROVE  Copies
<1>1. 1..Len(out) = {} /\ out \in Seq(Nat)
  OBVIOUS
<1> QED BY <1>1 DEF Copies, Stems, Keeps

\* What was written is gone with its label.
LEMMA CopiesTake ==
  ASSUME Take
  PROVE  Copies'
<1>1. at' = "idle" /\ out' = <<>>
  BY DEF Take
<1>2. 1..Len(out') = {} /\ out' \in Seq(Nat)
  BY <1>1
<1> QED BY <1>1, <1>2 DEF Copies, Stems, Keeps

-----------------------------------------------------------------------------
(* The name that is asked for.                                             *)

\* A slice has the members of the whole.
LEMMA SlicedIs ==
  ASSUME NEW A, NEW t \in Seq(A), NEW a \in Nat \ {0}, NEW b \in Int, b <= Len(t)
  PROVE  SubSeq(t, a, b) \in Seq(A)
<1>1. Len(t) \in Nat
  OBVIOUS
<1>2. CASE b < a
  <2>1. SubSeq(t, a, b) = <<>>
    BY <1>1, <1>2
  <2> QED BY <2>1
<1>3. CASE a <= b
  <2>1. a \in 1..Len(t) /\ b \in 1..Len(t)
    BY <1>1, <1>3
  <2> QED BY <1>3, <2>1, SliceIs
<1> QED BY <1>2, <1>3

\* Nothing new comes into a text that is cut, ...
LEMMA BeforeHostEndType ==
  ASSUME NEW A, NEW t \in Seq(A)
  PROVE  BeforeHostEnd(t) \in Seq(A)
<1> DEFINE P == Places(t, HostEnds)
<1>1. Len(t) \in Nat /\ P \in SUBSET (1..Len(t))
  BY DEF Places
<1>2. CASE P = {}
  BY <1>2 DEF BeforeHostEnd
<1>3. CASE P # {}
  <2> HIDE DEF P
  <2>1. Min(P) \in 1..Len(t)
    BY <1>1, <1>3, Ends
  <2>2. Min(P) - 1 \in Int /\ Min(P) - 1 <= Len(t) /\ 1 \in Nat \ {0}
    BY <1>1, <2>1
  <2>3. SubSeq(t, 1, Min(P) - 1) \in Seq(A)
    BY <2>2, SlicedIs
  <2> QED BY <1>3, <2>3 DEF BeforeHostEnd, P
<1> QED BY <1>2, <1>3

\* ... be it at its scheme ...
LEMMA HostType ==
  ASSUME NEW A, NEW t \in Seq(A)
  PROVE  Host(t) \in Seq(A)
<1> DEFINE S == {x \in 1..(Len(t) - 2) : SubSeq(t, x, x + 2) = Scheme}
           u == SubSeq(t, Min(S) + 3, Len(t))
<1>1. Len(t) \in Nat /\ S \in SUBSET (1..Len(t))
  OBVIOUS
<1>2. Host(t) = t \/ (S # {} /\ Host(t) = BeforeHostEnd(u))
  BY DEF Host
<1>3. CASE S # {}
  <2> HIDE DEF S
  <2>1. Min(S) \in 1..Len(t)
    BY <1>1, <1>3, Ends
  <2>2. Min(S) + 3 \in Nat \ {0} /\ Len(t) \in Int /\ Len(t) <= Len(t)
    BY <1>1, <2>1
  <2>3. u \in Seq(A)
    BY <2>2, SlicedIs
  <2>4. BeforeHostEnd(u) \in Seq(A)
    BY <2>3, BeforeHostEndType
  <2> QED BY <1>2, <2>4
<1> QED BY <1>2, <1>3

\* ... or lowered, rune by rune.
LEMMA LoweredIs ==
  ASSUME NEW t \in Seq(Alphabet)
  PROVE  /\ Lowered(t) \in Seq(Alphabet) /\ Len(Lowered(t)) = Len(t) /\ Len(t) \in Nat
         /\ \A x \in 1..Len(t) : Lowered(t)[x] = Lower[t[x]]
<1>1. Len(t) \in Nat /\ DOMAIN t = 1..Len(t) /\ \A x \in 1..Len(t) : t[x] \in Alphabet
  OBVIOUS
<1>2. Lowered(t) = [x \in 1..Len(t) |-> Lower[t[x]]]
  BY <1>1 DEF Lowered
<1>3. \A x \in 1..Len(t) : Lower[t[x]] \in Alphabet
  BY <1>1, NormalizeAssumption
<1>4. Lowered(t) \in [1..Len(t) -> Alphabet]
  BY <1>2, <1>3
<1>5. Lowered(t) \in Seq(Alphabet) /\ Len(Lowered(t)) = Len(t)
  BY <1>1, <1>4
<1> QED BY <1>1, <1>2, <1>5

\* So what is asked for is made of what is typed, and of what that lowers to.
LEMMA NameType ==
  ASSUME call \in Calls
  PROVE  Name \in Seq(Alphabet)
<1>1. call.input \in Seq(Alphabet)
  BY NormalizeAssumption
<1> DEFINE t == TrimSpace(call.input)
<1>2. t \in Seq(Alphabet)
  <2> DEFINE c == call.input
             S == DOMAIN c \ Places(c, Spaces)
  <2>1. S \in SUBSET (1..Len(c))
    BY <1>1
  <2> HIDE DEF S
  <2>2. Between(c, S) \in Seq(Alphabet)
    BY <1>1, <2>1, BetweenIs
  <2> QED BY <2>2 DEF TrimSpace, S
<1> HIDE DEF t
<1>3. Lowered(Host(t)) \in Seq(Alphabet)
  <2>1. Host(t) \in Seq(Alphabet)
    BY <1>2, HostType
  <2> QED BY <2>1, LoweredIs
<1>4. ASSUME NEW u \in Seq(Alphabet) PROVE TrimDot(u) \in Seq(Alphabet)
  <2>1. Len(u) \in Nat /\ Len(u) - 1 \in Int /\ Len(u) - 1 <= Len(u) /\ 1 \in Nat \ {0}
    OBVIOUS
  <2>2. SubSeq(u, 1, Len(u) - 1) \in Seq(Alphabet)
    BY <2>1, SlicedIs
  <2> QED BY <2>2 DEF TrimDot, Front
<1>5. Cleaned(t) \in Seq(Alphabet)
  BY <1>3, <1>4 DEF Cleaned
<1> QED BY <1>1, <1>5 DEF Name, t

\* Its labels: what they are made of, before and after they are lowered.
LEMMA NameLabels ==
  ASSUME call \in Calls
  PROVE  /\ Split(Name) \in Seq(Seq(Alphabet)) /\ Len(Split(Name)) \in Nat \ {0}
         /\ DOMAIN Split(Name) = 1..Len(Split(Name))
         /\ \A y \in 1..Len(Split(Name)) :
              /\ Split(Name)[y] \in Seq(Alphabet) /\ Dotless(Split(Name)[y])
<1>1. Name \in Seq(Alphabet)
  BY NameType
<1> HIDE DEF Name
<1>2. /\ Split(Name) \in Seq(Seq(Alphabet)) /\ Len(Split(Name)) \in Nat \ {0}
      /\ \A y \in 1..Len(Split(Name)) :
           Split(Name)[y] \in Seq(Alphabet) /\ Dotless(Split(Name)[y])
  BY <1>1, SplitLabels
<1>3. DOMAIN Split(Name) = 1..Len(Split(Name))
  <2> DEFINE s == Split(Name)
             T == Seq(Alphabet)
  <2>1. s \in Seq(T)
    BY <1>2
  <2> HIDE DEF s, T
  <2>2. DOMAIN s = 1..Len(s)
    BY <2>1
  <2> QED BY <2>2 DEF s
<1> QED BY <1>2, <1>3

\* A sequence over a set is one over a greater set.
LEMMA Wider == ASSUME NEW A, NEW B, A \subseteq B, NEW t \in Seq(A) PROVE t \in Seq(B)
<1>1. Len(t) \in Nat /\ t = [x \in 1..Len(t) |-> t[x]] /\ \A x \in 1..Len(t) : t[x] \in A
  OBVIOUS
<1>2. t \in [1..Len(t) -> B]
  BY <1>1
<1> QED BY <1>1, <1>2

\* Code points are numbers.
LEMMA Numbers ==
  /\ Alphabet \subseteq 0..MaxCode /\ Alphabet \subseteq Nat
  /\ \A t \in Seq(Alphabet) : t \in Seq(Nat) /\ t \in Seq(0..MaxCode)
<1>1. Alphabet \subseteq 0..MaxCode
  BY NormalizeAssumption
<1>2. 0..MaxCode \subseteq Nat
  BY PunycodeAssumption
<1>3. Alphabet \subseteq Nat
  BY <1>1, <1>2
<1> QED BY <1>1, <1>3, Wider

\* An ASCII label is lowered to an ASCII label.
LEMMA LoweredASCII ==
  ASSUME NEW t \in Seq(Alphabet), IsASCII(t), Dotless(t)
  PROVE  Lowered(t) \in Seq(Alphabet) /\ IsASCII(Lowered(t)) /\ Dotless(Lowered(t))
<1>1. /\ Lowered(t) \in Seq(Alphabet) /\ Len(Lowered(t)) = Len(t) /\ Len(t) \in Nat
      /\ \A x \in 1..Len(t) : Lowered(t)[x] = Lower[t[x]]
  BY LoweredIs
<1>2. ASSUME NEW x \in 1..Len(t)
      PROVE  Lowered(t)[x] < 128 /\ Lowered(t)[x] \notin Dots
  <2> DEFINE c == t[x]
  <2>1. c \in Alphabet /\ c \in Nat
    <3>1. c \in Alphabet
      OBVIOUS
    <3> QED BY <3>1, Numbers
  <2>2. c < 128 /\ c \notin Dots
    BY DEF IsASCII, IsBasic, Dotless
  <2> HIDE DEF c
  <2>3. Lower[c] = IF c \in 65..90 THEN c + 32 ELSE c
    BY <2>1, <2>2, NormalizeAssumption
  <2>4. Lower[c] < 128 /\ Lower[c] \notin Dots
    <3>1. CASE c \in 65..90
      BY <2>3, <3>1 DEF Dots, Dot
    <3>2. CASE c \notin 65..90
      BY <2>2, <2>3, <3>2
    <3> QED BY <3>1, <3>2
  <2> QED BY <1>1, <2>4 DEF c
<1>3. DOMAIN Lowered(t) = 1..Len(t)
  <2> DEFINE u == Lowered(t)
  <2>1. u \in Seq(Alphabet) /\ Len(u) = Len(t)
    BY <1>1
  <2> HIDE DEF u
  <2>2. DOMAIN u = 1..Len(t)
    BY <2>1
  <2> QED BY <2>2 DEF u
<1> QED BY <1>1, <1>2, <1>3 DEF IsASCII, IsBasic, Dotless

-----------------------------------------------------------------------------
(* A label and what it is converted to.                                    *)

Code(g) == SubSeq(g, 5, Len(g))

\* g is e behind "xn--".
Tagged(g, e) == g = ACE \o e

\* An ASCII label is lowered; any other is encoded, and its code decodes to it
\* if the one or the other is short enough for a domain.
Converted(g, l) ==
  IF IsASCII(l) THEN g = Lowered(l)
  ELSE /\ Tagged(g, Code(g)) /\ Stems(Code(g), l) /\ Keeps(Code(g), l, Len(l))
       /\ Len(l) <= MaxLength \/ Len(Code(g)) <= MaxLength => Decode(Code(g)) = l

\* What stands where behind "xn--".
LEMMA AceIs ==
  ASSUME NEW e \in Seq(Nat), NEW g, Tagged(g, e)
  PROVE  /\ g \in Seq(Nat) /\ Len(e) \in Nat /\ Len(g) = Len(e) + 4 /\ Code(g) = e
         /\ \A x \in 1..4 : g[x] \in {120, 110, 45}
         /\ \A x \in 1..Len(e) : g[4 + x] = e[x]
<1> DEFINE a == ACE
<1>1. a \in Seq(Nat) /\ Len(a) = 4 /\ \A x \in 1..4 : a[x] \in {120, 110, 45}
  BY DEF ACE
<1> HIDE DEF a
<1>2. /\ g \in Seq(Nat) /\ Len(e) \in Nat /\ Len(g) = 4 + Len(e)
      /\ \A x \in 1..4 : g[x] = a[x]
      /\ \A x \in 1..Len(e) : g[4 + x] = e[x]
  <2>1. g = a \o e
    BY DEF a, Tagged
  <2>2. /\ a \o e \in Seq(Nat) /\ Len(e) \in Nat /\ Len(a \o e) = Len(a) + Len(e)
        /\ \A x \in 1..Len(a) : (a \o e)[x] = a[x]
        /\ \A x \in 1..Len(e) : (a \o e)[Len(a) + x] = e[x]
    <3>1. a \in Seq(Nat)
      BY <1>1
    <3> QED BY <3>1, ConcatIs
  <2> QED BY <1>1, <2>1, <2>2
<1>3. Code(g) = e
  <2>1. 4 \in 0..Len(g) /\ Len(g) - 4 = Len(e)
    BY <1>2
  <2> DEFINE f == SubSeq(g, 4 + 1, Len(g))
  <2>2. f \in Seq(Nat) /\ Len(f) = Len(g) - 4 /\ \A y \in 1..(Len(g) - 4) : f[y] = g[4 + y]
    BY <1>2, <2>1, SuffixIs
  <2> HIDE DEF f
  <2>3. Len(f) = Len(e) /\ Alike(f, e, Len(f))
    BY <1>2, <2>1, <2>2 DEF Alike
  <2>4. f = e
    BY <2>2, <2>3, SameSeq
  <2>5. 4 + 1 = 5
    OBVIOUS
  <2> QED BY <2>4, <2>5 DEF f, Code
<1>4. \A x \in 1..4 : g[x] \in {120, 110, 45}
  BY <1>1, <1>2
<1> QED BY <1>2, <1>3, <1>4

\* No dot comes up in a conversion.
LEMMA NotDots == \A c : c \in {120, 110, 45} \cup (97..122) \cup (48..57) => c \notin Dots
  BY DEF Dots, Dot

\* No dot comes up in a conversion.
LEMMA ConvertedDotless ==
  ASSUME NEW l \in Seq(Alphabet), Dotless(l), NEW g, Converted(g, l)
  PROVE  g \in Seq(Nat) /\ Dotless(g)
<1>1. CASE IsASCII(l)
  BY <1>1, LoweredASCII, Numbers DEF Converted
<1>2. CASE ~ IsASCII(l)
  <2> DEFINE e == Code(g)
  <2>1. Tagged(g, e) /\ Stems(e, l)
    BY <1>2 DEF Converted
  <2> HIDE DEF e
  <2>2. e \in Seq(Nat)
    BY <2>1 DEF Stems
  <2>3. /\ g \in Seq(Nat) /\ Len(e) \in Nat /\ Len(g) = Len(e) + 4
        /\ \A x \in 1..4 : g[x] \in {120, 110, 45}
        /\ \A x \in 1..Len(e) : g[4 + x] = e[x]
    BY <2>1, <2>2, AceIs
  <2>4. ASSUME NEW x \in 1..Len(e) PROVE e[x] \notin Dots
    <3>1. CASE \E y \in 1..Len(l) : IsBasic(l[y]) /\ e[x] = l[y]
      BY <3>1 DEF Dotless
    <3>2. CASE e[x] = Hyphen \/ e[x] \in 97..122 \/ e[x] \in 48..57
      BY <3>2, NotDots DEF Hyphen
    <3> QED BY <2>1, <3>1, <3>2 DEF Stems
  <2>5. ASSUME NEW x \in 1..Len(g) PROVE g[x] \notin Dots
    <3>1. CASE x \in 1..4
      BY <2>3, <3>1, NotDots
    <3>2. CASE x \notin 1..4
      <4>1. x - 4 \in 1..Len(e) /\ 4 + (x - 4) = x
        BY <2>3, <3>2
      <4>2. g[x] = e[x - 4]
        BY <2>3, <4>1
      <4> QED BY <2>4, <4>1, <4>2
    <3> QED BY <3>1, <3>2
  <2> QED BY <2>3, <2>5 DEF Dotless
<1> QED BY <1>1, <1>2

\* What the encoder wrote is the conversion of its label.
LEMMA EncoderConverts ==
  ASSUME EncodeInv, RoundTrip, Copies, at = "done", ~ IsASCII(label)
  PROVE  Converted(ACE \o out, label) /\ ACE \o out \in Seq(Nat)
<1>1. Stems(out, label) /\ Keeps(out, label, Len(label)) /\ out \in Seq(Nat)
  BY DEF Copies, Stems
<1>2. Foreign
  <2>1. label \in Seq(Nat)
    BY Counts
  <2>2. DOMAIN label = 1..Len(label)
    BY <2>1
  <2> QED BY <2>2 DEF Foreign, IsASCII
<1>3. Len(label) <= MaxLength \/ Len(out) <= MaxLength => ~ wrapped
  <2>1. Len(label) \in Nat /\ MaxLength \in Nat
    BY Counts, PunycodeAssumption
  <2>2. Len(out) <= MaxLength => ~ wrapped
    BY DoneExact DEF EncodedExactly
  <2>3. wrapped => Len(label) > MaxLength
    BY DEF EncodeInv, WrapsLate
  <2> QED BY <2>1, <2>2, <2>3
<1>4. Len(label) <= MaxLength \/ Len(out) <= MaxLength => Decode(out) = label
  BY <1>2, <1>3, DoneBack DEF DecodesBack
<1> DEFINE g == ACE \o out
<1>5. Tagged(g, out)
  BY DEF Tagged
<1>8. g = ACE \o out
  OBVIOUS
<1> HIDE DEF g
<1>6. g \in Seq(Nat) /\ Code(g) = out
  BY <1>1, <1>5, AceIs
<1>7. Converted(g, label)
  BY <1>1, <1>4, <1>5, <1>6 DEF Converted
<1> QED BY <1>6, <1>7, <1>8

-----------------------------------------------------------------------------
(* A name and what it is converted to.                                     *)

NoName == Normalizing /\ Name = <<>>
Spelled == Split(Name)

\* The labels are those of the name, converted in front of i; an empty one has
\* been passed by at the end only.
Working ==
  /\ ~ NoName /\ Len(labels) = Len(Spelled) /\ i <= Len(labels) + 1
  /\ \A y \in 1..Len(labels) :
       IF y < i THEN Converted(labels[y], Spelled[y]) /\ (Spelled[y] = <<>> => y = Len(labels))
       ELSE labels[y] = Spelled[y]

Outcome ==
  \/ result.err = "empty" /\ NoName
  \/ result.err = "label" /\ ~ NoName /\ \E y \in 1..(Len(Spelled) - 1) : Spelled[y] = <<>>
  \/ /\ Working /\ i > Len(labels)
     /\ result.err = IF Normalizing THEN Check(Join(labels)) ELSE "none"
     /\ result.err = "none" => result.text = Join(labels)

EncoderInv == EncodeInv /\ RoundTrip /\ Copies

LabelsInv ==
  /\ call \in Calls /\ labels \in Seq(Seq(Nat)) /\ i \in Nat \ {0}
  /\ stage \in {"clean", "labels", "encode", "done"}
  /\ stage # "encode" => at = "idle"
  /\ stage = "encode" =>
       at # "idle" /\ i \in 1..Len(labels) /\ label = Spelled[i] /\ ~ IsASCII(label)
  /\ stage = "clean" => i = 1
  /\ stage # "done" => result = [err |-> "none", text |-> <<>>]
  /\ stage \in {"labels", "encode"} => Working
  /\ stage = "done" => Outcome

NormalizeInv == EncoderInv /\ LabelsInv

\* The name follows from the call alone.
LEMMA SameSpelling ==
  ASSUME call' = call
  PROVE  /\ Spelled' = Spelled /\ (Normalizing' <=> Normalizing) /\ Name' = Name
         /\ (NoName' <=> NoName)
  BY DEF Spelled, Name, Normalizing, NoName

\* The types of the name's labels.
LEMMA SpelledType ==
  ASSUME call \in Calls
  PROVE  /\ Spelled \in Seq(Seq(Nat)) /\ Len(Spelled) \in Nat \ {0}
         /\ DOMAIN Spelled = 1..Len(Spelled)
         /\ \A y \in 1..Len(Spelled) :
              /\ Spelled[y] \in Seq(Alphabet) /\ Dotless(Spelled[y])
              /\ Spelled[y] \in Seq(Nat) /\ Spelled[y] \in Seq(0..MaxCode)
<1>1. /\ Spelled \in Seq(Seq(Alphabet)) /\ Len(Spelled) \in Nat \ {0}
      /\ DOMAIN Spelled = 1..Len(Spelled)
      /\ \A y \in 1..Len(Spelled) : Spelled[y] \in Seq(Alphabet) /\ Dotless(Spelled[y])
  BY NameLabels DEF Spelled
<1>2. Seq(Alphabet) \subseteq Seq(Nat) /\ Seq(Alphabet) \subseteq Seq(0..MaxCode)
  BY Numbers
<1>3. Spelled \in Seq(Seq(Nat))
  <2> DEFINE A == Seq(Alphabet)
             B == Seq(Nat)
  <2>1. A \subseteq B /\ Spelled \in Seq(A)
    BY <1>1, <1>2
  <2> HIDE DEF A, B
  <2>2. Spelled \in Seq(B)
    BY <2>1, Wider
  <2> QED BY <2>2 DEF B
<1> QED BY <1>1, <1>2, <1>3

\* The encoder is only ever stepped, taken from, or started with a label.
LEMMA EncoderSteps ==
  ASSUME NormalizeInv, NormalizeStep
  PROVE  EncodeNext \/ UNCHANGED encodeVars
<1>1. CASE StartEncode
  <2>1. i \in 1..Len(labels) /\ Encode(labels[i]) /\ labels[i] = Spelled[i] /\ i \in 1..Len(Spelled)
    <3>1. stage = "labels" /\ i <= Len(labels) /\ i \in Nat \ {0} /\ Encode(labels[i])
      BY <1>1 DEF StartEncode, AtLabel, NormalizeInv, LabelsInv
    <3>2. labels \in Seq(Seq(Nat)) /\ Working
      BY <3>1 DEF NormalizeInv, LabelsInv
    <3>3. i \in 1..Len(labels) /\ ~ (i < i)
      BY <3>1, <3>2
    <3> QED BY <3>1, <3>2, <3>3 DEF Working
  <2>2. labels[i] \in Seq(0..MaxCode)
    BY <2>1, SpelledType DEF NormalizeInv, LabelsInv
  <2> QED BY <2>1, <2>2 DEF EncodeNext
<1>2. CASE Encoding \/ TakeEncoded
  BY <1>2 DEF Encoding, TakeEncoded, EncodeNext
<1>3. CASE Clean \/ SkipLabel \/ RefuseLabel \/ LowerLabel \/ Finish
  BY <1>3 DEF Clean, SkipLabel, RefuseLabel, LowerLabel, Finish
<1> QED BY <1>1, <1>2, <1>3 DEF NormalizeStep

\* So what the encoder promises holds within a domain's conversion as well.
LEMMA EncoderKeeps ==
  ASSUME NormalizeInv, NormalizeStep
  PROVE  EncoderInv'
<1>1. EncodeNext \/ UNCHANGED encodeVars
  BY EncoderSteps
<1>2. EncodeInv /\ RoundTrip /\ Copies
  BY DEF NormalizeInv, EncoderInv
<1>3. EncodeInv' /\ RoundTrip'
  BY <1>1, <1>2, EncodeInductive, RoundInductive
<1>4. Copies'
  <2>1. CASE EncodeStep
    BY <1>2, <2>1, CopiesStep
  <2>2. CASE Take
    BY <2>2, CopiesTake
  <2>3. CASE \E l \in Seq(0..MaxCode) : Encode(l)
    BY <1>2, <2>3, CopiesStart
  <2>4. CASE UNCHANGED encodeVars
    BY <1>2, <2>4 DEF encodeVars, Copies
  <2> QED BY <1>1, <2>1, <2>2, <2>3, <2>4 DEF EncodeNext
<1> QED BY <1>3, <1>4 DEF EncoderInv

-----------------------------------------------------------------------------
(* The steps of normalizeDomain and ToASCII.                               *)

\* The types of the labels.
LEMMA InvParts ==
  ASSUME LabelsInv
  PROVE  /\ labels \in Seq(Seq(Nat)) /\ Len(labels) \in Nat /\ DOMAIN labels = 1..Len(labels)
         /\ i \in Nat \ {0} /\ \A y \in 1..Len(labels) : labels[y] \in Seq(Nat)
  BY DEF LabelsInv

\* The labels that Working is about are the name's.
LEMMA AtIs ==
  ASSUME LabelsInv, AtLabel
  PROVE  /\ Working /\ i \in 1..Len(labels) /\ i \in 1..Len(Spelled) /\ labels[i] = Spelled[i]
         /\ result = [err |-> "none", text |-> <<>>] /\ at = "idle"
<1>1. stage = "labels" /\ i <= Len(labels)
  BY DEF AtLabel
<1>2. Working /\ i \in 1..Len(labels)
  BY <1>1, InvParts DEF LabelsInv
<1>3. ~ (i < i)
  BY <1>2
<1> QED BY <1>1, <1>2, <1>3 DEF Working, LabelsInv

\* What leaves the labels alone leaves their conversion alone.
LEMMA WorkingSame ==
  ASSUME Working, UNCHANGED <<call, labels, i>>
  PROVE  Working'
<1>1. Spelled' = Spelled /\ (NoName' <=> NoName)
  BY SameSpelling
<1> QED BY <1>1 DEF Working

\* The name is cut into its labels, or is empty.
LEMMA CleanLabels ==
  ASSUME LabelsInv, Clean
  PROVE  LabelsInv'
<1>1. /\ call \in Calls /\ stage = "clean" /\ at = "idle" /\ i = 1
      /\ result = [err |-> "none", text |-> <<>>]
      /\ call' = call /\ i' = i /\ at' = at /\ label' = label
  BY DEF LabelsInv, Clean, encodeVars
<1>2. Spelled' = Spelled /\ (Normalizing' <=> Normalizing) /\ Name' = Name /\ (NoName' <=> NoName)
  BY <1>1, SameSpelling
<1>3. call.function \in Functions
  BY <1>1, NormalizeAssumption
<1>4. IF NoName THEN Refuse("empty") /\ UNCHANGED labels
      ELSE stage' = "labels" /\ labels' = Split(Name) /\ UNCHANGED result
  <2>1. Name = IF call.function = "ToASCII" THEN call.input ELSE Cleaned(TrimSpace(call.input))
    BY <1>3 DEF Name, Normalizing, Functions
  <2>2. IF call.function = "normalizeDomain" /\ Name = <<>>
        THEN Refuse("empty") /\ UNCHANGED labels
        ELSE stage' = "labels" /\ labels' = Split(Name) /\ UNCHANGED result
    BY <2>1 DEF Clean
  <2> QED BY <2>2 DEF NoName, Normalizing
<1>5. CASE NoName
  <2>1. stage' = "done" /\ result'.err = "empty" /\ labels' = labels
    BY <1>1, <1>4, <1>5 DEF Refuse
  <2>2. Outcome'
    BY <1>2, <1>5, <2>1 DEF Outcome
  <2> QED BY <1>1, <2>1, <2>2 DEF LabelsInv
<1>6. CASE ~ NoName
  <2>1. stage' = "labels" /\ labels' = Spelled /\ result' = result
    BY <1>4, <1>6 DEF Spelled
  <2>2. Spelled \in Seq(Seq(Nat)) /\ Len(Spelled) \in Nat \ {0}
    BY <1>1, SpelledType
  <2>3. Working'
    <3>1. i' <= Len(labels') + 1
      BY <1>1, <2>1, <2>2
    <3>2. \A y \in 1..Len(labels') : ~ (y < i')
      BY <1>1
    <3> QED BY <1>2, <1>6, <2>1, <3>1, <3>2 DEF Working
  <2> QED BY <1>1, <2>1, <2>2, <2>3 DEF LabelsInv
<1> QED BY <1>5, <1>6

\* A sequence with another member at place x.
Replaces(u, s, x, g) == u = [s EXCEPT ![x] = g]

\* Its members.
LEMMA Replaced ==
  ASSUME NEW A, NEW s \in Seq(A), NEW x \in 1..Len(s), NEW g \in A, NEW u, Replaces(u, s, x, g)
  PROVE  /\ u \in Seq(A) /\ Len(u) = Len(s) /\ u[x] = g
         /\ \A y \in 1..Len(s) : y # x => u[y] = s[y]
<1>1. Len(s) \in Nat /\ DOMAIN s = 1..Len(s)
  OBVIOUS
<1>2. u = [s EXCEPT ![x] = g]
  BY DEF Replaces
<1> QED BY <1>1, <1>2

\* One more label is converted, to g.
Puts(g) == Replaces(labels', labels, i, g) /\ i' = i + 1

\* The labels in front of i are converted again.
LEMMA ConvertsOne ==
  ASSUME LabelsInv, Working, i \in 1..Len(labels), call' = call, NEW g \in Seq(Nat), Puts(g),
         Converted(g, Spelled[i]), Spelled[i] = <<>> => i = Len(labels)
  PROVE  Working' /\ labels' \in Seq(Seq(Nat)) /\ i' \in Nat \ {0}
<1>1. Spelled' = Spelled /\ (NoName' <=> NoName)
  BY SameSpelling
<1> DEFINE m == Len(labels)
           S == Seq(Nat)
<1>2. labels \in Seq(S) /\ m \in Nat /\ DOMAIN labels = 1..m /\ i \in Nat \ {0}
  BY InvParts
<1>10. g \in S /\ i \in 1..Len(labels)
  OBVIOUS
<1>9. Replaces(labels', labels, i, g)
  BY DEF Puts
<1>12. i' = i + 1 /\ i \in 1..m
  BY Zenon DEF Puts
<1> HIDE DEF S
<1>11. /\ labels' \in Seq(S) /\ Len(labels') = m /\ labels'[i] = g
       /\ \A y \in 1..m : y # i => labels'[y] = labels[y]
  <2>1. labels \in Seq(S)
    BY <1>2
  <2>2. PICK v : v = labels'
    OBVIOUS
  <2>3. PICK w : w = labels
    OBVIOUS
  <2>4. w \in Seq(S) /\ i \in 1..Len(w) /\ g \in S /\ Replaces(v, w, i, g)
    BY <1>9, <1>10, <2>1, <2>2, <2>3
  <2>5. v \in Seq(S) /\ Len(v) = Len(w) /\ v[i] = g /\ \A y \in 1..Len(w) : y # i => v[y] = w[y]
    BY <2>4, Replaced
  <2> QED BY <2>2, <2>3, <2>5
<1>3. labels' \in Seq(S) /\ Len(labels') = m
  BY <1>11
<1>4. labels'[i] = g /\ \A y \in 1..m : y # i => labels'[y] = labels[y]
  BY <1>11
<1> HIDE DEF m
<1>5. i' <= m + 1 /\ i' \in Nat \ {0}
  BY <1>2, <1>12
<1>13. /\ Len(labels) = m /\ ~ NoName /\ m = Len(Spelled)
       /\ \A y \in 1..m :
            IF y < i THEN Converted(labels[y], Spelled[y]) /\ (Spelled[y] = <<>> => y = m)
            ELSE labels[y] = Spelled[y]
       /\ Converted(g, Spelled[i]) /\ (Spelled[i] = <<>> => i = m)
  BY DEF Working, m
<1>6. ASSUME NEW y \in 1..m
      PROVE  IF y < i' THEN Converted(labels'[y], Spelled[y]) /\ (Spelled[y] = <<>> => y = m)
             ELSE labels'[y] = Spelled[y]
  <2>1. CASE y < i
    <3>1. y # i /\ y < i'
      BY <1>2, <1>12, <2>1
    <3>2. labels'[y] = labels[y]
      BY <1>4, <3>1
    <3> QED BY <1>13, <2>1, <3>1, <3>2
  <2>2. CASE y = i
    <3>1. y < i'
      BY <1>2, <1>12, <2>2
    <3> QED BY <1>4, <1>13, <2>2, <3>1
  <2>3. CASE y > i
    <3>1. y # i /\ ~ (y < i') /\ ~ (y < i)
      BY <1>2, <1>12, <2>3
    <3>2. labels'[y] = labels[y]
      BY <1>4, <3>1
    <3> QED BY <1>13, <3>1, <3>2
  <2> QED BY <1>2, <2>1, <2>2, <2>3
<1>7. Working'
  BY <1>1, <1>3, <1>5, <1>6, <1>13 DEF Working
<1> QED BY <1>3, <1>5, <1>7 DEF S

\* An empty label at the end is converted to itself.
LEMMA SkipLabels ==
  ASSUME LabelsInv, SkipLabel
  PROVE  LabelsInv'
<1>1. /\ AtLabel /\ labels[i] = <<>> /\ i = Len(labels) /\ i' = i + 1 /\ stage' = stage /\ stage = "labels"
      /\ UNCHANGED <<call, labels, result, at, label>>
  BY DEF SkipLabel, encodeVars, AtLabel
<1>2. /\ Working /\ i \in 1..Len(labels) /\ i \in 1..Len(Spelled) /\ labels[i] = Spelled[i]
      /\ result = [err |-> "none", text |-> <<>>] /\ at = "idle"
  BY <1>1, AtIs
<1>3. Converted(labels[i], Spelled[i])
  <2>1. DOMAIN Spelled[i] = {} /\ Spelled[i] = <<>>
    BY <1>1, <1>2
  <2>2. IsASCII(Spelled[i])
    BY <2>1 DEF IsASCII
  <2>3. Lowered(<<>>) = <<>>
    <3>1. <<>> \in Seq(Alphabet) /\ Len(<<>>) = 0
      OBVIOUS
    <3>2. Lowered(<<>>) \in Seq(Alphabet) /\ Len(Lowered(<<>>)) = 0
      BY <3>1, LoweredIs
    <3> QED BY <3>2
  <2> QED BY <1>2, <2>1, <2>2, <2>3 DEF Converted
<1>4. labels[i] \in Seq(Nat) /\ labels' = [labels EXCEPT ![i] = labels[i]]
  BY <1>1, <1>2, InvParts
<1>5. Working' /\ labels' \in Seq(Seq(Nat)) /\ i' \in Nat \ {0}
  BY <1>1, <1>2, <1>3, <1>4, ConvertsOne DEF Puts, Replaces
<1> QED BY <1>1, <1>2, <1>5 DEF LabelsInv

\* An empty label in front of another is the reason for a refusal.
LEMMA RefuseLabels ==
  ASSUME LabelsInv, RefuseLabel
  PROVE  LabelsInv'
<1>1. /\ AtLabel /\ labels[i] = <<>> /\ i # Len(labels) /\ stage' = "done"
      /\ result' = [result EXCEPT !.err = "label"] /\ UNCHANGED <<call, labels, i, at, label>>
  BY DEF RefuseLabel, Refuse, encodeVars
<1>2. /\ Working /\ i \in 1..Len(labels) /\ i \in 1..Len(Spelled) /\ labels[i] = Spelled[i]
      /\ result = [err |-> "none", text |-> <<>>] /\ at = "idle"
  BY <1>1, AtIs
<1>3. Spelled' = Spelled /\ (NoName' <=> NoName)
  BY <1>1, SameSpelling
<1>4. Spelled[i] = <<>> /\ i \in 1..(Len(Spelled) - 1) /\ ~ NoName
  <2>1. Len(labels) \in Nat /\ Len(Spelled) = Len(labels)
    BY <1>2, InvParts DEF Working
  <2> QED BY <1>1, <1>2, <2>1 DEF Working
<1>5. result'.err = "label"
  BY <1>1, <1>2
<1>6. Outcome'
  <2>1. \E y \in 1..(Len(Spelled) - 1) : Spelled[y] = <<>>
    BY <1>4
  <2> QED BY <1>3, <1>4, <1>5, <2>1 DEF Outcome
<1> QED BY <1>1, <1>2, <1>6 DEF LabelsInv

\* An ASCII label is converted by lowering it.
LEMMA LowerLabels ==
  ASSUME LabelsInv, LowerLabel
  PROVE  LabelsInv'
<1>1. /\ AtLabel /\ labels[i] # <<>> /\ IsASCII(labels[i]) /\ stage' = stage /\ stage = "labels"
      /\ labels' = [labels EXCEPT ![i] = Lowered(labels[i])]
      /\ i' = i + 1 /\ UNCHANGED <<call, result, at, label>>
  BY DEF LowerLabel, encodeVars, AtLabel
<1>2. /\ Working /\ i \in 1..Len(labels) /\ i \in 1..Len(Spelled) /\ labels[i] = Spelled[i]
      /\ result = [err |-> "none", text |-> <<>>] /\ at = "idle"
  BY <1>1, AtIs
<1>3. Spelled[i] \in Seq(Alphabet) /\ call \in Calls
  BY <1>2, SpelledType DEF LabelsInv
<1> DEFINE g == Lowered(Spelled[i])
<1>4. g \in Seq(Nat) /\ Converted(g, Spelled[i])
  <2>1. g \in Seq(Alphabet)
    BY <1>3, LoweredIs
  <2> QED BY <1>1, <1>2, <2>1, Numbers DEF Converted
<1>5. labels' = [labels EXCEPT ![i] = g]
  BY <1>1, <1>2
<1> HIDE DEF g
<1>6. Spelled[i] # <<>>
  BY <1>1, <1>2
<1>7. Working' /\ labels' \in Seq(Seq(Nat)) /\ i' \in Nat \ {0}
  BY <1>1, <1>2, <1>4, <1>5, <1>6, ConvertsOne DEF Puts, Replaces
<1> QED BY <1>1, <1>2, <1>7 DEF LabelsInv

\* Any other label is handed to the encoder, ...
LEMMA StartLabels ==
  ASSUME LabelsInv, StartEncode
  PROVE  LabelsInv'
<1>1. /\ AtLabel /\ ~ IsASCII(labels[i]) /\ stage' = "encode" /\ at' = "copy" /\ label' = labels[i]
      /\ UNCHANGED <<call, labels, i, result>>
  BY DEF StartEncode, Encode
<1>2. /\ Working /\ i \in 1..Len(labels) /\ i \in 1..Len(Spelled) /\ labels[i] = Spelled[i]
      /\ result = [err |-> "none", text |-> <<>>] /\ at = "idle"
  BY <1>1, AtIs
<1>3. Spelled' = Spelled /\ Working'
  BY <1>1, <1>2, SameSpelling, WorkingSame
<1>4. label' = Spelled'[i'] /\ ~ IsASCII(label')
  BY <1>1, <1>2, <1>3
<1> QED BY <1>1, <1>2, <1>3, <1>4 DEF LabelsInv

\* ... which keeps it ...
LEMMA EncodingLabels ==
  ASSUME LabelsInv, Encoding
  PROVE  LabelsInv'
<1>1. stage = "encode" /\ EncodeStep /\ UNCHANGED <<call, stage, labels, i, result>>
  BY DEF Encoding
<1>2. label' = label /\ at' # "idle"
  BY <1>1 DEF EncodeStep, CopyBasic, Delimit, Advance, Fail, PassBy, Insert, WriteDigit,
     WriteLastDigit, EndScan, Encoded
<1>3. /\ Working /\ i \in 1..Len(labels) /\ label = Spelled[i] /\ ~ IsASCII(label)
      /\ result = [err |-> "none", text |-> <<>>]
  BY <1>1 DEF LabelsInv
<1>4. Spelled' = Spelled /\ Working'
  BY <1>1, <1>3, SameSpelling, WorkingSame
<1>5. label' = Spelled'[i'] /\ ~ IsASCII(label')
  BY <1>1, <1>2, <1>3, <1>4
<1> QED BY <1>1, <1>2, <1>3, <1>4, <1>5 DEF LabelsInv

\* ... and returns its conversion: it never fails.
LEMMA TakeLabels ==
  ASSUME EncoderInv, LabelsInv, TakeEncoded
  PROVE  LabelsInv'
<1>1. /\ stage = "encode" /\ at \in {"done", "failed"} /\ at' = "idle" /\ call' = call
  BY DEF TakeEncoded, Take
<1>2. at = "done"
  BY <1>1 DEF EncoderInv, EncodeInv, NeverFails
<1> DEFINE g == ACE \o out
<1>3. /\ labels' = [labels EXCEPT ![i] = g] /\ i' = i + 1 /\ stage' = "labels" /\ result' = result
  BY <1>2 DEF TakeEncoded
<1>4. /\ Working /\ i \in 1..Len(labels) /\ label = Spelled[i] /\ ~ IsASCII(label)
      /\ result = [err |-> "none", text |-> <<>>]
  BY <1>1 DEF LabelsInv
<1>5. Converted(g, Spelled[i]) /\ g \in Seq(Nat)
  BY <1>2, <1>4, EncoderConverts DEF EncoderInv
<1> HIDE DEF g
<1>6. Spelled[i] # <<>>
  BY <1>4 DEF IsASCII
<1>7. Working' /\ labels' \in Seq(Seq(Nat)) /\ i' \in Nat \ {0}
  BY <1>1, <1>3, <1>4, <1>5, <1>6, ConvertsOne DEF Puts, Replaces
<1> QED BY <1>1, <1>3, <1>4, <1>7 DEF LabelsInv

\* All labels are converted when they are joined and checked.
LEMMA FinishLabels ==
  ASSUME LabelsInv, Finish
  PROVE  LabelsInv'
<1> DEFINE text == Join(labels)
           err == IF call.function = "ToASCII" THEN "none" ELSE Check(text)
<1>1. /\ stage = "labels" /\ i > Len(labels) /\ UNCHANGED <<call, labels, i, at, label>>
      /\ IF err = "none" THEN stage' = "done" /\ result' = [result EXCEPT !.text = text]
                         ELSE Refuse(err)
  BY DEF Finish, encodeVars
<1>2. Working /\ result = [err |-> "none", text |-> <<>>] /\ at = "idle" /\ call \in Calls
  BY <1>1 DEF LabelsInv
<1>3. Working' /\ (Normalizing' <=> Normalizing) /\ Join(labels)' = text
  BY <1>1, <1>2, SameSpelling, WorkingSame
<1>4. err = IF Normalizing THEN Check(text) ELSE "none"
  <2>1. call.function \in Functions
    BY <1>2, NormalizeAssumption
  <2> QED BY <2>1 DEF Functions, Normalizing
<1> HIDE DEF text, err
<1>5. stage' = "done" /\ result'.err = err /\ (err = "none" => result'.text = text)
  BY <1>1, <1>2 DEF Refuse
<1>6. Outcome'
  <2>1. labels' = labels /\ i' = i
    BY <1>1
  <2> QED BY <1>1, <1>3, <1>4, <1>5, <2>1 DEF Outcome, text
<1> QED BY <1>1, <1>2, <1>5, <1>6 DEF LabelsInv

\* Nothing changes between the steps.
LEMMA LabelsStutter ==
  ASSUME LabelsInv, UNCHANGED normalizeVars
  PROVE  LabelsInv'
<1>1. UNCHANGED <<call, stage, labels, i, result, at, label>>
  BY DEF normalizeVars, encodeVars
<1>2. Spelled' = Spelled /\ (Normalizing' <=> Normalizing) /\ Name' = Name /\ (NoName' <=> NoName)
  BY <1>1, SameSpelling
<1>3. Working => Working'
  BY <1>1, WorkingSame
<1>4. Outcome => Outcome'
  BY <1>1, <1>2, <1>3 DEF Outcome
<1> QED BY <1>1, <1>2, <1>3, <1>4 DEF LabelsInv

\* Nothing is converted yet.
LEMMA NormalizeInitially ==
  ASSUME NormalizeInit
  PROVE  NormalizeInv
<1>1. EncodeInit /\ at = "idle" /\ out = <<>>
  BY DEF NormalizeInit, EncodeInit
<1>2. EncoderInv
  BY <1>1, EncodeInitially, RoundInitially, CopiesEmpty DEF EncoderInv
<1>3. LabelsInv
  BY <1>1 DEF NormalizeInit, LabelsInv
<1> QED BY <1>2, <1>3 DEF NormalizeInv

\* The labels in front of i are converted, those from i on are the name's, the
\* encoder has the label at i, and what is returned follows from the labels
\* (normalizeDomain and ToASCII, punycode.go:118-179).
THEOREM NormalizeInvariant == NormalizeSpec => []NormalizeInv
<1>1. NormalizeInit => NormalizeInv
  BY NormalizeInitially
<1>2. NormalizeInv /\ [NormalizeStep]_normalizeVars => NormalizeInv'
  <2> SUFFICES ASSUME NormalizeInv, [NormalizeStep]_normalizeVars PROVE NormalizeInv'
    OBVIOUS
  <2>1. EncoderInv /\ LabelsInv
    BY DEF NormalizeInv
  <2>2. CASE NormalizeStep
    <3>1. LabelsInv'
      BY <2>1, <2>2, CleanLabels, SkipLabels, RefuseLabels, LowerLabels, StartLabels,
         EncodingLabels, TakeLabels, FinishLabels, Zenon DEF NormalizeStep
    <3> QED BY <2>2, <3>1, EncoderKeeps DEF NormalizeInv
  <2>3. CASE UNCHANGED normalizeVars
    <3>1. EncodeInv' /\ RoundTrip'
      BY <2>1, <2>3, EncodeInductive, RoundInductive DEF EncoderInv, normalizeVars
    <3>2. Copies'
      BY <2>1, <2>3 DEF EncoderInv, normalizeVars, encodeVars, Copies
    <3> QED BY <2>1, <2>3, <3>1, <3>2, LabelsStutter DEF EncoderInv, NormalizeInv
  <2> QED BY <2>2, <2>3
<1> QED BY <1>1, <1>2, PTL DEF NormalizeSpec

\* The encoder, called for one label after the other, is as well as on its own.
THEOREM NormalizeEncodes == NormalizeSpec => []EncodeInv
  BY NormalizeInvariant, PTL DEF NormalizeInv, EncoderInv

-----------------------------------------------------------------------------
(* What is returned.                                                       *)

\* The labels asked for are the name's in lower case, which those that are
\* encoded have to be in already.
LEMMA AskedIs ==
  ASSUME call \in Calls
  PROVE  /\ DOMAIN Asked = 1..Len(Spelled) /\ Len(Asked) = Len(Spelled) /\ Len(Spelled) \in Nat \ {0}
         /\ \A y \in 1..Len(Spelled) :
              /\ Asked[y] \in Seq(Nat) /\ Len(Asked[y]) = Len(Spelled[y])
              /\ Asked[y] = <<>> <=> Spelled[y] = <<>>
              /\ InCase => /\ Asked[y] = IF IsASCII(Spelled[y]) THEN Lowered(Spelled[y]) ELSE Spelled[y]
                           /\ IsASCII(Asked[y]) <=> IsASCII(Spelled[y])
<1>1. /\ Len(Spelled) \in Nat \ {0} /\ DOMAIN Spelled = 1..Len(Spelled)
      /\ \A y \in 1..Len(Spelled) :
           Spelled[y] \in Seq(Alphabet) /\ Dotless(Spelled[y]) /\ Spelled[y] \in Seq(Nat)
  BY SpelledType
<1>2. Asked = [y \in 1..Len(Spelled) |->
                 IF IsASCII(Spelled[y]) \/ ~ Normalizing THEN Lowered(Spelled[y]) ELSE Spelled[y]]
  BY <1>1 DEF Asked, Spelled
<1>3. DOMAIN Asked = 1..Len(Spelled) /\ Len(Asked) = Len(Spelled)
  BY <1>1, <1>2
<1>4. ASSUME NEW y \in 1..Len(Spelled)
      PROVE  /\ Asked[y] \in Seq(Nat) /\ Len(Asked[y]) = Len(Spelled[y])
             /\ Asked[y] = <<>> <=> Spelled[y] = <<>>
             /\ InCase => /\ Asked[y] = IF IsASCII(Spelled[y]) THEN Lowered(Spelled[y]) ELSE Spelled[y]
                          /\ IsASCII(Asked[y]) <=> IsASCII(Spelled[y])
  <2> DEFINE s == Spelled[y]
             a == Asked[y]
  <2>1. a = IF IsASCII(s) \/ ~ Normalizing THEN Lowered(s) ELSE s
    BY <1>2
  <2>2. s \in Seq(Alphabet) /\ s \in Seq(Nat)
    BY <1>1
  <2>3. InCase => Normalizing \/ IsASCII(s) \/ Lowered(s) = s
    BY <1>1 DEF InCase, Spelled
  <2>4. Dotless(s)
    BY <1>1
  <2> HIDE DEF s, a
  <2>5. Lowered(s) \in Seq(Nat) /\ Len(Lowered(s)) = Len(s)
    <3>1. Lowered(s) \in Seq(Alphabet) /\ Len(Lowered(s)) = Len(s)
      BY <2>2, LoweredIs
    <3> QED BY <3>1, Numbers
  <2>6. a \in Seq(Nat) /\ Len(a) = Len(s)
    BY <2>1, <2>2, <2>5
  <2>7. a = <<>> <=> s = <<>>
    BY <2>2, <2>6
  <2>8. ASSUME InCase
        PROVE  /\ a = IF IsASCII(s) THEN Lowered(s) ELSE s
               /\ IsASCII(a) <=> IsASCII(s)
    <3>1. a = IF IsASCII(s) THEN Lowered(s) ELSE s
      BY <2>1, <2>3, <2>8
    <3>2. IsASCII(s) => IsASCII(Lowered(s))
      BY <2>2, <2>4, LoweredASCII
    <3> QED BY <3>1, <3>2
  <2> QED BY <2>6, <2>7, <2>8 DEF s, a
<1> QED BY <1>1, <1>3, <1>4

\* When all labels are converted they are those of the text that is joined.
LEMMA JoinedLabels ==
  ASSUME LabelsInv, Working, i > Len(labels)
  PROVE  /\ Join(labels) \in Seq(Nat) /\ OnlyDot(Join(labels)) /\ Split(Join(labels)) = labels
         /\ Len(labels) = Len(Spelled) /\ ~ NoName
         /\ \A y \in 1..Len(labels) :
              /\ Converted(labels[y], Spelled[y]) /\ (Spelled[y] = <<>> => y = Len(labels))
              /\ Spelled[y] \in Seq(Alphabet) /\ labels[y] \in Seq(Nat)
              /\ Len(labels[y]) <= Len(Join(labels))
<1>1. /\ labels \in Seq(Seq(Nat)) /\ Len(labels) \in Nat /\ i \in Nat
      /\ \A y \in 1..Len(labels) : labels[y] \in Seq(Nat)
  BY InvParts
<1>2. Len(labels) = Len(Spelled) /\ ~ NoName
  BY DEF Working
<1>3. ASSUME NEW y \in 1..Len(labels)
      PROVE  /\ Converted(labels[y], Spelled[y]) /\ (Spelled[y] = <<>> => y = Len(labels))
             /\ Spelled[y] \in Seq(Alphabet) /\ Dotless(labels[y])
  <2>1. y < i
    BY <1>1
  <2>2. Converted(labels[y], Spelled[y]) /\ (Spelled[y] = <<>> => y = Len(labels))
    BY <2>1 DEF Working
  <2>3. Spelled[y] \in Seq(Alphabet) /\ Dotless(Spelled[y])
    BY <1>2, SpelledType DEF LabelsInv
  <2> QED BY <2>2, <2>3, ConvertedDotless
<1>4. Len(labels) >= 1
  BY <1>2, SpelledType DEF LabelsInv
<1> DEFINE text == Join(labels)
<1>5. text \in Seq(Nat) /\ OnlyDot(text) /\ Split(text) = labels
  BY <1>1, <1>3, <1>4, JoinSplits
<1> HIDE DEF text
<1>6. \A y \in 1..Len(Split(text)) : Len(Split(text)[y]) <= Len(text)
  BY <1>5, SplitLabels
<1> QED BY <1>1, <1>2, <1>3, <1>5, <1>6 DEF text

\* A label that is short enough for a domain, or is so when converted, is what
\* it is converted to stands for.
LEMMA ConvertedStands ==
  ASSUME LabelsInv, Working, i > Len(labels), InCase, NEW x \in 1..Len(labels),
         Len(Asked[x]) <= MaxLength \/ Len(Join(labels)) <= MaxLength
  PROVE  Stands(labels[x], Asked[x])
<1> DEFINE g == labels[x]
           l == Spelled[x]
           a == Asked[x]
<1>1. /\ Converted(g, l) /\ l \in Seq(Alphabet) /\ g \in Seq(Nat) /\ Len(g) <= Len(Join(labels))
      /\ Len(labels) = Len(Spelled) /\ Join(labels) \in Seq(Nat)
  BY JoinedLabels
<1>2. /\ a = IF IsASCII(l) THEN Lowered(l) ELSE l
      /\ IsASCII(a) <=> IsASCII(l)
      /\ Len(a) = Len(l)
  BY <1>1, AskedIs DEF LabelsInv
<1>3. Len(Join(labels)) \in Nat /\ MaxLength \in Nat
  BY <1>1, PunycodeAssumption
<1>4. Len(a) <= MaxLength \/ Len(Join(labels)) <= MaxLength
  OBVIOUS
<1> SUFFICES IF IsASCII(a) THEN g = a ELSE g = ACE \o Code(g) /\ Decode(Code(g)) = a
  BY DEF Stands, Code
<1> HIDE DEF g, l, a
<1>5. CASE IsASCII(l)
  BY <1>1, <1>2, <1>5 DEF Converted
<1>6. CASE ~ IsASCII(l)
  <2>1. Tagged(g, Code(g)) /\ Stems(Code(g), l)
        /\ (Len(l) <= MaxLength \/ Len(Code(g)) <= MaxLength => Decode(Code(g)) = l)
    BY <1>1, <1>6 DEF Converted
  <2>2. Code(g) \in Seq(Nat)
    BY <2>1 DEF Stems
  <2>3. Len(Code(g)) \in Nat /\ Len(g) = Len(Code(g)) + 4
    BY <2>1, <2>2, AceIs
  <2>4. Len(l) <= MaxLength \/ Len(Code(g)) <= MaxLength
    <3>1. CASE Len(a) <= MaxLength
      BY <1>2, <3>1
    <3>2. CASE Len(Join(labels)) <= MaxLength
      <4>1. Len(Code(g)) + 4 <= Len(Join(labels))
        BY <1>1, <2>3
      <4> QED BY <1>3, <2>3, <3>2, <4>1
    <3> QED BY <1>4, <3>1, <3>2
  <2> QED BY <1>2, <1>6, <2>1, <2>4 DEF Tagged
<1> QED BY <1>5, <1>6

\* What is returned has those labels.
LEMMA NameSame ==
  ASSUME LabelsInv
  PROVE  SameName
<1> SUFFICES ASSUME Accepted, InCase,
                    Normalizing \/ \A x \in DOMAIN Asked : Len(Asked[x]) <= MaxLength
             PROVE  /\ Len(Split(result.text)) = Len(Asked)
                    /\ \A x \in DOMAIN Asked : Stands(Split(result.text)[x], Asked[x])
  BY DEF SameName
<1>1. /\ Working /\ i > Len(labels) /\ result.text = Join(labels)
      /\ "none" = IF Normalizing THEN Check(Join(labels)) ELSE "none"
      /\ call \in Calls
  BY DEF Accepted, LabelsInv, Outcome
<1>2. /\ Split(result.text) = labels /\ Join(labels) \in Seq(Nat)
      /\ Len(labels) = Len(Spelled)
  BY <1>1, JoinedLabels
<1>3. DOMAIN Asked = 1..Len(labels) /\ Len(Asked) = Len(labels)
  BY <1>1, <1>2, AskedIs
<1>4. Normalizing => Len(Join(labels)) <= MaxLength
  <2>1. Normalizing => ~ (Len(Join(labels)) > MaxLength)
    BY <1>1 DEF Check
  <2>2. Len(Join(labels)) \in Nat /\ MaxLength \in Nat
    BY <1>2, PunycodeAssumption
  <2> QED BY <2>1, <2>2
<1>5. \A x \in 1..Len(labels) : Stands(labels[x], Asked[x])
  BY <1>1, <1>3, <1>4, ConvertedStands
<1> QED BY <1>2, <1>3, <1>5

\* An accepted name is what was typed, whatever its length (normalizeDomain,
\* ToASCII).
THEOREM SameNames == NormalizeSpec => []SameName
<1>1. NormalizeInv => SameName
  BY NameSame DEF NormalizeInv
<1> QED BY <1>1, NormalizeInvariant, PTL

-----------------------------------------------------------------------------
(* Why a name is refused.                                                  *)

Alien == \E x \in DOMAIN Asked : \E y \in DOMAIN Asked[x] :
           IsBasic(Asked[x][y]) /\ ~ Allowed(Asked[x][y])

\* A character that is not allowed comes from the name ...
LEMMA AlienThere ==
  ASSUME LabelsInv, Working, Normalizing, i > Len(labels), NEW z \in 1..Len(Join(labels)),
         ~ Allowed(Join(labels)[z])
  PROVE  Alien
<1> DEFINE text == Join(labels)
<1>1. /\ text \in Seq(Nat) /\ OnlyDot(text) /\ Split(text) = labels
      /\ Len(labels) = Len(Spelled)
      /\ \A y \in 1..Len(labels) : /\ Converted(labels[y], Spelled[y])
                                   /\ Spelled[y] \in Seq(Alphabet) /\ labels[y] \in Seq(Nat)
  BY JoinedLabels
<1>2. ~ Allowed(text[z]) /\ z \in 1..Len(text) /\ call \in Calls
  BY DEF LabelsInv
<1> HIDE DEF text
<1>3. text[z] \notin Dots
  BY <1>1, <1>2 DEF OnlyDot, Allowed, Dot
<1>4. PICK x \in 1..Len(labels) : \E y \in 1..Len(labels[x]) : labels[x][y] = text[z]
  <2>1. \E x \in 1..Len(Split(text)) : \E y \in 1..Len(Split(text)[x]) : Split(text)[x][y] = text[z]
    BY <1>1, <1>2, <1>3, SplitLabels
  <2> QED BY <1>1, <2>1
<1>5. PICK y \in 1..Len(labels[x]) : labels[x][y] = text[z]
  BY <1>4
<1> DEFINE g == labels[x]
           l == Spelled[x]
           c == text[z]
           a == Asked[x]
<1>6. /\ Converted(g, l) /\ l \in Seq(Alphabet) /\ g \in Seq(Nat) /\ y \in 1..Len(g) /\ g[y] = c
      /\ ~ Allowed(c)
  BY <1>1, <1>2, <1>5
<1>7. /\ a = IF IsASCII(l) THEN Lowered(l) ELSE l
      /\ (IsASCII(a) <=> IsASCII(l)) /\ x \in DOMAIN Asked /\ a \in Seq(Nat)
  BY <1>1, <1>2, AskedIs DEF InCase
<1> SUFFICES \E w \in DOMAIN a : IsBasic(a[w]) /\ ~ Allowed(a[w])
  BY <1>7 DEF Alien
<1> HIDE DEF g, l, c, a
<1>8. CASE IsASCII(l)
  <2>1. g = a /\ IsASCII(a)
    BY <1>6, <1>7, <1>8 DEF Converted
  <2>2. y \in DOMAIN a
    BY <1>6, <2>1
  <2> QED BY <1>6, <2>1, <2>2 DEF IsASCII
<1>9. CASE ~ IsASCII(l)
  <2> DEFINE e == Code(g)
  <2>1. Tagged(g, e) /\ Stems(e, l)
    BY <1>6, <1>9 DEF Converted
  <2> HIDE DEF e
  <2>2. e \in Seq(Nat)
    BY <2>1 DEF Stems
  <2>3. /\ Len(e) \in Nat /\ Len(g) = Len(e) + 4
        /\ \A w \in 1..4 : g[w] \in {120, 110, 45}
        /\ \A w \in 1..Len(e) : g[4 + w] = e[w]
    BY <2>1, <2>2, AceIs
  <2>4. y \notin 1..4
    <3> SUFFICES ASSUME y \in 1..4 PROVE FALSE
      OBVIOUS
    <3>1. c \in {120, 110, 45}
      BY <1>6, <2>3
    <3> QED BY <1>6, <3>1 DEF Allowed
  <2>5. y - 4 \in 1..Len(e) /\ 4 + (y - 4) = y
    BY <1>6, <2>3, <2>4
  <2>6. e[y - 4] = c
    BY <1>6, <2>3, <2>5
  <2>7. ~ (c = Hyphen \/ c \in 97..122 \/ c \in 48..57)
    BY <1>6 DEF Allowed, Hyphen
  <2>8. PICK w \in 1..Len(l) : IsBasic(l[w]) /\ c = l[w]
    BY <2>1, <2>5, <2>6, <2>7 DEF Stems
  <2>9. w \in DOMAIN l /\ a = l
    BY <1>6, <1>7, <1>9
  <2> QED BY <1>6, <2>8, <2>9
<1> QED BY <1>8, <1>9

\* ... and one of the name stays.
LEMMA AlienStays ==
  ASSUME LabelsInv, Working, Normalizing, i > Len(labels), Alien
  PROVE  \E z \in 1..Len(Join(labels)) : ~ Allowed(Join(labels)[z])
<1> DEFINE text == Join(labels)
<1>1. /\ text \in Seq(Nat) /\ Split(text) = labels
      /\ Len(labels) = Len(Spelled)
      /\ \A y \in 1..Len(labels) : /\ Converted(labels[y], Spelled[y])
                                   /\ Spelled[y] \in Seq(Alphabet) /\ labels[y] \in Seq(Nat)
  BY JoinedLabels
<1>2. call \in Calls
  BY DEF LabelsInv
<1> HIDE DEF text
<1>3. PICK x \in DOMAIN Asked : \E y \in DOMAIN Asked[x] :
        IsBasic(Asked[x][y]) /\ ~ Allowed(Asked[x][y])
  BY DEF Alien
<1>4. PICK y \in DOMAIN Asked[x] : IsBasic(Asked[x][y]) /\ ~ Allowed(Asked[x][y])
  BY <1>3
<1> DEFINE g == labels[x]
           l == Spelled[x]
           a == Asked[x]
           c == a[y]
<1>5. x \in 1..Len(labels) /\ a = (IF IsASCII(l) THEN Lowered(l) ELSE l) /\ a \in Seq(Nat)
  BY <1>1, <1>2, AskedIs DEF InCase
<1>6. Converted(g, l) /\ l \in Seq(Alphabet) /\ g \in Seq(Nat)
  BY <1>1, <1>5
<1>7. IsBasic(c) /\ ~ Allowed(c) /\ y \in DOMAIN a
  BY <1>4
<1> HIDE DEF l, a, c
<1>8. \E w \in 1..Len(g) : g[w] = c
  <2> HIDE DEF g
  <2>3. CASE IsASCII(l)
    <3>1. g = a
      BY <1>5, <1>6, <2>3 DEF Converted
    <3>2. y \in 1..Len(g)
      BY <1>6, <1>7, <3>1
    <3> QED BY <3>1, <3>2 DEF c
  <2>4. CASE ~ IsASCII(l)
    <3> DEFINE e == Code(g)
    <3>1. Tagged(g, e) /\ Stems(e, l) /\ Keeps(e, l, Len(l))
      BY <1>6, <2>4 DEF Converted
    <3> HIDE DEF e
    <3>2. e \in Seq(Nat)
      BY <3>1 DEF Stems
    <3>3. /\ Len(e) \in Nat /\ Len(g) = Len(e) + 4
          /\ \A w \in 1..Len(e) : g[4 + w] = e[w]
      BY <3>1, <3>2, AceIs
    <3>4. y \in 1..Len(l) /\ l[y] = c
      BY <1>5, <1>6, <1>7, <2>4 DEF c
    <3>5. PICK w \in 1..Len(e) : e[w] = c
      BY <1>7, <3>1, <3>4 DEF Keeps
    <3>6. 4 + w \in 1..Len(g) /\ g[4 + w] = c
      BY <3>3, <3>5
    <3> QED BY <3>6
  <2> QED BY <2>3, <2>4
<1>9. PICK z \in 1..Len(text) : text[z] = c
  <2>1. \A v \in 1..Len(Split(text)) : \A w \in 1..Len(Split(text)[v]) :
          \E z \in 1..Len(text) : Split(text)[v][w] = text[z]
    <3>1. text \in Seq(Nat)
      BY <1>1
    <3>2. \A v \in 1..Len(Split(text)) :
            /\ Split(text)[v] \in Seq(Nat) /\ Dotless(Split(text)[v]) /\ Len(Split(text)[v]) <= Len(text)
            /\ \A w \in 1..Len(Split(text)[v]) : \E z \in 1..Len(text) : Split(text)[v][w] = text[z]
      BY <3>1, SplitLabels
    <3> QED BY <3>2, Zenon
  <2>2. Split(text) = labels
    BY <1>1
  <2>3. \A w \in 1..Len(g) : \E z \in 1..Len(text) : g[w] = text[z]
    BY <1>5, <2>1, <2>2
  <2> QED BY <1>8, <2>3
<1> QED BY <1>7, <1>9 DEF text

\* What follows from the labels for a name that is refused.
LEMMA RefusalRight ==
  ASSUME LabelsInv
  PROVE  RefusedRightly
<1> DEFINE empty == \E x \in 1..(Len(Asked) - 1) : Asked[x] = <<>>
<1> SUFFICES ASSUME stage = "done"
             PROVE  /\ result.err = "empty" <=> NoName
                    /\ result.err = "label" <=> empty /\ result.err # "empty"
                    /\ result.err = "long" => Normalizing /\ TooLong
                    /\ result.err = "character" => Normalizing /\ Alien
                    /\ Normalizing /\ result.err = "none" => ~ Alien /\ Len(result.text) <= MaxLength
                    /\ result.err # "encode"
  BY DEF RefusedRightly, NoName, Alien
<1>1. Outcome /\ call \in Calls
  BY DEF LabelsInv
<1>2. empty <=> \E x \in 1..(Len(Spelled) - 1) : Spelled[x] = <<>>
  <2>1. /\ Len(Asked) = Len(Spelled) /\ Len(Spelled) \in Nat
        /\ \A y \in 1..Len(Spelled) : Asked[y] = <<>> <=> Spelled[y] = <<>>
    BY <1>1, AskedIs
  <2>2. \A y \in 1..(Len(Spelled) - 1) : y \in 1..Len(Spelled)
    BY <2>1
  <2> QED BY <2>1, <2>2
<1> HIDE DEF empty
<1>3. CASE result.err = "empty" /\ NoName
  BY <1>3
<1>4. CASE result.err = "label" /\ ~ NoName /\ \E y \in 1..(Len(Spelled) - 1) : Spelled[y] = <<>>
  BY <1>2, <1>4
<1>5. CASE /\ Working /\ i > Len(labels)
           /\ result.err = IF Normalizing THEN Check(Join(labels)) ELSE "none"
           /\ result.err = "none" => result.text = Join(labels)
  <2> DEFINE text == Join(labels)
             bad == \E z \in 1..Len(text) : ~ Allowed(text[z])
  <2>1. /\ text \in Seq(Nat) /\ Len(text) \in Nat /\ DOMAIN text = 1..Len(text)
        /\ Len(labels) = Len(Spelled) /\ ~ NoName
        /\ \A y \in 1..Len(labels) : Spelled[y] = <<>> => y = Len(labels)
    <3>1. /\ text \in Seq(Nat) /\ Len(labels) = Len(Spelled) /\ ~ NoName
          /\ \A y \in 1..Len(labels) : Spelled[y] = <<>> => y = Len(labels)
      BY <1>5, JoinedLabels
    <3> HIDE DEF text
    <3> QED BY <3>1
  <2>2. Normalizing => (bad <=> Alien)
    BY <1>5, AlienThere, AlienStays
  <2>3. ~ empty
    <3>1. Len(Spelled) \in Nat
      BY <1>1, SpelledType
    <3>2. \A y \in 1..(Len(Spelled) - 1) : y \in 1..Len(Spelled) /\ y # Len(Spelled)
      BY <3>1
    <3> QED BY <1>2, <2>1, <3>2
  <2>4. /\ Check(text) \in {"long", "character", "none"}
        /\ Check(text) = "long" => Len(text) > MaxLength
        /\ Check(text) = "character" => bad
        /\ Check(text) = "none" => ~ bad /\ ~ (Len(text) > MaxLength)
    <3>1. MaxLength \in Nat
      BY PunycodeAssumption
    <3> HIDE DEF text
    <3>2. CASE Len(text) > MaxLength
      BY <3>2 DEF Check
    <3>3. CASE ~ (Len(text) > MaxLength)
      <4>1. Len(text) <= MaxLength
        BY <2>1, <3>1, <3>3
      <4>2. Check(text) = IF bad THEN "character" ELSE "none"
        BY <2>1, <3>3, <4>1 DEF Check
      <4> QED BY <3>3, <4>2
    <3> QED BY <3>2, <3>3
  <2>5. ~ (Len(text) > MaxLength) => Len(text) <= MaxLength
    BY <2>1, PunycodeAssumption
  <2>6. result.err = (IF Normalizing THEN Check(text) ELSE "none") /\ (result.err = "none" => result.text = text)
    BY <1>5
  <2>7. Normalizing /\ Len(text) > MaxLength => TooLong
    <3> SUFFICES ASSUME Normalizing, Len(text) > MaxLength,
                        ~ \E x \in DOMAIN Asked : Len(Asked[x]) > MaxLength
                 PROVE  /\ Len(labels) = Len(Asked)
                        /\ \A x \in DOMAIN Asked : Stands(labels[x], Asked[x])
      BY DEF TooLong
    <3>1. /\ DOMAIN Asked = 1..Len(labels) /\ Len(Asked) = Len(labels)
          /\ \A x \in 1..Len(labels) : Asked[x] \in Seq(Nat)
      BY <1>1, <2>1, AskedIs
    <3>2. ASSUME NEW x \in 1..Len(labels) PROVE Len(Asked[x]) <= MaxLength
      <4>1. Len(Asked[x]) \in Nat
        BY <3>1
      <4>2. ~ (Len(Asked[x]) > MaxLength)
        BY <3>1
      <4>3. MaxLength \in Nat
        BY PunycodeAssumption
      <4> QED BY <4>1, <4>2, <4>3
    <3>3. \A x \in 1..Len(labels) : Stands(labels[x], Asked[x])
      BY <1>5, <3>2, ConvertedStands DEF InCase
    <3> QED BY <3>1, <3>3
  <2> HIDE DEF text, bad
  <2> QED BY <2>1, <2>2, <2>3, <2>4, <2>5, <2>6, <2>7
<1> QED BY <1>1, <1>3, <1>4, <1>5 DEF Outcome

\* A name is refused for one of the reasons that the code names, and for no
\* other: no name is refused that could be asked for.
THEOREM RefusesRightly == NormalizeSpec => []RefusedRightly
<1>1. NormalizeInv => RefusedRightly
  BY RefusalRight DEF NormalizeInv
<1> QED BY <1>1, NormalizeInvariant, PTL
=============================================================================
