-------------------------- MODULE WhoisParseProofs --------------------------
(***************************************************************************)
(* What Parse and ParseIPWhois make of every text, whatever its lines say: *)
(* no field is hidden by another or by a list, blocks and the rules of the *)
(* TLDs take only what is theirs, and a notice decides.                    *)
(*                                                                         *)
(* A field is the least pair, or the nearest line below the first header,  *)
(* of a set: most lemmas say that the least member (Least) is one, and     *)
(* which of the text's lines are in the set.                               *)
(***************************************************************************)
EXTENDS WhoisParse, DataLemmas, TLAPS

-----------------------------------------------------------------------------
(* ExtractPairs *)
LEMMA InitInv == Init => ScanInv
<1>1. SUFFICES ASSUME Init PROVE ScanInv
  OBVIOUS
<1>2. lines \in Seq(Lines) /\ Len(lines) \in Nat
  BY <1>1, LinesAssumption DEF Init
<1>3. TypeOK
  BY <1>1, <1>2 DEF Init, TypeOK
<1>4. QED
  BY <1>1, <1>3 DEF Init, ScanInv, InOrder, FieldsKept, ValuesBelong, ListOpen

\* A line of the text, and what a key header may be.
LEMMA LineTyped ==
  ASSUME TypeOK, NEW k \in 1..Len(lines)
  PROVE  /\ lines[k] \in LineType
         /\ lines[k].header => lines[k].colon /\ ~ lines[k].bracket /\ ~ lines[k].blank
<1>1. lines[k] \in Lines
  BY DEF TypeOK
<1>2. QED
  BY <1>1, LinesAssumption

\* The scan passes line i by.
LEMMA Skipped ==
  ASSUME ScanInv, AtLine, ~ IsField(Here), i' = i + 1, UNCHANGED <<lines, pairs>>
  PROVE  InOrder' /\ FieldsKept' /\ ValuesBelong'
<1>1. i \in 1..Len(lines) /\ pairs \in Seq(PairType)
  BY DEF ScanInv, TypeOK, AtLine
<1>2. \A m \in 1..Len(pairs) : pairs[m] \in PairType
  BY <1>1
<1>3. InOrder'
  BY <1>1, <1>2 DEF ScanInv, InOrder, PairType
<1>4. FieldsKept'
  <2>1. ASSUME NEW k \in 1..i, IsField(lines[k]) PROVE k \in 1..(i - 1)
    BY <1>1, <2>1 DEF Here
  <2>2. 1..(i' - 1) = 1..i
    BY <1>1
  <2>3. QED
    BY <2>1, <2>2, ZenonT(40) DEF ScanInv, FieldsKept, IsField
<1>5. ValuesBelong'
  BY DEF ScanInv, ValuesBelong, Belongs, Adjacent, Listed
<1>6. QED
  BY <1>3, <1>4, <1>5

\* The scan extracts a pair whose value is line v and goes on below it.
LEMMA Extracted ==
  ASSUME ScanInv, AtLine, NEW key \in 1..Len(lines), NEW v \in i..Len(lines), key <= v,
         Pair(key, v), i' = v + 1, UNCHANGED lines,
         \A k \in i..v : IsField(lines[k]) => k = v /\ k = key,
         Belongs([key |-> key, value |-> v])
  PROVE  pairs' \in Seq(PairType) /\ InOrder' /\ FieldsKept' /\ ValuesBelong'
<1> DEFINE p == [key |-> key, value |-> v]
<1>1. /\ i \in 1..Len(lines) /\ pairs \in Seq(PairType) /\ v \in Nat /\ key \in Nat
      /\ v \in 1..Len(lines)
  BY DEF ScanInv, TypeOK, AtLine
<1>2. p \in PairType /\ p.key = key /\ p.value = v
  BY <1>1 DEF PairType
<1>3. pairs' = Append(pairs, p)
  BY DEF Pair
<1> HIDE DEF p
<1>4. /\ pairs' \in Seq(PairType) /\ Len(pairs') = Len(pairs) + 1
      /\ pairs'[Len(pairs) + 1] = p /\ Len(pairs) \in Nat
      /\ \A m \in 1..Len(pairs) : pairs'[m] = pairs[m]
  BY <1>1, <1>2, <1>3
<1>5. \A m \in 1..Len(pairs) :
        /\ pairs[m].key \in Nat /\ pairs[m].value \in Nat
        /\ pairs[m].key <= pairs[m].value /\ pairs[m].value < i
  <2>1. \A m \in 1..Len(pairs) : pairs[m] \in PairType
    BY <1>1
  <2>2. QED
    BY <2>1, <1>1 DEF PairType, ScanInv, InOrder
<1>6. \A m \in 1..Len(pairs') : m = Len(pairs) + 1 \/ m \in 1..Len(pairs)
  BY <1>4
<1>7. InOrder'
  <2>1. ASSUME NEW m \in 1..Len(pairs') PROVE pairs'[m].key <= pairs'[m].value /\ pairs'[m].value < i'
    BY <1>1, <1>2, <1>4, <1>5, <1>6
  <2>2. ASSUME NEW m \in 1..Len(pairs'), NEW n \in 1..Len(pairs'), m < n
        PROVE  pairs'[m].value < pairs'[n].value
    <3>1. m \in 1..Len(pairs)
      BY <1>4, <2>2
    <3>2. CASE n = Len(pairs) + 1
      BY <1>1, <1>2, <1>4, <1>5, <3>1, <3>2
    <3>3. CASE n \in 1..Len(pairs)
      BY <1>4, <2>2, <3>1, <3>3 DEF ScanInv, InOrder
    <3>4. QED
      BY <1>6, <3>2, <3>3
  <2>3. QED
    BY <2>1, <2>2 DEF InOrder
<1>8. FieldsKept'
  <2>1. ASSUME NEW k \in 1..v, IsField(lines[k])
        PROVE  /\ \E m \in 1..Len(pairs') : pairs'[m] = [key |-> k, value |-> k]
               /\ \A m \in 1..Len(pairs') : pairs'[m].value = k => pairs'[m].key = k
    <3>1. CASE k \in 1..(i - 1)
      <4>1. PICK m \in 1..Len(pairs) : pairs[m] = [key |-> k, value |-> k]
        BY <2>1, <3>1 DEF ScanInv, FieldsKept
      <4>2. m \in 1..Len(pairs') /\ pairs'[m] = [key |-> k, value |-> k]
        BY <1>4, <4>1
      <4>3. \A q \in 1..Len(pairs) : pairs[q].value = k => pairs[q].key = k
        BY <2>1, <3>1 DEF ScanInv, FieldsKept
      <4>4. p.value # k
        BY <1>1, <1>2, <3>1
      <4>5. QED
        BY <1>4, <1>6, <4>2, <4>3, <4>4
    <3>2. CASE k \in i..v
      <4>1. k = v /\ k = key
        BY <2>1, <3>2
      <4>2. Len(pairs) + 1 \in 1..Len(pairs')
        BY <1>4
      <4>3. pairs'[Len(pairs) + 1] = [key |-> k, value |-> k]
        BY <1>4, <4>1 DEF p
      <4>4. \A m \in 1..Len(pairs) : pairs'[m].value # k
        BY <1>1, <1>4, <1>5, <3>2
      <4>5. QED
        BY <1>2, <1>4, <1>6, <4>1, <4>2, <4>3, <4>4
    <3>3. QED
      BY <1>1, <3>1, <3>2
  <2>2. i' - 1 = v
    BY <1>1
  <2>3. QED
    BY <2>1, <2>2 DEF FieldsKept, IsField
<1>9. ValuesBelong'
  <2>1. Belongs(p)
    BY DEF p
  <2>2. ASSUME NEW m \in 1..Len(pairs'), m = Len(pairs) + 1 PROVE Belongs(pairs[m])'
    <3>1. pairs'[m] = p
      BY <1>4, <2>2
    <3>2. QED
      BY <2>1, <3>1 DEF Belongs, Adjacent, Listed
  <2>3. ASSUME NEW m \in 1..Len(pairs'), m \in 1..Len(pairs) PROVE Belongs(pairs[m])'
    <3>1. pairs'[m] = pairs[m] /\ Belongs(pairs[m])
      BY <1>4, <2>3 DEF ScanInv, ValuesBelong
    <3>2. QED
      BY <3>1 DEF Belongs, Adjacent, Listed
  <2>4. QED
    BY <1>6, <2>2, <2>3 DEF ValuesBelong
<1>10. QED
  BY <1>4, <1>7, <1>8, <1>9

\* A list that is open stays open on a line that does not end it.
LEMMA StaysOpen ==
  ASSUME ScanInv, AtLine, ~ Here.blank, Here.header => Here.noise \/ Here.dated,
         UNCHANGED <<lines, listKey>>, i' = i + 1
  PROVE  ListOpen'
<1>1. i \in Nat /\ listKey \in Nat
  BY DEF ScanInv, TypeOK
<1>2. SUFFICES ASSUME listKey # 0
               PROVE  ListOpen'
  BY DEF ListOpen
<1>3. lines[listKey].ns /\ ~ (lines[listKey].colon /\ lines[listKey].valued)
  BY <1>2 DEF ScanInv, ListOpen
<1>4. PICK f \in (listKey + 1)..(i - 1) :
        /\ \A k \in (listKey + 1)..(f - 1) : lines[k].blank
        /\ \A k \in f..(i - 1) : ~ lines[k].blank
        /\ \A k \in (f + 1)..(i - 1) : lines[k].header => lines[k].noise \/ lines[k].dated
  BY <1>2 DEF ScanInv, ListOpen
<1>5. f \in (listKey + 1)..i /\ f \in Nat
  BY <1>1, <1>4
<1>6. \A k \in f..i : k \in f..(i - 1) \/ k = i
  BY <1>1, <1>5
<1>7. \A k \in (f + 1)..i : k \in (f + 1)..(i - 1) \/ k = i
  BY <1>1, <1>5
<1>8. /\ \A k \in f..i : ~ lines[k].blank
      /\ \A k \in (f + 1)..i : lines[k].header => lines[k].noise \/ lines[k].dated
  BY <1>4, <1>6, <1>7 DEF Here
<1>9. i' - 1 = i
  BY <1>1
<1>10. QED
  BY <1>3, <1>4, <1>5, <1>8, <1>9 DEF ListOpen

\* A list begins at line i, whose first value is line j.
LEMMA ListBegins ==
  ASSUME TypeOK, AtLine, NEW j \in 1..Len(lines), IsNext(j), Here.ns,
         ~ (Here.colon /\ Here.valued), UNCHANGED lines, listKey' = i, i' = j + 1
  PROVE  ListOpen'
<1>1. i \in 1..Len(lines) /\ j \in Nat /\ i' - 1 = j /\ j \in (i + 1)..j
  BY DEF TypeOK, AtLine, IsNext
<1>2. \A k \in (i + 1)..(j - 1) : lines[k].blank
  BY DEF IsNext
<1>3. \A k \in j..j : k = j
  BY <1>1
<1>4. \A k \in (j + 1)..j : FALSE
  BY <1>1
<1>5. QED
  BY <1>1, <1>2, <1>3, <1>4 DEF ListOpen, Here, IsNext

\* A line of an open list is a value of the list's key.
LEMMA ContinuesBelongs ==
  ASSUME ScanInv, AtLine, Text, Continues
  PROVE  listKey \in 1..Len(lines) /\ listKey <= i /\ Belongs([key |-> listKey, value |-> i])
<1>1. i \in 1..Len(lines) /\ listKey \in 0..Len(lines) /\ listKey # 0
  BY DEF ScanInv, TypeOK, AtLine, Continues
<1>2. PICK f \in (listKey + 1)..(i - 1) :
        /\ \A k \in (listKey + 1)..(f - 1) : lines[k].blank
        /\ \A k \in f..(i - 1) : ~ lines[k].blank
        /\ \A k \in (f + 1)..(i - 1) : lines[k].header => lines[k].noise \/ lines[k].dated
  BY <1>1 DEF ScanInv, ListOpen
<1>3. \A k \in f..i : k \in f..(i - 1) \/ k = i
  BY <1>1, <1>2
<1>4. \A k \in (f + 1)..i : k \in (f + 1)..(i - 1) \/ k = i
  BY <1>1, <1>2
<1> DEFINE p == [key |-> listKey, value |-> i]
<1>5. p.key = listKey /\ p.value = i
  OBVIOUS
<1> HIDE DEF p
<1>6. ~ lines[i].blank /\ ~ lines[i].header
  BY DEF Text, Continues, Here
<1>7. lines[listKey].ns /\ ~ (lines[listKey].colon /\ lines[listKey].valued)
  BY <1>1 DEF ScanInv, ListOpen
<1>8. Listed(p)
  BY <1>2, <1>3, <1>4, <1>5, <1>6, <1>7 DEF Listed
<1>9. Belongs(p)
  BY <1>5, <1>6, <1>7, <1>8 DEF Belongs
<1>10. listKey \in 1..Len(lines) /\ listKey <= i
  BY <1>1, <1>2
<1>11. QED
  BY <1>9, <1>10 DEF p

\* The value below a header is adjacent to it.
LEMMA BelowBelongs ==
  ASSUME TypeOK, AtLine, NEW j \in 1..Len(lines), IsNext(j), ~ lines[j].header,
         ~ (Here.colon /\ Here.valued)
  PROVE  j \in i..Len(lines) /\ i <= j /\ Belongs([key |-> i, value |-> j])
<1>1. i \in Nat /\ j \in (i + 1)..(i + 3) /\ \A k \in (i + 1)..(j - 1) : lines[k].blank
  BY DEF TypeOK, IsNext
<1> DEFINE p == [key |-> i, value |-> j]
<1>2. p.key = i /\ p.value = j
  OBVIOUS
<1> HIDE DEF p
<1>3. Adjacent(p)
  BY <1>1, <1>2 DEF Adjacent
<1>4. Belongs(p)
  BY <1>2, <1>3 DEF Belongs, Here
<1>5. QED
  BY <1>1, <1>4 DEF p

\* Between a header and the value below it there is no field.
LEMMA NoFieldBetween ==
  ASSUME TypeOK, AtLine, NEW j \in 1..Len(lines), IsNext(j), ~ IsField(Here), ~ lines[j].header
  PROVE  \A k \in i..j : ~ IsField(lines[k])
<1>1. SUFFICES ASSUME NEW k \in i..j, IsField(lines[k]) PROVE FALSE
  OBVIOUS
<1>2. i \in 1..Len(lines)
  BY DEF TypeOK, AtLine
<1>3. k # i /\ k # j
  BY <1>1 DEF Here, IsField
<1>4. k \in (i + 1)..(j - 1) /\ k \in 1..Len(lines)
  BY <1>1, <1>2, <1>3
<1>5. lines[k].blank /\ lines[k].header
  BY <1>1, <1>4 DEF IsNext, IsField
<1>6. QED
  BY <1>4, <1>5, LineTyped

(***************************************************************************)
(* One case per action.                                                    *)
(***************************************************************************)
LEMMA StepInv == ScanInv /\ [Next]_scanVars => ScanInv'
<1>1. SUFFICES ASSUME ScanInv, [Next]_scanVars PROVE ScanInv'
  OBVIOUS
<1>2. /\ TypeOK /\ lines \in Seq(Lines) /\ i \in 1..(Len(lines) + 1)
      /\ listKey \in 0..Len(lines) /\ pairs \in Seq(PairType) /\ Len(lines) \in Nat
  BY <1>1 DEF ScanInv, TypeOK
<1>3. AtLine => i \in 1..Len(lines) /\ i \in i..Len(lines) /\ \A k \in i..i : k = i
  BY <1>2 DEF AtLine
<1>4. AtLine => (Here.header => Here.colon /\ ~ Here.bracket /\ ~ Here.blank)
  BY <1>2, <1>3, LineTyped DEF Here
<1>5. ASSUME UNCHANGED lines, pairs' \in Seq(PairType), listKey' \in 0..Len(lines),
             i' \in 1..(Len(lines) + 1), InOrder', FieldsKept', ValuesBelong', ListOpen'
      PROVE  ScanInv'
  BY <1>2, <1>5 DEF ScanInv, TypeOK, PairType
<1>6. listKey' = 0 => ListOpen'
  BY DEF ListOpen
<1>7. ASSUME AtLine, ~ IsField(Here), i' = i + 1, UNCHANGED <<lines, pairs>>,
             listKey' = 0 \/ (UNCHANGED listKey /\ ~ Here.blank /\ Here.noise)
      PROVE  ScanInv'
  <2>1. InOrder' /\ FieldsKept' /\ ValuesBelong'
    BY <1>1, <1>7, Skipped
  <2>2. ListOpen'
    BY <1>1, <1>6, <1>7, StaysOpen
  <2>3. QED
    BY <1>2, <1>3, <1>5, <1>7, <2>1, <2>2
<1>8. ASSUME AtLine, Pair(i, i), i' = i + 1, UNCHANGED lines,
             listKey' = 0 \/ (UNCHANGED listKey /\ ~ Here.blank /\ Here.dated)
      PROVE  ScanInv'
  <2>1. Belongs([key |-> i, value |-> i])
    BY DEF Belongs
  <2>2. pairs' \in Seq(PairType) /\ InOrder' /\ FieldsKept' /\ ValuesBelong'
    BY <1>1, <1>2, <1>3, <1>8, <2>1, Extracted
  <2>3. ListOpen'
    BY <1>1, <1>6, <1>8, StaysOpen
  <2>4. QED
    BY <1>2, <1>3, <1>5, <1>8, <2>2, <2>3
<1>9. ASSUME AtLine, NEW j \in 1..Len(lines), IsNext(j), ~ lines[j].header, ~ IsField(Here),
             ~ (Here.colon /\ Here.valued), Pair(i, j), i' = j + 1, UNCHANGED lines,
             listKey' = 0 \/ (Here.ns /\ listKey' = i)
      PROVE  ScanInv'
  <2>1. j \in i..Len(lines) /\ i <= j /\ Belongs([key |-> i, value |-> j])
    BY <1>2, <1>9, BelowBelongs
  <2>2. \A k \in i..j : ~ IsField(lines[k])
    BY <1>2, <1>9, NoFieldBetween
  <2>3. pairs' \in Seq(PairType) /\ InOrder' /\ FieldsKept' /\ ValuesBelong'
    BY <1>1, <1>2, <1>3, <1>9, <2>1, <2>2, Extracted
  <2>4. ListOpen'
    BY <1>2, <1>6, <1>9, ListBegins
  <2>5. QED
    BY <1>2, <1>3, <1>5, <1>9, <2>1, <2>3, <2>4
<1>10. CASE SkipBlank
  BY <1>4, <1>7, <1>10 DEF SkipBlank, IsField
<1>11. CASE SkipNoise
  BY <1>7, <1>11 DEF SkipNoise, IsField
<1>12. CASE TakeDate
  BY <1>8, <1>12 DEF TakeDate, Text
<1>13. CASE ContinueList
  <2>1. Text /\ Continues /\ AtLine
    BY <1>13 DEF ContinueList, Text
  <2>2. listKey \in 1..Len(lines) /\ listKey <= i /\ Belongs([key |-> listKey, value |-> i])
    BY <1>1, <2>1, ContinuesBelongs
  <2>3. ~ IsField(lines[i]) /\ ~ Here.header /\ ~ Here.blank
    BY <2>1 DEF Text, Continues, IsField, Here
  <2>4. pairs' \in Seq(PairType) /\ InOrder' /\ FieldsKept' /\ ValuesBelong'
    BY <1>1, <1>3, <1>13, <2>1, <2>2, <2>3, Extracted DEF ContinueList
  <2>5. ListOpen'
    BY <1>1, <1>13, <2>1, <2>3, StaysOpen DEF ContinueList
  <2>6. QED
    BY <1>2, <1>3, <1>5, <1>13, <2>1, <2>4, <2>5 DEF ContinueList
<1>14. CASE TakeBracket
  BY <1>8, <1>14 DEF TakeBracket, Fresh, Text
<1>15. CASE TakeBareList
  <2>1. PICK j \in 1..Len(lines) : BareList(j) /\ Pair(i, j) /\ listKey' = i /\ i' = j + 1
    BY <1>15 DEF TakeBareList
  <2>2. AtLine /\ ~ Here.colon /\ UNCHANGED lines
    BY <1>15 DEF TakeBareList, Bare, Fresh, Text
  <2>3. ~ lines[j].header
    BY <1>2, <2>1, LineTyped DEF BareList
  <2>4. QED
    BY <1>4, <1>9, <2>1, <2>2, <2>3 DEF BareList, IsField
<1>16. CASE SkipBare
  BY <1>4, <1>7, <1>16 DEF SkipBare, Bare, Fresh, Text, IsField
<1>17. CASE SkipUnnamed
  BY <1>7, <1>17 DEF SkipUnnamed, Keyed, Fresh, Text, IsField
<1>18. CASE TakePair
  BY <1>8, <1>18 DEF TakePair, Keyed, Fresh, Text
<1>19. CASE TakeBelow
  <2>1. PICK j \in 1..Len(lines) : Below(j) /\ Pair(i, j) /\ i' = j + 1
    BY <1>19 DEF TakeBelow
  <2>2. /\ AtLine /\ ~ Here.valued /\ UNCHANGED lines
        /\ listKey' = 0 \/ (Here.ns /\ listKey' = i)
    BY <1>19 DEF TakeBelow, Keyed, Fresh, Text
  <2>3. QED
    BY <1>9, <2>1, <2>2 DEF Below, IsField
<1>20. CASE SkipHeader
  BY <1>7, <1>20 DEF SkipHeader, Keyed, Fresh, Text, IsField
<1>21. CASE UNCHANGED scanVars
  <2>1. UNCHANGED <<lines, i, listKey, pairs>>
    BY <1>21 DEF scanVars
  <2>2. InOrder' /\ FieldsKept'
    BY <1>1, <2>1 DEF ScanInv, InOrder, FieldsKept, IsField
  <2>3. ValuesBelong' /\ ListOpen'
    BY <1>1, <2>1 DEF ScanInv, ValuesBelong, Belongs, Adjacent, Listed, ListOpen
  <2>4. QED
    BY <1>2, <1>5, <2>1, <2>2, <2>3
<1>22. QED
  BY <1>1, <1>10, <1>11, <1>12, <1>13, <1>14, <1>15, <1>16, <1>17, <1>18, <1>19, <1>20, <1>21
  DEF Next

(***************************************************************************)
(* The theorems.                                                           *)
(***************************************************************************)

\* The invariant of the scan holds of every text.
THEOREM ScanInvariant == Spec => []ScanInv
  BY InitInv, StepInv, PTL DEF Spec

\* The scan stays within the text (TypeOK).
THEOREM ScanTyped == Spec => []TypeOK
<1>1. ScanInv => TypeOK
  BY DEF ScanInv
<1>2. QED
  BY <1>1, ScanInvariant, PTL

\* Pairs come in the order of the text, and no line is the value of two.
THEOREM ScanInOrder == Spec => []InOrder
<1>1. ScanInv => InOrder
  BY DEF ScanInv
<1>2. QED
  BY <1>1, ScanInvariant, PTL

\* "Key: value" gives its own pair, whatever stands above it.
THEOREM ScanKeepsFields == Spec => []FieldsKept
<1>1. ScanInv => FieldsKept
  BY DEF ScanInv
<1>2. QED
  BY <1>1, ScanInvariant, PTL

\* A value on another line than its key is below its header or in its list.
THEOREM ScanValuesBelong == Spec => []ValuesBelong
<1>1. ScanInv => ValuesBelong
  BY DEF ScanInv
<1>2. QED
  BY <1>1, ScanInvariant, PTL


-----------------------------------------------------------------------------
(* WhoisParse *)
\* The least member, of a set that has any.
LEMMA Least ==
  ASSUME NEW S \in SUBSET Nat, S # {}
  PROVE  Min(S) \in S /\ \A y \in S : Min(S) <= y
BY LeastNumber DEF Min

LEMMA ParsedTables == \A f \in DOMAIN ParsedAliases : DOMAIN ParsedAliases[f] \subseteq Nat \ {0}
<1> USE DEF ParsedAliases
<1>1. DOMAIN ParsedAliases =
        {"DomainName", "Handle", "Registrar", "RegistrarID", "WhoisServer", "RegName", "RegOrg",
         "RegEmail", "AdminName", "AdminOrg", "AdminEmail", "TechName", "TechOrg", "TechEmail",
         "BillingName", "BillingEmail"} \cup DateFields
  BY DEF DateFields
<1>2. /\ DOMAIN ParsedAliases.DomainName \subseteq Nat \ {0}
      /\ DOMAIN ParsedAliases.Handle \subseteq Nat \ {0}
      /\ DOMAIN ParsedAliases.Registrar \subseteq Nat \ {0}
      /\ DOMAIN ParsedAliases.RegistrarID \subseteq Nat \ {0}
      /\ DOMAIN ParsedAliases.WhoisServer \subseteq Nat \ {0}
  OBVIOUS
<1>3. /\ DOMAIN ParsedAliases.Created \subseteq Nat \ {0}
      /\ DOMAIN ParsedAliases.Updated \subseteq Nat \ {0}
      /\ DOMAIN ParsedAliases.Expiry \subseteq Nat \ {0}
  OBVIOUS
<1>4. /\ DOMAIN ParsedAliases.RegName \subseteq Nat \ {0}
      /\ DOMAIN ParsedAliases.RegOrg \subseteq Nat \ {0}
      /\ DOMAIN ParsedAliases.RegEmail \subseteq Nat \ {0}
      /\ DOMAIN ParsedAliases.AdminName \subseteq Nat \ {0}
      /\ DOMAIN ParsedAliases.AdminOrg \subseteq Nat \ {0}
      /\ DOMAIN ParsedAliases.AdminEmail \subseteq Nat \ {0}
  OBVIOUS
<1>5. /\ DOMAIN ParsedAliases.TechName \subseteq Nat \ {0}
      /\ DOMAIN ParsedAliases.TechOrg \subseteq Nat \ {0}
      /\ DOMAIN ParsedAliases.TechEmail \subseteq Nat \ {0}
      /\ DOMAIN ParsedAliases.BillingName \subseteq Nat \ {0}
      /\ DOMAIN ParsedAliases.BillingEmail \subseteq Nat \ {0}
  OBVIOUS
<1> HIDE DEF ParsedAliases
<1>6. QED
  BY <1>1, <1>2, <1>3, <1>4, <1>5 DEF DateFields
LEMMA IPTables == \A f \in DOMAIN IPAliases : DOMAIN IPAliases[f] \subseteq Nat \ {0}
  BY DEF IPAliases
LEMMA NamesOfFields ==
  /\ "DomainName" \in DOMAIN ParsedAliases /\ "DNSSec" \notin DOMAIN ParsedAliases
  /\ "CIDR" \notin DOMAIN IPAliases /\ "StartAddress" \notin DOMAIN IPAliases
  BY DEF ParsedAliases, IPAliases

-----------------------------------------------------------------------------
LEMMA PairTyped ==
  ASSUME ScanInv, NEW m \in DOMAIN pairs
  PROVE  /\ m \in 1..Len(pairs) /\ m \in Nat
         /\ pairs[m].key \in 1..Len(lines) /\ pairs[m].value \in 1..Len(lines)
         /\ pairs[m] # None
<1>1. pairs \in Seq(PairType)
  BY DEF ScanInv, TypeOK
<1>2. m \in 1..Len(pairs) /\ pairs[m] \in PairType
  BY <1>1
<1>3. pairs[m].key \in 1..Len(lines) /\ pairs[m].value \in 1..Len(lines)
  BY <1>2 DEF PairType
<1>4. pairs[m] # None
  BY <1>3 DEF None
<1>5. QED
  BY <1>2, <1>3, <1>4

\* The rank of an alias is its first place.
LEMMA RankFirst ==
  ASSUME NEW as, DOMAIN as \subseteq Nat \ {0}, NEW key \in Range(as)
  PROVE  /\ Rank(as, key) \in DOMAIN as /\ as[Rank(as, key)] = key
         /\ \A a \in DOMAIN as : as[a] = key => Rank(as, key) <= a
<1> DEFINE places == {a \in DOMAIN as : as[a] = key}
<1>1. places \in SUBSET Nat /\ places # {}
  BY DEF Range
<1> HIDE DEF places
<1>2. Min(places) \in places /\ \A a \in places : Min(places) <= a
  BY <1>1, Least
<1>3. QED
  BY <1>2 DEF places, Rank

\* get returns the first pair with the most preferred alias.
LEMMA GetPrefers ==
  ASSUME ScanInv, NEW as, DOMAIN as \subseteq Nat \ {0}, Hits(as) # {}
  PROVE  \E m \in Hits(as) :
           /\ Get(as) = pairs[m]
           /\ \A n \in Hits(as) :
                /\ Rank(as, KeyAt(pairs[m])) <= Rank(as, KeyAt(pairs[n]))
                /\ KeyAt(pairs[m]) = KeyAt(pairs[n]) => m <= n
<1> DEFINE ranks == {Rank(as, KeyAt(pairs[m])) : m \in Hits(as)}
           first == {m \in Hits(as) : KeyAt(pairs[m]) = as[Min(ranks)]}
<1>1. Hits(as) \subseteq Nat /\ \A m \in Hits(as) : KeyAt(pairs[m]) \in Range(as)
  BY PairTyped DEF Hits
<1>2. \A m \in Hits(as) :
        /\ Rank(as, KeyAt(pairs[m])) \in DOMAIN as
        /\ as[Rank(as, KeyAt(pairs[m]))] = KeyAt(pairs[m])
  BY <1>1, RankFirst
<1>3. ranks \in SUBSET Nat /\ ranks # {}
  BY <1>2
<1>4. Min(ranks) \in ranks /\ \A r \in ranks : Min(ranks) <= r
  <2> HIDE DEF ranks
  <2> QED BY <1>3, Least
<1>5. PICK m0 \in Hits(as) : Min(ranks) = Rank(as, KeyAt(pairs[m0]))
  BY <1>4
<1>6. m0 \in first
  BY <1>2, <1>5
<1>7. first \in SUBSET Nat /\ first # {}
  BY <1>1, <1>6
<1>8. Min(first) \in first /\ \A m \in first : Min(first) <= m
  <2> HIDE DEF first
  <2> QED BY <1>7, Least
<1>9. Get(as) = pairs[Min(first)]
  BY DEF Get
<1>10. KeyAt(pairs[Min(first)]) = KeyAt(pairs[m0]) /\ Min(first) \in Hits(as)
  BY <1>2, <1>5, <1>8
<1>11. \A n \in Hits(as) : Rank(as, KeyAt(pairs[Min(first)])) <= Rank(as, KeyAt(pairs[n]))
  BY <1>4, <1>5, <1>10
<1>12. \A n \in Hits(as) : KeyAt(pairs[Min(first)]) = KeyAt(pairs[n]) => n \in first
  BY <1>8
<1> HIDE DEF first, ranks
<1>13. QED
  BY <1>8, <1>9, <1>10, <1>11, <1>12

\* Whatever get returns has one of the aliases.
LEMMA GetHasAlias ==
  ASSUME ScanInv, NEW as, DOMAIN as \subseteq Nat \ {0}, Get(as) # None
  PROVE  KeyAt(Get(as)) \in Range(as)
<1>1. Hits(as) # {}
  BY DEF Get
<1>2. QED
  BY <1>1, GetPrefers DEF Hits

\* A field that the scan has passed is a hit of each table that has its key.
LEMMA FieldHits ==
  ASSUME ScanInv, NEW as, NEW k \in DOMAIN lines, k < i, IsField(lines[k]),
         lines[k].says.key \in Range(as)
  PROVE  \E m \in Hits(as) :
           pairs[m] = [key |-> k, value |-> k] /\ KeyAt(pairs[m]) = lines[k].says.key
<1>1. lines \in Seq(Lines) /\ k \in 1..(i - 1) /\ lines[k] \in Lines
  BY DEF ScanInv, TypeOK
<1>2. PICK m \in 1..Len(pairs) : pairs[m] = [key |-> k, value |-> k]
  BY <1>1 DEF ScanInv, FieldsKept
<1>3. KeyAt(pairs[m]) = lines[k].says.key /\ ValueAt(pairs[m]) = lines[k].says.value
  BY <1>2 DEF KeyAt, ValueAt
<1>4. ~ lines[k].says.value.empty
  BY <1>1, ParseAssumption DEF IsField
<1>5. m \in DOMAIN pairs
  BY DEF ScanInv, TypeOK
<1>6. QED
  BY <1>2, <1>3, <1>4, <1>5 DEF Hits

\* What does not read the fields is the same while the scan's variables are.
LEMMA GetSame ==
  ASSUME UNCHANGED <<lines, pairs>>, NEW as
  PROVE  Get(as)' = Get(as)
  BY DEF Get, Hits, Rank, KeyAt, ValueAt

LEMMA ReadSame ==
  ASSUME UNCHANGED <<lines, pairs, call>>, NEW f
  PROVE  Read(f)' = Read(f)
<1>1. Aliases' = Aliases
  BY DEF Aliases
<1>2. Get(Aliases[f])' = Get(Aliases[f])
  BY DEF Get, Hits, Rank, KeyAt, ValueAt, Aliases
<1>3. ValueAt(Get(Aliases[f]))' = ValueAt(Get(Aliases[f]))
  BY <1>2 DEF ValueAt
<1>4. GetDate(Aliases[f])' = GetDate(Aliases[f])
  BY <1>2, <1>3 DEF GetDate, None
<1>5. QED
  BY <1>2, <1>4 DEF Read

LEMMA BlockFieldSame ==
  ASSUME UNCHANGED <<lines, pairs>>, NEW header, NEW subKeys
  PROVE  BlockField(header, subKeys)' = BlockField(header, subKeys)
  BY DEF BlockField, BlockLine, Headers, BelowHeader, InBlock, SubKeyed, Titled, None

LEMMA NoticedSame ==
  ASSUME UNCHANGED <<lines, pairs>>
  PROVE  Noticed' = Noticed
  BY DEF Noticed

\* What blockField returns: the line nearest to the header that has one of the
\* keys, in a block that no blank line interrupts.
LEMMA BlockFieldNearest ==
  ASSUME ScanInv, NEW header, NEW subKeys, BlockField(header, subKeys) # None
  PROVE  \E j \in DOMAIN lines :
           /\ BlockField(header, subKeys) = [key |-> j, value |-> j]
           /\ lines[j].says.key \in subKeys
           /\ \E h \in 1..(j - 1) :
                /\ Titled(h, header)
                /\ \A b \in (h + 1)..(j - 1) : ~ lines[b].blank /\ ~ SubKeyed(b, subKeys)
<1> DEFINE h == Min(Headers(header, subKeys))
           j == Min(BelowHeader(h, subKeys))
<1>1. DOMAIN lines = 1..Len(lines) /\ Len(lines) \in Nat
  BY DEF ScanInv, TypeOK
<1>2. Headers(header, subKeys) # {} /\ BlockField(header, subKeys) = [key |-> j, value |-> j]
  BY DEF BlockField, BlockLine
<1>3. h \in Headers(header, subKeys)
  <2>1. Headers(header, subKeys) \in SUBSET Nat
    BY <1>1 DEF Headers
  <2>2. QED
    BY <1>2, <2>1, Least
<1>4. h \in DOMAIN lines /\ Titled(h, header) /\ BelowHeader(h, subKeys) # {}
  BY <1>3 DEF Headers
<1>5. BelowHeader(h, subKeys) \in SUBSET Nat
  BY <1>1 DEF BelowHeader
<1>6. j \in BelowHeader(h, subKeys) /\ \A b \in BelowHeader(h, subKeys) : j <= b
  BY <1>4, <1>5, Least
<1> HIDE DEF h, j
<1>7. j \in DOMAIN lines /\ InBlock(h, j) /\ SubKeyed(j, subKeys)
  BY <1>6 DEF BelowHeader
<1>8. h \in 1..(j - 1) /\ j \in Nat /\ h \in Nat /\ j <= h + Window
  BY <1>1, <1>4, <1>7, ParseAssumption DEF InBlock
<1>9. ASSUME NEW b \in (h + 1)..(j - 1) PROVE ~ lines[b].blank /\ ~ SubKeyed(b, subKeys)
  <2>1. b \in DOMAIN lines /\ b < j
    BY <1>1, <1>7, <1>8
  <2>2. b \in (h + 1)..j /\ b \in (h + 1)..(h + Window)
    BY <1>8, ParseAssumption
  <2>3. ~ lines[b].blank
    BY <1>7, <2>2 DEF InBlock
  <2>4. InBlock(h, b)
    BY <1>7, <1>8, <2>2, ParseAssumption DEF InBlock
  <2>5. ~ SubKeyed(b, subKeys)
    BY <1>6, <1>8, <2>1, <2>4 DEF BelowHeader
  <2>6. QED
    BY <2>3, <2>5
<1>10. lines[j].says.key \in subKeys
  BY <1>7 DEF SubKeyed
<1>11. QED
  BY <1>2, <1>4, <1>7, <1>8, <1>9, <1>10

\* What the rules of the TLDs do to each field.
\* What a rule may make of a field.
Filled(f, v) ==
  \/ v = fields[f]
  \/ /\ f \in DOMAIN Blocks /\ call.tld \in {"eu", "it"} /\ fields[f] = None
     /\ v = BlockField(Blocks[f].header, Blocks[f].keys)
  \/ f \in {"Expiry", "RegOrg"} /\ call.tld = "jp" /\ fields[f] = None
  \/ /\ f = "Registrar" /\ call.tld = "tr"
     /\ Get(<<"organization name">>) # None /\ v = Get(<<"organization name">>)

LEMMA RulesFill ==
  ASSUME fields = [f \in DOMAIN fields |-> fields[f]]
  PROVE  Ruled = [f \in DOMAIN fields |-> Ruled[f]] /\ \A f \in DOMAIN fields : Filled(f, Ruled[f])
<1>1. CASE call.tld = "jp"
  BY <1>1 DEF Ruled, FillEmpty, Filled
<1>2. CASE call.tld = "tr"
  BY <1>2 DEF Ruled, Filled
<1>3. CASE call.tld \notin {"jp", "tr", "eu", "it"}
  BY <1>3 DEF Ruled, Filled
<1>4. /\ DOMAIN Blocks = {"Registrar", "RegOrg", "AdminName", "TechName"}
      /\ Blocks["Registrar"].header = "registrar"
      /\ Blocks["Registrar"].keys = {"name", "organization"}
      /\ Blocks["RegOrg"].header = "registrant" /\ Blocks["RegOrg"].keys = {"organization"}
      /\ Blocks["AdminName"].header = "admin contact" /\ Blocks["AdminName"].keys = {"name"}
      /\ Blocks["TechName"].header = "technical contacts" /\ Blocks["TechName"].keys = {"name"}
  BY DEF Blocks
<1>5. CASE call.tld \in {"eu", "it"}
  <2> DEFINE told(f) == BlockField(Blocks[f].header, Blocks[f].keys)
             filled(f) == FillEmpty(f, told(f))
             eu == [fields EXCEPT !.Registrar = filled("Registrar")]
             it == [eu EXCEPT !.RegOrg = filled("RegOrg"), !.AdminName = filled("AdminName"),
                              !.TechName = filled("TechName")]
  <2>1. Ruled = IF call.tld = "eu" THEN eu ELSE it
    BY <1>4, <1>5 DEF Ruled, FromBlock
  <2>2. \A f \in DOMAIN Blocks : Filled(f, filled(f))
    BY <1>5 DEF FillEmpty, Filled
  <2>3. \A f \in DOMAIN fields : Filled(f, fields[f])
    BY DEF Filled
  <2> HIDE DEF filled
  <2>4. eu = [f \in DOMAIN fields |-> eu[f]] /\ \A f \in DOMAIN fields : Filled(f, eu[f])
    BY <1>4, <2>2, <2>3, ZenonT(40)
  <2>5. it = [f \in DOMAIN fields |-> it[f]] /\ \A f \in DOMAIN fields : Filled(f, it[f])
    BY <1>4, <2>2, <2>3, ZenonT(40)
  <2> HIDE DEF eu, it
  <2>6. QED
    BY <2>1, <2>4, <2>5
<1>6. QED
  BY <1>1, <1>2, <1>3, <1>5

-----------------------------------------------------------------------------
(***************************************************************************)
(* The invariant.                                                          *)
(***************************************************************************)

LEMMA ParseInitInv == ParseInit => ParseInv
<1>1. SUFFICES ASSUME ParseInit PROVE ParseInv
  OBVIOUS
<1>2. call.function \in Functions /\ stage = "scan" /\ Init
  BY <1>1, ParseAssumption DEF ParseInit, Init
<1>3. QED
  BY <1>2, InitInv
  DEF ParseInv, Staged, FieldsRead, RulesApplied, CIDRRead

\* The scan's part of a step, the fields' steps leaving it as it is.
LEMMA ParseScans == ParseInv /\ [ParseStep]_parseVars => ScanInv'
<1>1. ParseStep => [Next]_scanVars
  BY DEF ParseStep, ScanStep, ReadFields, ReadIPFields, ApplyTLDRules, DetermineRegistered
<1>2. UNCHANGED parseVars => UNCHANGED scanVars
  BY DEF parseVars, scanVars
<1>3. QED
  BY <1>1, <1>2, StepInv DEF ParseInv

\* Get, Read and BlockField stay as they are when the scan has ended.
LEMMA Steady ==
  ASSUME UNCHANGED <<call, scanVars>>
  PROVE  /\ \A f \in DOMAIN ParsedAliases : Read(f)' = Read(f)
         /\ \A f \in DOMAIN IPAliases : Read(f)' = Read(f)
         /\ \A f \in DOMAIN Blocks :
              BlockField(Blocks[f].header, Blocks[f].keys)'
                = BlockField(Blocks[f].header, Blocks[f].keys)
         /\ Aliases' = Aliases /\ Get(CIDRKeys)' = Get(CIDRKeys)
<1>1. UNCHANGED <<lines, pairs, call>>
  BY DEF scanVars
<1>2. QED
  BY <1>1, ReadSame, BlockFieldSame, GetSame DEF Aliases

LEMMA ReadFieldsInv ==
  ParseInv /\ ReadFields => Staged' /\ FieldsRead' /\ RulesApplied' /\ CIDRRead'
<1>1. SUFFICES ASSUME ParseInv, ReadFields
               PROVE  Staged' /\ FieldsRead' /\ RulesApplied' /\ CIDRRead'
  OBVIOUS
<1>2. /\ call.function = "Parse" /\ UNCHANGED <<call, scanVars>> /\ stage' = "read"
      /\ i > Len(lines)
      /\ fields' = [f \in DOMAIN ParsedAliases \cup {"DNSSec"} |->
                      IF f = "DNSSec" THEN DNSSecOf(GetAll(DnssecKeys)) ELSE Read(f)]
  BY <1>1 DEF ReadFields, Scanned
<1>3. \A f \in DOMAIN ParsedAliases : fields'[f] = Read(f)
  BY <1>2, NamesOfFields
<1>4. Aliases = ParsedAliases
  BY <1>2 DEF Aliases
<1>5. /\ fields' = [f \in DOMAIN fields' |-> fields'[f]]
      /\ DOMAIN ParsedAliases \subseteq DOMAIN fields'
  BY <1>2
<1>6. Staged'
  BY <1>1, <1>2, <1>5 DEF Staged, ParseInv, scanVars, Functions
<1>7. FieldsRead'
  BY <1>2, <1>3, <1>4, Steady DEF FieldsRead
<1>8. RulesApplied' /\ CIDRRead'
  BY <1>2 DEF RulesApplied, CIDRRead
<1>9. QED
  BY <1>6, <1>7, <1>8

LEMMA ReadIPFieldsInv ==
  ParseInv /\ ReadIPFields => Staged' /\ FieldsRead' /\ RulesApplied' /\ CIDRRead'
<1>1. SUFFICES ASSUME ParseInv, ReadIPFields
               PROVE  Staged' /\ FieldsRead' /\ RulesApplied' /\ CIDRRead'
  OBVIOUS
<1>2. /\ call.function = "ParseIPWhois" /\ UNCHANGED <<call, scanVars>> /\ stage' = "ruled"
      /\ i > Len(lines)
  BY <1>1 DEF ReadIPFields, Scanned
<1>3. /\ fields' = [f \in DOMAIN fields' |-> fields'[f]]
      /\ \A f \in DOMAIN IPAliases : fields'[f] = Read(f)
      /\ Get(CIDRKeys) # None => fields'.CIDR = Get(CIDRKeys)
  BY <1>1, NamesOfFields DEF ReadIPFields
<1>4. Aliases = IPAliases
  BY <1>2 DEF Aliases
<1>5. Staged'
  BY <1>1, <1>2, <1>3 DEF Staged, ParseInv, scanVars, Functions
<1>6. FieldsRead'
  BY <1>2, <1>3, <1>4, Steady DEF FieldsRead
<1>7. RulesApplied' /\ CIDRRead'
  BY <1>2, <1>3, Steady DEF RulesApplied, CIDRRead, None
<1>8. QED
  BY <1>5, <1>6, <1>7

LEMMA ApplyTLDRulesInv ==
  ParseInv /\ ApplyTLDRules => Staged' /\ FieldsRead' /\ RulesApplied' /\ CIDRRead'
<1>1. SUFFICES ASSUME ParseInv, ApplyTLDRules
               PROVE  Staged' /\ FieldsRead' /\ RulesApplied' /\ CIDRRead'
  OBVIOUS
<1>2. /\ stage = "read" /\ UNCHANGED <<call, scanVars>> /\ stage' = "ruled" /\ fields' = Ruled
      /\ call.function = "Parse" /\ i > Len(lines)
      /\ DOMAIN ParsedAliases \subseteq DOMAIN fields
      /\ fields = [f \in DOMAIN fields |-> fields[f]]
  BY <1>1 DEF ApplyTLDRules, ParseInv, Staged
<1>3. Ruled = [f \in DOMAIN fields |-> Ruled[f]] /\ \A f \in DOMAIN fields : Filled(f, Ruled[f])
  BY <1>2, RulesFill
<1>4. DOMAIN fields' = DOMAIN fields /\ fields' = [f \in DOMAIN fields' |-> fields'[f]]
  BY <1>2, <1>3
<1>5. Staged'
  BY <1>1, <1>2, <1>4 DEF Staged, ParseInv, scanVars, Functions
<1>6. FieldsRead' /\ CIDRRead'
  BY <1>2 DEF FieldsRead, CIDRRead
<1>7. ASSUME NEW f \in DOMAIN ParsedAliases
      PROVE  \/ fields'[f] = Read(f)
             \/ f \in DOMAIN Blocks /\ call.tld \in {"eu", "it"}
                  /\ fields'[f] = BlockField(Blocks[f].header, Blocks[f].keys)
             \/ f \in DOMAIN Blocks \cup {"Expiry"} /\ call.tld \in {"jp", "tr"}
  <2>1. Filled(f, fields'[f])
    BY <1>2, <1>3
  <2>2. fields[f] = Read(f)
    BY <1>1, <1>2 DEF ParseInv, FieldsRead, Aliases
  <2>3. {"Registrar", "RegOrg"} \subseteq DOMAIN Blocks
    BY DEF Blocks
  <2>4. QED
    BY <2>1, <2>2, <2>3 DEF Filled
<1>8. RulesApplied'
  BY <1>2, <1>7, Steady DEF RulesApplied
<1>9. QED
  BY <1>5, <1>6, <1>8

\* The verdict leaves all it was made from as it was.
LEMMA TellsSame ==
  ASSUME UNCHANGED <<call, fields, scanVars>>
  PROVE  Tells' = Tells
<1>1. UNCHANGED <<lines, pairs>>
  BY DEF scanVars
<1>2. Noticed' = Noticed
  BY <1>1, NoticedSame
<1>3. Named' = Named
  BY DEF Named, None
<1>4. QED
  BY <1>1, <1>2, <1>3 DEF Tells

LEMMA DetermineRegisteredInv ==
  ParseInv /\ DetermineRegistered => Staged' /\ FieldsRead' /\ RulesApplied' /\ CIDRRead'
<1>1. SUFFICES ASSUME ParseInv, DetermineRegistered
               PROVE  Staged' /\ FieldsRead' /\ RulesApplied' /\ CIDRRead'
  OBVIOUS
<1>2. /\ stage = "ruled" /\ stage' = "done" /\ registered' = Tells
      /\ UNCHANGED <<call, fields, scanVars>>
  BY <1>1 DEF DetermineRegistered
<1>3. Staged'
  BY <1>1, <1>2, TellsSame DEF Staged, ParseInv, scanVars
<1>4. FieldsRead'
  BY <1>2 DEF FieldsRead
<1>5. RulesApplied' /\ CIDRRead'
  BY <1>1, <1>2, Steady DEF RulesApplied, CIDRRead, ParseInv, None
<1>6. QED
  BY <1>3, <1>4, <1>5

LEMMA StutterInv ==
  ParseInv /\ UNCHANGED parseVars => Staged' /\ FieldsRead' /\ RulesApplied' /\ CIDRRead'
<1>1. SUFFICES ASSUME ParseInv, UNCHANGED parseVars
               PROVE  Staged' /\ FieldsRead' /\ RulesApplied' /\ CIDRRead'
  OBVIOUS
<1>2. UNCHANGED <<call, stage, fields, registered, scanVars>>
  BY <1>1 DEF parseVars, scanVars
<1>3. Staged'
  BY <1>1, <1>2, TellsSame DEF Staged, ParseInv, scanVars
<1>4. FieldsRead'
  BY <1>1, <1>2, Steady DEF FieldsRead, ParseInv, Aliases
<1>5. RulesApplied' /\ CIDRRead'
  BY <1>1, <1>2, Steady DEF RulesApplied, CIDRRead, ParseInv, None
<1>6. QED
  BY <1>3, <1>4, <1>5

LEMMA ScanStepInv ==
  ParseInv /\ ScanStep => Staged' /\ FieldsRead' /\ RulesApplied' /\ CIDRRead'
  BY DEF ParseInv, ScanStep, Staged, FieldsRead, RulesApplied, CIDRRead

LEMMA ParseStepInv == ParseInv /\ [ParseStep]_parseVars => ParseInv'
<1>1. ParseInv /\ [ParseStep]_parseVars => Staged' /\ FieldsRead' /\ RulesApplied' /\ CIDRRead'
  BY ScanStepInv, ReadFieldsInv, ReadIPFieldsInv, ApplyTLDRulesInv, DetermineRegisteredInv,
     StutterInv
  DEF ParseStep
<1>2. QED
  BY <1>1, ParseScans DEF ParseInv

-----------------------------------------------------------------------------
(***************************************************************************)
(* What follows from it.                                                   *)
(***************************************************************************)

LEMMA TablesAreNumbered ==
  ASSUME call.function \in Functions
  PROVE  \A f \in DOMAIN Aliases : DOMAIN Aliases[f] \subseteq Nat \ {0}
  BY ParsedTables, IPTables DEF Aliases

LEMMA NothingHidden == ParseInv => FieldsTold
<1>1. SUFFICES ASSUME ParseInv,
                      stage = "read" \/ (stage = "ruled" /\ call.function = "ParseIPWhois"),
                      NEW f \in DOMAIN Aliases, NEW a \in DOMAIN Aliases[f],
                      NEW k \in DOMAIN lines,
                      IsField(lines[k]), lines[k].says.key = Aliases[f][a]
               PROVE  \E p \in Range(pairs) :
                        /\ \E b \in 1..a : KeyAt(p) = Aliases[f][b] /\ (b = a => p.key <= k)
                        /\ fields[f] = p \/ (f \in DateFields /\ fields[f] = None /\ ~ ValueAt(p).date)
  BY DEF FieldsTold
<1> DEFINE as == Aliases[f]
<1>2. ScanInv /\ k < i /\ DOMAIN as \subseteq Nat \ {0} /\ fields[f] = Read(f)
  <2>1. ScanInv /\ i > Len(lines) /\ call.function \in Functions
    BY <1>1 DEF ParseInv, Staged
  <2>2. k < i
    BY <2>1 DEF ScanInv, TypeOK
  <2>3. DOMAIN as \subseteq Nat \ {0}
    BY <2>1, TablesAreNumbered
  <2>4. fields[f] = Read(f)
    BY <1>1 DEF ParseInv, FieldsRead
  <2>5. QED
    BY <2>1, <2>2, <2>3, <2>4
<1> HIDE DEF as
<1>3. a \in DOMAIN as /\ as[a] = lines[k].says.key /\ lines[k].says.key \in Range(as)
  BY <1>1 DEF as, Range
<1>4. PICK n \in Hits(as) : pairs[n] = [key |-> k, value |-> k] /\ KeyAt(pairs[n]) = as[a]
  <2>1. \E n \in Hits(as) :
          pairs[n] = [key |-> k, value |-> k] /\ KeyAt(pairs[n]) = lines[k].says.key
    BY <1>1, <1>2, <1>3, FieldHits, Zenon
  <2>2. QED
    BY <1>3, <2>1
<1>5. PICK m \in Hits(as) :
        /\ Get(as) = pairs[m]
        /\ Rank(as, KeyAt(pairs[m])) <= Rank(as, KeyAt(pairs[n]))
        /\ KeyAt(pairs[m]) = KeyAt(pairs[n]) => m <= n
  BY <1>2, <1>4, GetPrefers
<1> DEFINE p == pairs[m]
           b == Rank(as, KeyAt(p))
           r == Rank(as, as[a])
<1>6. p \in Range(pairs) /\ KeyAt(p) \in Range(as)
  BY DEF Hits, Range
<1>7. b \in DOMAIN as /\ as[b] = KeyAt(p)
  BY <1>2, <1>6, RankFirst
<1>8. r \in DOMAIN as /\ r <= a
  BY <1>2, <1>3, RankFirst
<1>9. b \in 1..a
  <2>1. b <= r
    BY <1>4, <1>5
  <2> HIDE DEF b, r
  <2>2. b <= r /\ r <= a
    BY <1>8, <2>1
  <2>3. a \in Nat \ {0} /\ b \in Nat \ {0} /\ r \in Nat \ {0}
    BY <1>2, <1>3, <1>7, <1>8, Zenon
  <2>4. QED
    BY <2>2, <2>3
<1>10. ASSUME b = a PROVE p.key <= k
  <2>1. m <= n /\ m \in DOMAIN pairs /\ n \in DOMAIN pairs
    BY <1>4, <1>5, <1>7, <1>10 DEF Hits
  <2>2. m \in 1..Len(pairs) /\ n \in 1..Len(pairs) /\ p.key \in Nat /\ p.value \in Nat
    BY <1>2, <2>1, PairTyped
  <2>3. p.key <= p.value /\ (m < n => p.value < pairs[n].value)
    BY <1>2, <2>2 DEF ScanInv, InOrder
  <2>4. pairs[n].value = k /\ k \in Nat
    BY <1>1, <1>2, <1>4 DEF ScanInv, TypeOK
  <2>5. QED
    BY <2>1, <2>2, <2>3, <2>4
<1>11. fields[f] = p \/ (f \in DateFields /\ fields[f] = None /\ ~ ValueAt(p).date)
  BY <1>2, <1>5 DEF Read, GetDate, as
<1>12. QED
  BY <1>6, <1>7, <1>9, <1>10, <1>11 DEF as

LEMMA BlocksTold == ParseInv => BlockTold
<1>1. SUFFICES ASSUME ParseInv, stage = "ruled", call.function = "Parse",
                      call.tld \in {"eu", "it"}, NEW f \in DOMAIN Blocks, fields[f] # None,
                      KeyAt(fields[f]) \notin Range(ParsedAliases[f])
               PROVE  \E h \in 1..(fields[f].key - 1) :
                        /\ Titled(h, Blocks[f].header) /\ KeyAt(fields[f]) \in Blocks[f].keys
                        /\ \A b \in (h + 1)..(fields[f].key - 1) :
                             ~ lines[b].blank /\ ~ SubKeyed(b, Blocks[f].keys)
  BY DEF BlockTold
<1>2. f \in DOMAIN ParsedAliases /\ f \notin DateFields
  BY <1>1 DEF Blocks, ParsedAliases, DateFields
<1>3. ScanInv /\ (fields[f] = Read(f) \/ fields[f] = BlockField(Blocks[f].header, Blocks[f].keys))
  BY <1>1, <1>2 DEF ParseInv, RulesApplied
<1>4. Read(f) = Get(ParsedAliases[f])
  BY <1>1, <1>2 DEF Read, Aliases
<1>5. DOMAIN ParsedAliases[f] \subseteq Nat \ {0}
  BY <1>2, ParsedTables
<1>6. fields[f] = BlockField(Blocks[f].header, Blocks[f].keys)
  BY <1>1, <1>3, <1>4, <1>5, GetHasAlias
<1>7. PICK j \in DOMAIN lines :
        /\ fields[f] = [key |-> j, value |-> j] /\ lines[j].says.key \in Blocks[f].keys
        /\ \E h \in 1..(j - 1) :
             /\ Titled(h, Blocks[f].header)
             /\ \A b \in (h + 1)..(j - 1) : ~ lines[b].blank /\ ~ SubKeyed(b, Blocks[f].keys)
  BY <1>1, <1>3, <1>6, BlockFieldNearest
<1>8. fields[f].key = j /\ KeyAt(fields[f]) = lines[j].says.key
  BY <1>7 DEF KeyAt
<1>9. QED
  BY <1>7, <1>8

\* A field that the scan has passed leaves a name or a CIDR that is looked
\* for under its key.
LEMMA NamesAreFound ==
  ASSUME ParseInv, stage = "done", NEW k \in DOMAIN lines, IsField(lines[k]),
         lines[k].says.key \in (IF call.function = "Parse" THEN Range(ParsedAliases.DomainName)
                                                         ELSE Range(CIDRKeys))
  PROVE  Named
<1> DEFINE as == IF call.function = "Parse" THEN ParsedAliases.DomainName ELSE CIDRKeys
<1>1. ScanInv /\ k < i /\ call.function \in Functions
  BY DEF ParseInv, Staged, ScanInv, TypeOK
<1>2. lines[k].says.key \in Range(as)
  OBVIOUS
<1>3. DOMAIN as \subseteq Nat \ {0}
  BY ParsedTables, NamesOfFields DEF CIDRKeys
<1> HIDE DEF as
<1>4. Hits(as) # {}
  BY <1>1, <1>2, FieldHits
<1>5. PICK m \in Hits(as) : Get(as) = pairs[m]
  BY <1>1, <1>3, <1>4, GetPrefers
<1>6. Get(as) # None
  BY <1>1, <1>5, PairTyped DEF Hits
<1>7. CASE call.function = "Parse"
  <2>1. fields.DomainName = Read("DomainName")
    BY <1>7, NamesOfFields DEF ParseInv, RulesApplied, Blocks
  <2>2. Read("DomainName") = Get(as)
    BY <1>7 DEF Read, Aliases, DateFields, as
  <2>3. QED
    BY <1>6, <1>7, <2>1, <2>2 DEF Named
<1>8. CASE call.function # "Parse"
  <2>1. fields.CIDR = Get(as)
    BY <1>1, <1>6, <1>8 DEF ParseInv, CIDRRead, Functions, as
  <2>2. QED
    BY <1>6, <1>8, <2>1 DEF Named
<1>9. QED
  BY <1>7, <1>8

LEMMA VerdictIsTold == ParseInv => VerdictTold
<1>1. SUFFICES ASSUME ParseInv, stage = "done" PROVE VerdictTold
  BY DEF VerdictTold
<1>2. registered = Tells /\ i > Len(lines) /\ ScanInv
  BY <1>1 DEF ParseInv, Staged
<1>3. DOMAIN lines = 1..Len(lines) /\ Len(lines) \in Nat /\ i \in Nat
  BY <1>2 DEF ScanInv, TypeOK
<1>4. ASSUME registered, NEW k \in DOMAIN lines, NEW j \in DOMAIN lines
      PROVE  /\ lines[k].says.notice # "whole"
             /\ (k < j /\ \A b \in (k + 1)..(j - 1) : lines[b].blank) =>
                  ~ (lines[k].says.notice = "head" /\ lines[j].says.notice = "tail")
  <2>1. ~ Noticed
    BY <1>2, <1>4 DEF Tells
  <2>2. lines[k].says.notice # "whole"
    BY <2>1 DEF Noticed
  <2>3. ASSUME k < j, \A b \in (k + 1)..(j - 1) : lines[b].blank
        PROVE  ~ (lines[k].says.notice = "head" /\ lines[j].says.notice = "tail")
    <3>1. j \in (k + 1)..Len(lines)
      BY <1>3, <2>3
    <3>2. QED
      BY <2>1, <2>3, <3>1 DEF Noticed
  <2>4. QED
    BY <2>2, <2>3
<1>5. ASSUME ~ registered, ~ Noticed
      PROVE  ~ Named /\ ~ (Len(pairs) >= 2)
  BY <1>2, <1>5 DEF Tells
<1>6. ASSUME ~ registered, ~ Noticed,
             NEW k \in DOMAIN lines, NEW j \in DOMAIN lines, IsField(lines[k]), IsField(lines[j])
      PROVE  k = j
  <2>1. k \in 1..(i - 1) /\ j \in 1..(i - 1)
    BY <1>2, <1>3
  <2>2. PICK m \in 1..Len(pairs) : pairs[m] = [key |-> k, value |-> k]
    BY <1>2, <1>6, <2>1 DEF ScanInv, FieldsKept
  <2>3. PICK n \in 1..Len(pairs) : pairs[n] = [key |-> j, value |-> j]
    BY <1>2, <1>6, <2>1 DEF ScanInv, FieldsKept
  <2>4. Len(pairs) \in Nat /\ Len(pairs) < 2
    BY <1>2, <1>5, <1>6 DEF ScanInv, TypeOK
  <2>5. m = n
    BY <2>4
  <2>6. QED
    BY <2>2, <2>3, <2>5
<1>7. ASSUME ~ registered, ~ Noticed, NEW k \in DOMAIN lines, IsField(lines[k])
      PROVE  lines[k].says.key \notin
               (IF call.function = "Parse" THEN Range(ParsedAliases.DomainName)
                                           ELSE Range(CIDRKeys))
  BY <1>1, <1>5, <1>7, NamesAreFound
<1>8. QED
  BY <1>4, <1>6, <1>7 DEF VerdictTold

LEMMA OneAlias ==
  /\ DOMAIN <<"organization name">> \subseteq Nat \ {0}
  /\ \A n \in DOMAIN <<"organization name">> : <<"organization name">>[n] = "organization name"
<1>1. DOMAIN <<"organization name">> = 1..1
  OBVIOUS
<1>2. 1..1 \subseteq Nat \ {0} /\ \A n \in 1..1 : n = 1
  OBVIOUS
<1>3. <<"organization name">>[1] = "organization name"
  OBVIOUS
<1>4. QED
  BY <1>1, <1>2, <1>3, Zenon

LEMMA RulesFillOnly ==
  ParseInv /\ [ParseStep]_parseVars =>
    (stage = "read" =>
       \A f \in DOMAIN fields : fields[f] # None =>
         \/ fields'[f] = fields[f]
         \/ call.tld = "tr" /\ f = "Registrar" /\ KeyAt(fields'[f]) = "organization name")
<1>1. SUFFICES ASSUME ParseInv, [ParseStep]_parseVars, stage = "read",
                      NEW f \in DOMAIN fields, fields[f] # None
               PROVE  \/ fields'[f] = fields[f]
                      \/ call.tld = "tr" /\ f = "Registrar" /\ KeyAt(fields'[f]) = "organization name"
  OBVIOUS
<1>2. CASE UNCHANGED parseVars
  BY <1>2 DEF parseVars
<1>3. CASE ApplyTLDRules
  <2>1. fields' = Ruled /\ ScanInv /\ fields = [g \in DOMAIN fields |-> fields[g]]
    BY <1>1, <1>3 DEF ApplyTLDRules, ParseInv, Staged
  <2>2. Filled(f, fields'[f])
    BY <2>1, RulesFill
  <2>3. ASSUME Get(<<"organization name">>) # None
        PROVE  KeyAt(Get(<<"organization name">>)) = "organization name"
    <3>1. KeyAt(Get(<<"organization name">>)) \in Range(<<"organization name">>)
      BY <2>1, <2>3, OneAlias, GetHasAlias, Zenon
    <3>2. QED
      BY <3>1, OneAlias, Zenon DEF Range
  <2>4. QED
    BY <1>1, <2>2, <2>3 DEF Filled
<1>4. QED
  BY <1>1, <1>2, <1>3
  DEF ParseStep, ScanStep, ReadFields, ReadIPFields, Scanned, DetermineRegistered

-----------------------------------------------------------------------------
(* The name servers. *)

\* A pair that begins with a name server, under a name server's key.
Serves(m) == m \in Hits(NsKeys) /\ ValueAt(pairs[m]).server # NoServer
ServerOf(m) == ValueAt(pairs[m]).server
ServersThere == {ServerOf(m) : m \in Nat}

\* One more name server, unless it is there.
LEMMA AddTyped ==
  ASSUME NEW T, NEW s \in Seq(T), NEW x \in T
  PROVE  /\ Add(s, x) \in Seq(T)
         /\ IsInjective(s) => IsInjective(Add(s, x))
         /\ Range(Add(s, x)) = Range(s) \cup {x}
<1>1. CASE x \in Range(s)
  BY <1>1 DEF Add
<1>2. CASE x \notin Range(s)
  <2> DEFINE t == Append(s, x)
  <2>1. /\ t \in Seq(T) /\ Len(s) \in Nat /\ DOMAIN s = 1..Len(s) /\ DOMAIN t = 1..(Len(s) + 1)
        /\ t[Len(s) + 1] = x /\ \A k \in 1..Len(s) : t[k] = s[k]
    OBVIOUS
  <2> HIDE DEF t
  <2>2. \A k \in 1..Len(s) : t[k] # x
    BY <1>2, <2>1 DEF Range
  <2>3. ASSUME IsInjective(s) PROVE IsInjective(t)
    <3>1. \A k, j \in 1..Len(s) : t[k] = t[j] => k = j
      BY <2>1, <2>3 DEF IsInjective
    <3>2. \A k \in DOMAIN t : k \in 1..Len(s) \/ k = Len(s) + 1
      BY <2>1
    <3>3. \A k, j \in DOMAIN t : t[k] = t[j] => k = j
      BY <2>1, <2>2, <3>1, <3>2
    <3>4. QED
      BY <3>3 DEF IsInjective
  <2>4. Range(t) = Range(s) \cup {x}
    <3>1. \A k \in DOMAIN t : t[k] \in Range(s) \cup {x}
      <4> TAKE k \in DOMAIN t
      <4>1. k \in 1..Len(s) \/ k = Len(s) + 1
        BY <2>1
      <4>2. QED
        BY <2>1, <4>1 DEF Range
    <3>2. \A k \in DOMAIN s : k \in DOMAIN t /\ t[k] = s[k]
      BY <2>1
    <3>3. Len(s) + 1 \in DOMAIN t
      BY <2>1
    <3>4. Range(t) \subseteq Range(s) \cup {x}
      BY <3>1 DEF Range
    <3>5. Range(s) \subseteq Range(t) /\ x \in Range(t)
      BY <2>1, <3>2, <3>3 DEF Range
    <3>6. QED
      BY <3>4, <3>5
  <2>5. QED
    BY <1>2, <2>1, <2>3, <2>4 DEF Add, t
<1>3. QED
  BY <1>1, <1>2

\* The equations that ServersOf is defined by: there is such a function.
LEMMA ServersOfDef ==
  /\ ServersOf[0] = <<>>
  /\ \A m \in Nat : ServersOf[m + 1] =
       IF Serves(m + 1) THEN Add(ServersOf[m], ServerOf(m + 1)) ELSE ServersOf[m]
<1> DEFINE After(g, m) == IF Serves(m) THEN Add(g[m - 1], ServerOf(m)) ELSE g[m - 1]
           Rec(g) == g = [m \in Nat |-> IF m = 0 THEN <<>> ELSE After(g, m)]
           S == Seq(ServersThere)
           step == [m \in Nat |-> [s \in S |-> IF Serves(m) THEN Add(s, ServerOf(m)) ELSE s]]
<1>1. ServersOf = CHOOSE g : Rec(g)
  BY DEF ServersOf, Serves, ServerOf
<1>2. step \in [Nat -> [S -> S]]
  <2>1. ASSUME NEW m \in Nat, NEW s \in S
        PROVE  (IF Serves(m) THEN Add(s, ServerOf(m)) ELSE s) \in S
    BY AddTyped DEF ServersThere
  <2>2. QED
    BY <2>1
<1>3. <<>> \in S
  OBVIOUS
<1>4. PICK f \in [Nat -> S] : f[0] = <<>> /\ \A n \in Nat : f[n + 1] = step[n + 1][f[n]]
  <2> DEFINE none == <<>>
  <2>1. none \in S
    BY <1>3
  <2> HIDE DEF S, step, none
  <2>2. \E f : Recurses(f, S, none, step)
    BY <1>2, <2>1, Recursion, Zenon
  <2>3. QED
    BY <2>2 DEF none, Recurses
<1>5. Rec(f)
  <2>1. ASSUME NEW m \in Nat, m # 0 PROVE f[m] = After(f, m)
    <3>1. m - 1 \in Nat /\ (m - 1) + 1 = m
      BY <2>1
    <3>2. f[m] = step[m][f[m - 1]] /\ f[m - 1] \in S
      <4> HIDE DEF S, step
      <4>1. f[m - 1] \in S
        BY <3>1
      <4>2. f[(m - 1) + 1] = step[(m - 1) + 1][f[m - 1]]
        BY <1>4, <3>1
      <4>3. QED
        BY <3>1, <4>1, <4>2
    <3>3. QED
      BY <3>2
  <2>2. QED
    BY <1>4, <2>1
<1> HIDE DEF After, Rec
<1>6. Rec(ServersOf)
  BY <1>1, <1>5
<1>7. QED
  <2>1. ServersOf[0] = <<>>
    BY <1>6 DEF Rec
  <2>2. ASSUME NEW m \in Nat
        PROVE  ServersOf[m + 1] =
                 IF Serves(m + 1) THEN Add(ServersOf[m], ServerOf(m + 1)) ELSE ServersOf[m]
    <3>1. m + 1 \in Nat /\ m + 1 # 0 /\ (m + 1) - 1 = m
      OBVIOUS
    <3>2. ServersOf[m + 1] = After(ServersOf, m + 1)
      BY <1>6, <3>1 DEF Rec
    <3>3. QED
      BY <3>1, <3>2 DEF After
  <2>3. QED
    BY <2>1, <2>2

\* The name servers of the first m pairs: each once, and no others.
LEMMA ServersOfPairs ==
  ASSUME NEW m \in Nat
  PROVE  /\ IsInjective(ServersOf[m])
         /\ Range(ServersOf[m]) = {ServerOf(n) : n \in {k \in 1..m : Serves(k)}}
<1> DEFINE There(n) == {k \in 1..n : Serves(k)}
           Holds(n) == /\ ServersOf[n] \in Seq(ServersThere) /\ IsInjective(ServersOf[n])
                       /\ Range(ServersOf[n]) = {ServerOf(k) : k \in There(n)}
           S == {n \in Nat : Holds(n)}
<1>1. 0 \in S
  <2>1. IsInjective(<<>>) /\ Range(<<>>) = {} /\ There(0) = {} /\ <<>> \in Seq(ServersThere)
    BY DEF IsInjective, Range
  <2>2. QED
    BY <2>1, ServersOfDef
<1>2. ASSUME NEW n \in S PROVE n + 1 \in S
  <2>1. 1..(n + 1) = 1..n \cup {n + 1} /\ n + 1 \in Nat
    OBVIOUS
  <2>2. CASE Serves(n + 1)
    <3>1. There(n + 1) = There(n) \cup {n + 1}
      BY <2>1, <2>2
    <3>2. ServersOf[n + 1] = Add(ServersOf[n], ServerOf(n + 1)) /\ ServerOf(n + 1) \in ServersThere
      BY <2>1, <2>2, ServersOfDef DEF ServersThere
    <3>3. Holds(n)
      BY <1>2
    <3> HIDE DEF There
    <3>4. Holds(n + 1)
      <4>1. /\ Add(ServersOf[n], ServerOf(n + 1)) \in Seq(ServersThere)
            /\ IsInjective(Add(ServersOf[n], ServerOf(n + 1)))
            /\ Range(Add(ServersOf[n], ServerOf(n + 1))) = Range(ServersOf[n]) \cup {ServerOf(n + 1)}
        BY <3>2, <3>3, AddTyped
      <4>2. Range(ServersOf[n + 1]) = {ServerOf(k) : k \in There(n)} \cup {ServerOf(n + 1)}
        BY <3>2, <3>3, <4>1
      <4>3. Range(ServersOf[n + 1]) = {ServerOf(k) : k \in There(n + 1)}
        BY <3>1, <4>2
      <4>4. QED
        BY <3>2, <4>1, <4>3
    <3>5. QED
      BY <2>1, <3>4
  <2>3. CASE ~ Serves(n + 1)
    <3>1. There(n + 1) = There(n)
      BY <2>1, <2>3
    <3>2. ServersOf[n + 1] = ServersOf[n]
      BY <2>3, ServersOfDef
    <3>3. QED
      BY <1>2, <2>1, <3>1, <3>2
  <2>4. QED
    BY <2>2, <2>3
<1>3. S \in SUBSET Nat
  OBVIOUS
<1> HIDE DEF S
<1>4. S = Nat
  BY <1>1, <1>2, <1>3, Induction
<1>5. QED
  BY <1>4 DEF S

\* What Parse reads of the pairs is what the lines say.
LEMMA ServersRead == ParseInv /\ ReadFields => ServersTold'
<1> SUFFICES ASSUME ParseInv, ReadFields PROVE ServersTold'
  OBVIOUS
<1> DEFINE servers == ServersOf[Len(pairs)]
<1>1. /\ ScanInv /\ i > Len(lines) /\ lists'.servers = servers /\ lines' = lines
      /\ lines \in Seq(Lines) /\ pairs \in Seq(PairType) /\ i \in 1..(Len(lines) + 1)
  BY DEF ParseInv, ReadFields, Scanned, ScanInv, TypeOK, scanVars
<1>2. Len(pairs) \in Nat /\ DOMAIN pairs = 1..Len(pairs) /\ DOMAIN lines = 1..Len(lines)
      /\ Len(lines) \in Nat /\ 1..(i - 1) = 1..Len(lines)
  BY <1>1
<1>3. IsInjective(servers) /\ Range(servers) = {ServerOf(m) : m \in {k \in 1..Len(pairs) : Serves(k)}}
  BY <1>2, ServersOfPairs
<1> HIDE DEF servers
<1>4. ASSUME NEW k \in DOMAIN lines, IsField(lines[k]), lines[k].says.key \in Range(NsKeys)
      PROVE  lines[k].says.value.server \in Range(servers) \cup {NoServer}
  <2>1. PICK m \in 1..Len(pairs) : pairs[m] = [key |-> k, value |-> k]
    BY <1>1, <1>2, <1>4 DEF ScanInv, FieldsKept
  <2>2. lines[k] \in Lines /\ lines[k].valued
    BY <1>1, <1>2, <1>4 DEF IsField
  <2>3. ~ lines[k].says.value.empty
    BY <2>2, ParseAssumption
  <2>4. KeyAt(pairs[m]) = lines[k].says.key /\ ValueAt(pairs[m]) = lines[k].says.value
    BY <2>1 DEF KeyAt, ValueAt
  <2>5. m \in Hits(NsKeys)
    BY <1>2, <1>4, <2>3, <2>4 DEF Hits
  <2>6. QED
    BY <1>3, <2>4, <2>5 DEF Serves, ServerOf
<1>5. ASSUME NEW s \in Range(servers)
      PROVE  \E h, k \in DOMAIN lines :
               LET p == [key |-> h, value |-> k]
               IN KeyAt(p) \in Range(NsKeys) /\ ValueAt(p).server = s /\ h <= k /\ Belongs(p)
  <2>1. PICK m \in 1..Len(pairs) : Serves(m) /\ s = ServerOf(m)
    BY <1>3, <1>5
  <2>2. /\ pairs[m].key \in DOMAIN lines /\ pairs[m].value \in DOMAIN lines
        /\ pairs[m] = [key |-> pairs[m].key, value |-> pairs[m].value]
    <3>1. pairs[m] \in PairType
      BY <1>1, <2>1
    <3>2. QED
      BY <1>2, <3>1 DEF PairType
  <2>3. pairs[m].key <= pairs[m].value /\ Belongs(pairs[m])
    BY <1>1, <2>1 DEF ScanInv, InOrder, ValuesBelong
  <2>4. KeyAt(pairs[m]) \in Range(NsKeys) /\ ValueAt(pairs[m]).server = s
    BY <2>1 DEF Serves, Hits, ServerOf
  <2>5. QED
    BY <2>2, <2>3, <2>4
<1>6. /\ \A p : KeyAt(p)' = KeyAt(p) /\ ValueAt(p)' = ValueAt(p) /\ Belongs(p)' = Belongs(p)
  BY <1>1 DEF KeyAt, ValueAt, Belongs, Adjacent, Listed
<1>7. QED
  BY <1>1, <1>3, <1>4, <1>5, <1>6 DEF ServersTold

LEMMA ServersStep == ParseInv /\ ServersTold /\ [ParseStep]_parseVars => ServersTold'
<1> SUFFICES ASSUME ParseInv, ServersTold, [ParseStep]_parseVars PROVE ServersTold'
  OBVIOUS
<1>1. CASE ReadFields
  BY <1>1, ServersRead
<1>2. CASE UNCHANGED parseVars
  BY <1>2 DEF parseVars, scanVars, ServersTold, KeyAt, ValueAt, Belongs, Adjacent, Listed
<1>3. ASSUME ScanStep \/ ReadIPFields \/ ApplyTLDRules \/ DetermineRegistered PROVE stage' # "read"
  BY <1>3 DEF ScanStep, ReadIPFields, ApplyTLDRules, DetermineRegistered
<1>4. QED
  BY <1>1, <1>2, <1>3 DEF ParseStep, ServersTold

-----------------------------------------------------------------------------
(***************************************************************************)
(* The theorems.                                                           *)
(***************************************************************************)

\* The invariant holds of Parse and ParseIPWhois for every text, table of
\* values and TLD.
THEOREM ParseInvariant == ParseSpec => []ParseInv
  BY ParseInitInv, ParseStepInv, PTL DEF ParseSpec

\* Whatever is read, the scan below it keeps its promises: pairs in the order
\* of the text, no field lost, every value where it belongs.
THEOREM ParseKeepsScan == ParseSpec => [](InOrder /\ FieldsKept /\ ValuesBelong)
<1>1. ParseInv => InOrder /\ FieldsKept /\ ValuesBelong
  BY DEF ParseInv, ScanInv
<1>2. QED
  BY <1>1, ParseInvariant, PTL

\* No field is hidden by what else the text says: each line "Key: value" is in
\* its field, or an earlier or preferred one is (fieldGetter.get).
THEOREM ParseHidesNothing == ParseSpec => []FieldsTold
  BY NothingHidden, ParseInvariant, PTL

\* The name servers are those under a name server's key, fields and lists
\* alike, each of them once (fieldGetter.nameservers).
THEOREM ParseTellsServers == ParseSpec => []ServersTold
<1>1. ParseInit => ServersTold
  BY DEF ParseInit, ServersTold
<1>2. QED
  BY <1>1, ServersStep, ParseInvariant, PTL DEF ParseSpec

\* A value from a block stands in the block of its own header (blockField).
THEOREM ParseTellsBlocks == ParseSpec => []BlockTold
  BY BlocksTold, ParseInvariant, PTL

\* A notice decides, and without one the name or two fields do
\* (determineRegistered, ParseIPWhois).
THEOREM ParseTellsVerdict == ParseSpec => []VerdictTold
  BY VerdictIsTold, ParseInvariant, PTL

\* The rules of a TLD take nothing away that was published (applyTLDRules).
THEOREM ParseRulesOnlyFill == ParseSpec => RulesOnlyFill
<1>1. ParseInv /\ [ParseStep]_parseVars =>
        [stage = "read" =>
           \A f \in DOMAIN fields : fields[f] # None =>
             \/ fields'[f] = fields[f]
             \/ call.tld = "tr" /\ f = "Registrar" /\ KeyAt(fields'[f]) = "organization name"
        ]_parseVars
  BY RulesFillOnly
<1>2. QED
  BY <1>1, ParseInvariant, PTL DEF ParseSpec, RulesOnlyFill
=============================================================================
