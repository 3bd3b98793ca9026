---------------------------- MODULE ExtractPairs ----------------------------
(***************************************************************************)
(* extractPairs (parse.go): the scan that turns a port-43 text into keys   *)
(* and values, one step per iteration of its loop.  A value may stand on   *)
(* its key's line, on the next line that is not empty, or in a list of     *)
(* name servers below a header, so the loop looks ahead, skips what it has *)
(* consumed, and remembers a list that is open.                            *)
(*                                                                         *)
(* A line is described by the tests the code makes of it.  A pair is the   *)
(* number of the line its key is from and of the line its value is from.   *)
(***************************************************************************)
EXTENDS Naturals, Sequences

CONSTANTS
  Sayings,   \* what a line may say; the scan does not look at it
  Lines,     \* the lines that occur in texts
  Texts      \* the texts that are parsed

\* blank: empty when trimmed; noise: isNoise; dated: recordDateRe matches;
\* bracket: bracketLineRe matches; open: starts with "["; colon: holds a ":";
\* header: looksLikeKeyHeader; named: the key in front of the first colon, or
\* in the whole line when there is none, has 1 to 60 characters; ns: it is an
\* isNSHeader; valued: something follows the colon; says: its words.
LineType ==
  [blank : BOOLEAN, noise : BOOLEAN, dated : BOOLEAN, bracket : BOOLEAN, open : BOOLEAN,
   colon : BOOLEAN, header : BOOLEAN, named : BOOLEAN, ns : BOOLEAN, valued : BOOLEAN,
   says : Sayings]

\* A key header has a colon, and no bracket in front of it.
ASSUME LinesAssumption ==
  /\ Lines \subseteq LineType
  /\ Texts \subseteq Seq(Lines)
  /\ \A l \in Lines : l.header => l.colon /\ ~ l.bracket /\ ~ l.open /\ ~ l.blank

VARIABLES
  lines,    \* the text
  i,        \* the line the loop is at
  listKey,  \* the line whose key heads the list that is open, 0 for none
  pairs     \* what was extracted, in order

scanVars == <<lines, i, listKey, pairs>>

Init ==
  /\ lines \in Texts
  /\ i = 1
  /\ listKey = 0
  /\ pairs = <<>>

-----------------------------------------------------------------------------
AtLine == i <= Len(lines)
Here == lines[i]

Pair(key, value) == pairs' = Append(pairs, [key |-> key, value |-> value])

\* nextNonEmpty(lines, i+1): one of the three lines below, the first not blank.
IsNext(j) ==
  /\ j \in (i + 1)..(i + 3) /\ j <= Len(lines)
  /\ ~ lines[j].blank
  /\ \A k \in (i + 1)..(j - 1) : lines[k].blank

\* Faulty: an empty line does not end a list.
SkipBlankInList ==
  /\ AtLine /\ Here.blank
  /\ i' = i + 1
  /\ UNCHANGED <<lines, listKey, pairs>>

SkipBlank ==
  /\ AtLine /\ Here.blank
  /\ i' = i + 1 /\ listKey' = 0
  /\ UNCHANGED <<lines, pairs>>

SkipNoise ==
  /\ AtLine /\ ~ Here.blank /\ Here.noise
  /\ i' = i + 1
  /\ UNCHANGED <<lines, listKey, pairs>>

Text == AtLine /\ ~ Here.blank /\ ~ Here.noise

\* "Record created on ...": a list that is open stays open.
TakeDate ==
  /\ Text /\ Here.dated
  /\ Pair(i, i) /\ i' = i + 1
  /\ UNCHANGED <<lines, listKey>>

\* Faulty: any line but a bracketed one continues a list.
ContinuesUnlessOpen == listKey # 0 /\ ~ Here.open

Continues == listKey # 0 /\ ~ Here.header /\ ~ Here.open

ContinueList ==
  /\ Text /\ ~ Here.dated /\ Continues
  /\ Pair(listKey, i) /\ i' = i + 1
  /\ UNCHANGED <<lines, listKey>>

\* What is left starts anew: listKey = "".
Fresh == Text /\ ~ Here.dated /\ ~ Continues

TakeBracket ==
  /\ Fresh /\ Here.bracket
  /\ Pair(i, i) /\ i' = i + 1 /\ listKey' = 0
  /\ UNCHANGED lines

Bare == Fresh /\ ~ Here.bracket /\ ~ Here.colon
Keyed == Fresh /\ ~ Here.bracket /\ Here.colon

\* "Nameservers" without a colon, above a value: a list begins.
BareList(j) == Here.ns /\ IsNext(j) /\ ~ lines[j].colon

TakeBareList ==
  /\ Bare
  /\ \E j \in 1..Len(lines) :
       BareList(j) /\ Pair(i, j) /\ listKey' = i /\ i' = j + 1
  /\ UNCHANGED lines

SkipBare ==
  /\ Bare /\ ~ \E j \in 1..Len(lines) : BareList(j)
  /\ i' = i + 1 /\ listKey' = 0
  /\ UNCHANGED <<lines, pairs>>

SkipUnnamed ==
  /\ Keyed /\ ~ Here.named
  /\ i' = i + 1 /\ listKey' = 0
  /\ UNCHANGED <<lines, pairs>>

TakePair ==
  /\ Keyed /\ Here.named /\ Here.valued
  /\ Pair(i, i) /\ i' = i + 1 /\ listKey' = 0
  /\ UNCHANGED lines

\* The line below an empty header is its value, unless it is a key itself.
Below(j) == IsNext(j) /\ ~ lines[j].header /\ ~ lines[j].bracket

\* Faulty: the line that was taken is read again.
TakeBelowTwice ==
  /\ Keyed /\ Here.named /\ ~ Here.valued
  /\ \E j \in 1..Len(lines) : Below(j) /\ Pair(i, j)
  /\ listKey' = IF Here.ns THEN i ELSE 0
  /\ i' = i + 1
  /\ UNCHANGED lines

\* "Registrar:" above its value, "Name servers:" above a list.
TakeBelow ==
  /\ Keyed /\ Here.named /\ ~ Here.valued
  /\ \E j \in 1..Len(lines) : Below(j) /\ Pair(i, j) /\ i' = j + 1
  /\ listKey' = IF Here.ns THEN i ELSE 0
  /\ UNCHANGED lines

\* The header of a block of keys, or of nothing.
SkipHeader ==
  /\ Keyed /\ Here.named /\ ~ Here.valued
  /\ ~ \E j \in 1..Len(lines) : Below(j)
  /\ i' = i + 1 /\ listKey' = 0
  /\ UNCHANGED <<lines, pairs>>

Next ==
  \/ SkipBlank \/ SkipNoise \/ TakeDate \/ ContinueList \/ TakeBracket \/ TakeBareList
  \/ SkipBare \/ SkipUnnamed \/ TakePair \/ TakeBelow \/ SkipHeader

Spec == Init /\ [][Next]_scanVars /\ WF_scanVars(Next)

-----------------------------------------------------------------------------
PairType == [key : 1..Len(lines), value : 1..Len(lines)]

TypeOK ==
  /\ lines \in Seq(Lines)
  /\ i \in 1..(Len(lines) + 1)
  /\ listKey \in 0..Len(lines)
  /\ pairs \in Seq(PairType)

\* The pairs are in the order of the text, and no line is the value of two:
\* looking ahead never makes the scan read a line again.
InOrder ==
  /\ \A m \in 1..Len(pairs) : pairs[m].key <= pairs[m].value /\ pairs[m].value < i
  /\ \A m, n \in 1..Len(pairs) : m < n => pairs[m].value < pairs[n].value

\* The line is a field of its own, "Key: value".
IsField(l) == l.header /\ l.named /\ l.valued /\ ~ l.noise /\ ~ l.dated

\* A field is never lost: whatever list or header stands above it, "Key:
\* value" gives a pair with its own key and value, and no other pair has it.
FieldsKept ==
  \A k \in 1..(i - 1) : IsField(lines[k]) =>
    /\ \E m \in 1..Len(pairs) : pairs[m] = [key |-> k, value |-> k]
    /\ \A m \in 1..Len(pairs) : pairs[m].value = k => pairs[m].key = k

\* Where a value is that is not on its key's line: below an empty header or a
\* bare name-server header, with only blank lines between; or further down in
\* the list of a name-server header, which no blank line interrupts and no
\* key header but in noise or in a dated line.
Adjacent(p) ==
  /\ p.value <= p.key + 3
  /\ \A k \in (p.key + 1)..(p.value - 1) : lines[k].blank

Listed(p) ==
  /\ lines[p.key].ns
  /\ \E f \in (p.key + 1)..(p.value - 1) :
       /\ \A k \in (p.key + 1)..(f - 1) : lines[k].blank
       /\ \A k \in f..p.value : ~ lines[k].blank
       /\ \A k \in (f + 1)..p.value : lines[k].header => lines[k].noise \/ lines[k].dated

Belongs(p) ==
  p.key # p.value =>
    /\ ~ lines[p.value].header
    /\ ~ (lines[p.key].colon /\ lines[p.key].valued)
    /\ Adjacent(p) \/ Listed(p)

ValuesBelong == \A m \in 1..Len(pairs) : Belongs(pairs[m])

\* Why values belong: a list that is open began below its header, and nothing
\* that ends a list has come since.
ListOpen ==
  listKey # 0 =>
    /\ lines[listKey].ns /\ ~ (lines[listKey].colon /\ lines[listKey].valued)
    /\ \E f \in (listKey + 1)..(i - 1) :
         /\ \A k \in (listKey + 1)..(f - 1) : lines[k].blank
         /\ \A k \in f..(i - 1) : ~ lines[k].blank
         /\ \A k \in (f + 1)..(i - 1) : lines[k].header => lines[k].noise \/ lines[k].dated

ScanInv == TypeOK /\ InOrder /\ FieldsKept /\ ValuesBelong /\ ListOpen
=============================================================================
