----------------------------- MODULE DataLemmas ------------------------------
(***************************************************************************)
(* Facts about numbers, places and sequences that the proofs share.        *)
(***************************************************************************)
EXTENDS Integers, Sequences, FiniteSetTheorems, WellFoundedInduction, TLAPS

(***************************************************************************)
(* A set of numbers that is not empty has a least one.                     *)
(***************************************************************************)
LEMMA LeastNumber ==
  ASSUME NEW S \in SUBSET Nat, S # {}
  PROVE  \E x \in S : \A y \in S : x <= y
<1> DEFINE R == {p \in Nat \X Nat : p[1] < p[2]}
<1>1. IsWellFoundedOn(R, Nat)
  BY NatLessThanWellFounded DEF OpToRel
<1>2. \E x \in S : \A y \in S : ~ (<<y, x>> \in R)
  <2> HIDE DEF R
  <2> QED BY <1>1, WFMin
<1>3. \A x, y \in Nat : y < x => <<y, x>> \in R
  OBVIOUS
<1> HIDE DEF R
<1>4. \E x \in S : \A y \in S : ~ (y < x)
  BY <1>2, <1>3, Zenon
<1>5. QED
  BY <1>4

(***************************************************************************)
(* Induction: a set of numbers that has 0 and, with each number, the next  *)
(* one has them all.                                                       *)
(***************************************************************************)
LEMMA Induction ==
  ASSUME NEW S \in SUBSET Nat, 0 \in S, \A n \in S : n + 1 \in S
  PROVE  S = Nat
<1> SUFFICES ASSUME Nat \ S # {} PROVE FALSE
  OBVIOUS
<1>1. PICK x \in Nat \ S : \A y \in Nat \ S : x <= y
  <2>1. Nat \ S \in SUBSET Nat
    OBVIOUS
  <2>2. QED
    BY <2>1, LeastNumber
<1>2. x # 0 /\ x - 1 \in Nat /\ ~ (x <= x - 1) /\ (x - 1) + 1 = x
  OBVIOUS
<1>3. x - 1 \in S
  BY <1>1, <1>2
<1>4. QED
  BY <1>2, <1>3

(***************************************************************************)
(* Recursion over the numbers is well defined: there is a function that    *)
(* begins with base and goes on by step.  The proof puts it together from  *)
(* the functions on 0..n that do so, of which there is one for every n.    *)
(***************************************************************************)
Recurses(f, S, base, step) ==
  f \in [Nat -> S] /\ f[0] = base /\ \A n \in Nat : f[n + 1] = step[n + 1][f[n]]

LEMMA Recursion ==
  ASSUME NEW S, NEW base \in S, NEW step \in [Nat -> [S -> S]]
  PROVE  \E f : Recurses(f, S, base, step)
<1> DEFINE Begins(n, h) ==
             /\ h \in [0..n -> S] /\ h[0] = base
             /\ \A k \in 0..(n - 1) : h[k + 1] = step[k + 1][h[k]]
<1>1. ASSUME NEW m \in Nat, NEW n \in Nat, NEW g, NEW h, Begins(m, g), Begins(n, h),
             NEW k \in Nat, k <= m, k <= n
      PROVE  g[k] = h[k]
  <2> DEFINE Same == {j \in Nat : j <= m /\ j <= n => g[j] = h[j]}
  <2>1. 0 \in Same
    BY <1>1
  <2>2. ASSUME NEW j \in Same PROVE j + 1 \in Same
    <3>1. CASE j + 1 <= m /\ j + 1 <= n
      <4>1. j \in 0..(m - 1) /\ j \in 0..(n - 1) /\ j <= m /\ j <= n
        BY <3>1
      <4>2. QED
        BY <1>1, <2>2, <4>1
    <3>2. QED
      BY <3>1
  <2> HIDE DEF Same
  <2>3. Same \in SUBSET Nat
    BY DEF Same
  <2>4. Same = Nat
    BY <2>1, <2>2, <2>3, Induction
  <2>5. QED
    BY <1>1, <2>4 DEF Same
<1>2. ASSUME NEW n \in Nat PROVE \E h : Begins(n, h)
  <2> DEFINE Some == {j \in Nat : \E h : Begins(j, h)}
  <2>1. 0 \in Some
    <3>1. Begins(0, [k \in 0..0 |-> base])
      OBVIOUS
    <3>2. QED
      BY <3>1
  <2>2. ASSUME NEW j \in Some PROVE j + 1 \in Some
    <3>1. PICK h : Begins(j, h)
      BY <2>2
    <3> DEFINE g == [k \in 0..(j + 1) |-> IF k <= j THEN h[k] ELSE step[j + 1][h[j]]]
    <3>2. h[j] \in S /\ step[j + 1][h[j]] \in S
      <4>1. j \in 0..j /\ j + 1 \in Nat
        OBVIOUS
      <4>2. QED
        BY <3>1, <4>1
    <3>3. g \in [0..(j + 1) -> S]
      <4>1. \A k \in 0..(j + 1) : k <= j => k \in 0..j
        OBVIOUS
      <4>2. QED
        BY <3>1, <3>2, <4>1
    <3>4. g[0] = base
      BY <3>1
    <3>5. ASSUME NEW k \in 0..((j + 1) - 1) PROVE g[k + 1] = step[k + 1][g[k]]
      <4>1. k \in 0..(j + 1) /\ k + 1 \in 0..(j + 1) /\ k <= j
        OBVIOUS
      <4>2. g[k] = h[k]
        BY <4>1
      <4>3. CASE k = j
        BY <4>1, <4>2, <4>3
      <4>4. CASE k \in 0..(j - 1)
        BY <3>1, <4>1, <4>2, <4>4
      <4>5. QED
        BY <4>3, <4>4
    <3> HIDE DEF g
    <3>6. Begins(j + 1, g)
      BY <3>3, <3>4, <3>5
    <3>7. QED
      BY <3>6
  <2> HIDE DEF Some
  <2>3. Some \in SUBSET Nat
    BY DEF Some
  <2>4. Some = Nat
    BY <2>1, <2>2, <2>3, Induction
  <2>5. QED
    BY <2>4 DEF Some
<1> DEFINE H(n) == CHOOSE h : Begins(n, h)
           f == [n \in Nat |-> H(n)[n]]
<1>3. ASSUME NEW n \in Nat PROVE Begins(n, H(n))
  BY <1>2
<1> HIDE DEF H
<1>4. ASSUME NEW n \in Nat PROVE f[n] \in S
  <2>1. n \in 0..n
    OBVIOUS
  <2>2. QED
    BY <1>3, <2>1
<1>5. f[0] = base
  BY <1>3
<1>6. ASSUME NEW n \in Nat PROVE f[n + 1] = step[n + 1][f[n]]
  <2>1. n \in 0..((n + 1) - 1) /\ n + 1 \in Nat /\ n <= n + 1 /\ n <= n
    OBVIOUS
  <2>2. H(n + 1)[n + 1] = step[n + 1][H(n + 1)[n]]
    BY <1>3, <2>1
  <2>3. H(n + 1)[n] = H(n)[n]
    <3>1. Begins(n + 1, H(n + 1)) /\ Begins(n, H(n))
      BY <1>3, <2>1
    <3> HIDE DEF Begins
    <3>2. QED
      BY <1>1, <2>1, <3>1
  <2>4. QED
    BY <2>1, <2>2, <2>3
<1> HIDE DEF f
<1>7. f \in [Nat -> S]
  BY <1>4 DEF f
<1>8. QED
  BY <1>5, <1>6, <1>7 DEF Recurses

\* A product of numbers is one.
LEMMA ProductType == \A x, y \in Nat : x * y \in Nat
  OBVIOUS

\* A number is so often the divisor and a remainder ...
LEMMA Division ==
  ASSUME NEW a \in Nat, NEW b \in Nat \ {0}
  PROVE  a % b \in 0..(b - 1) /\ a \div b \in Nat /\ (a \div b) * b + (a % b) = a
<1>1. a % b \in 0..(b - 1) /\ a \div b \in Nat
  OBVIOUS
<1>2. \A x, y \in Int : y > 0 => (x \div y) * y + (x % y) = x
  OBVIOUS
<1>3. a \in Int /\ b \in Int /\ b > 0
  OBVIOUS
<1>4. (a \div b) * b + (a % b) = a
  BY <1>2, <1>3, Zenon
<1> QED BY <1>1, <1>4

Divides(a, b, c, r) == a = b * c + r

\* ... and what it is so often, with a remainder that small, is the quotient.
LEMMA DivisionIs ==
  ASSUME NEW b \in Int, NEW c \in Nat \ {0}, NEW r \in 0..(c - 1), NEW a \in Nat, Divides(a, b, c, r)
  PROVE  a \div c = b /\ a % c = r
<1> DEFINE x == a \div c
           y == a % c
<1>0. a = b * c + r
  BY DEF Divides
<1>1. x \in Nat /\ y \in 0..(c - 1) /\ x * c + y = a
  BY Division
<1> HIDE DEF x, y
<1>2. (x - b) * c = r - y
  <2>1. (x - b) * c = x * c - b * c
    BY <1>1
  <2>2. x * c \in Int /\ b * c \in Int
    BY <1>1
  <2> DEFINE u == x * c
             v == b * c
  <2>3. u \in Int /\ v \in Int /\ u + y = a /\ a = v + r
    BY <1>0, <1>1, <2>2
  <2> HIDE DEF u, v
  <2>4. u - v = r - y
    BY <1>1, <2>3
  <2> QED BY <2>1, <2>4 DEF u, v
<1>3. x = b
  <2> DEFINE z == x - b
  <2>1. z \in Int /\ z * c = r - y
    BY <1>1, <1>2
  <2> HIDE DEF z
  <2>2. CASE z >= 1
    <3>1. z * c >= c
      BY <2>1, <2>2
    <3> QED BY <1>1, <2>1, <3>1
  <2>3. CASE z <= -1
    <3>1. z * c <= -c
      BY <2>1, <2>3
    <3> QED BY <1>1, <2>1, <3>1
  <2>4. CASE z = 0
    BY <1>1, <2>4 DEF z
  <2> QED BY <2>1, <2>2, <2>3, <2>4
<1>4. y = r
  <2>1. b * c \in Int
    OBVIOUS
  <2> DEFINE v == b * c
  <2>2. v \in Int /\ v + y = v + r
    BY <1>0, <1>1, <1>3, <2>1
  <2> HIDE DEF v
  <2> QED BY <1>1, <2>2
<1> QED BY <1>3, <1>4 DEF x, y

-----------------------------------------------------------------------------
(* Counting the places of a sequence.                                      *)

\* 1..m has m members.
LEMMA Interval == \A m \in Nat : IsFiniteSet(1..m) /\ Cardinality(1..m) = m
  <1> TAKE m \in Nat
  <1>1. 1 \in Int /\ m \in Int
    OBVIOUS
  <1>2. IsFiniteSet(1..m) /\ Cardinality(1..m) = IF 1 > m THEN 0 ELSE m - 1 + 1
    BY <1>1, FS_Interval
  <1> QED BY <1>2

\* RankIn(S, x): how many members of S, a set of places, are up to place x.
UpTo(S, x) == S \cap (1..x)

RankIn(S, x) == Cardinality(UpTo(S, x))

\* It is a number, and no more than S has members.
LEMMA RankType ==
  ASSUME NEW m \in Nat, NEW S \in SUBSET (1..m), NEW x
  PROVE  /\ IsFiniteSet(S) /\ IsFiniteSet(UpTo(S, x)) /\ Cardinality(S) \in Nat
         /\ RankIn(S, x) \in Nat /\ RankIn(S, x) <= Cardinality(S) /\ Cardinality(S) <= m
<1>1. IsFiniteSet(1..m) /\ Cardinality(1..m) = m
  BY Interval
<1>2. IsFiniteSet(S) /\ Cardinality(S) <= m
  BY <1>1, FS_Subset
<1>3. IsFiniteSet(UpTo(S, x)) /\ Cardinality(UpTo(S, x)) <= Cardinality(S)
  <2>1. UpTo(S, x) \in SUBSET S
    BY DEF UpTo
  <2> QED BY <1>2, <2>1, FS_Subset
<1> QED BY <1>2, <1>3, FS_CardinalityType DEF RankIn

\* One more place: its own member.
LEMMA RankStep ==
  ASSUME NEW m \in Nat, NEW S \in SUBSET (1..m), NEW x \in Nat \ {0}
  PROVE  RankIn(S, x) = RankIn(S, x - 1) + IF x \in S THEN 1 ELSE 0
<1> DEFINE T == UpTo(S, x - 1)
<1>1. IsFiniteSet(T) /\ x \notin T /\ Cardinality(T) \in Nat
  <2>1. x \notin T
    BY DEF UpTo
  <2> QED BY <2>1, RankType, FS_CardinalityType
<1>2. CASE x \in S
  <2>1. UpTo(S, x) = T \cup {x}
    BY <1>2 DEF UpTo
  <2> HIDE DEF T
  <2>2. Cardinality(T \cup {x}) = Cardinality(T) + 1
    BY <1>1, FS_AddElement
  <2> QED BY <1>2, <2>1, <2>2 DEF RankIn, T
<1>3. CASE x \notin S
  <2>1. UpTo(S, x) = T
    BY <1>3 DEF UpTo
  <2> HIDE DEF T
  <2>2. RankIn(S, x) = Cardinality(T)
    BY <2>1 DEF RankIn
  <2> QED BY <1>1, <1>3, <2>2 DEF RankIn, T
<1> QED BY <1>2, <1>3

\* A member is one more than are up to a place before it.
LEMMA RankMore ==
  ASSUME NEW m \in Nat, NEW S \in SUBSET (1..m), NEW x \in Nat, NEW y \in Nat, x < y, y \in S
  PROVE  RankIn(S, x) + 1 <= RankIn(S, y)
<1> DEFINE T == UpTo(S, x)
           U == UpTo(S, y)
<1>1. IsFiniteSet(T) /\ y \notin T /\ Cardinality(T) \in Nat /\ IsFiniteSet(U)
  <2>1. y \notin T
    BY DEF UpTo
  <2> QED BY <2>1, RankType, FS_CardinalityType
<1>2. T \cup {y} \in SUBSET U
  BY DEF UpTo
<1> HIDE DEF T, U
<1>3. Cardinality(T \cup {y}) = Cardinality(T) + 1 /\ Cardinality(T \cup {y}) <= Cardinality(U)
  BY <1>1, <1>2, FS_AddElement, FS_Subset
<1> QED BY <1>3 DEF RankIn, T, U

\* The rank grows with the place.
LEMMA RankUpTo ==
  ASSUME NEW m \in Nat, NEW S \in SUBSET (1..m), NEW x \in Nat, NEW y \in Nat, x <= y
  PROVE  RankIn(S, x) <= RankIn(S, y)
<1>1. UpTo(S, x) \in SUBSET UpTo(S, y)
  BY DEF UpTo
<1>2. IsFiniteSet(UpTo(S, y))
  BY RankType
<1> QED BY <1>1, <1>2, FS_Subset DEF RankIn

\* A member that is added counts from its place on.
LEMMA RankAdd ==
  ASSUME NEW m \in Nat, NEW S \in SUBSET (1..m), NEW x \in 1..m, x \notin S, NEW y \in Nat
  PROVE  /\ RankIn(S \cup {x}, y) = RankIn(S, y) + IF x <= y THEN 1 ELSE 0
         /\ Cardinality(S \cup {x}) = Cardinality(S) + 1
<1> DEFINE T == UpTo(S, y)
           U == UpTo(S \cup {x}, y)
<1>1. IsFiniteSet(T) /\ x \notin T /\ Cardinality(T) \in Nat /\ IsFiniteSet(S)
  <2>1. x \notin T
    BY DEF UpTo
  <2> QED BY <2>1, RankType, FS_CardinalityType
<1>2. x <= y => U = T \cup {x}
  BY DEF UpTo
<1>3. ~ (x <= y) => U = T
  BY DEF UpTo
<1> HIDE DEF T, U
<1>4. Cardinality(S \cup {x}) = Cardinality(S) + 1 /\ Cardinality(T \cup {x}) = Cardinality(T) + 1
  BY <1>1, FS_AddElement
<1>5. Cardinality(U) = Cardinality(T) + IF x <= y THEN 1 ELSE 0
  BY <1>1, <1>2, <1>3, <1>4
<1> QED BY <1>4, <1>5 DEF RankIn, T, U

\* All members are up to the last place, none is up to 0.
LEMMA RankAll ==
  ASSUME NEW m \in Nat, NEW S \in SUBSET (1..m)
  PROVE  RankIn(S, m) = Cardinality(S) /\ RankIn(S, 0) = 0
<1>1. UpTo(S, m) = S
  BY DEF UpTo
<1>2. UpTo(S, 0) = {}
  BY DEF UpTo
<1> QED BY <1>1, <1>2, FS_EmptySet DEF RankIn

-----------------------------------------------------------------------------
(* Sequences of numbers.                                                   *)

\* s and u have the same first m members.
Alike(s, u, m) == \A x \in 1..m : s[x] = u[x]

\* Sequences of one length with the same members are the same.
LEMMA SameSeq ==
  ASSUME NEW A, NEW s \in Seq(A), NEW u \in Seq(A), Len(s) = Len(u), Alike(s, u, Len(s))
  PROVE  s = u
  BY DEF Alike

\* What stands where in a concatenation, ...
LEMMA ConcatIs ==
  ASSUME NEW s \in Seq(Nat), NEW u \in Seq(Nat)
  PROVE  /\ s \o u \in Seq(Nat) /\ Len(s) \in Nat /\ Len(u) \in Nat
         /\ Len(s \o u) = Len(s) + Len(u)
         /\ \A x \in 1..Len(s) : (s \o u)[x] = s[x]
         /\ \A x \in 1..Len(u) : (s \o u)[Len(s) + x] = u[x]
  OBVIOUS

\* ... in what is left behind place x, ...
LEMMA SuffixIs ==
  ASSUME NEW s \in Seq(Nat), NEW x \in 0..Len(s)
  PROVE  LET f == SubSeq(s, x + 1, Len(s))
         IN /\ f \in Seq(Nat) /\ Len(f) = Len(s) - x
            /\ \A y \in 1..(Len(s) - x) : f[y] = s[x + y]
<1>1. Len(s) \in Nat /\ x \in Nat /\ x <= Len(s)
  OBVIOUS
<1> QED BY <1>1

\* ... and in what is before it.
LEMMA PrefixIs ==
  ASSUME NEW s \in Seq(Nat), NEW x \in 0..Len(s)
  PROVE  SubSeq(s, 1, x - 1) = [y \in 1..(x - 1) |-> s[y]]
  OBVIOUS

\* A sequence is cut at place x: what is appended goes to the second part.
LEMMA SlicesMore ==
  ASSUME NEW s \in Seq(Nat), NEW c \in Nat, NEW x \in 0..Len(s)
  PROVE  /\ SubSeq(Append(s, c), 1, x - 1) = SubSeq(s, 1, x - 1)
         /\ SubSeq(Append(s, c), x + 1, Len(Append(s, c))) = Append(SubSeq(s, x + 1, Len(s)), c)
         /\ SubSeq(s, x + 1, Len(s)) \in Seq(Nat)
<1> DEFINE u == Append(s, c)
           a == SubSeq(u, 1, x - 1)
           b == SubSeq(s, 1, x - 1)
           e == SubSeq(u, x + 1, Len(u))
           f == SubSeq(s, x + 1, Len(s))
           g == Append(f, c)
<1>1. /\ u \in Seq(Nat) /\ Len(s) \in Nat /\ Len(u) = Len(s) + 1 /\ u[Len(s) + 1] = c
      /\ \A y \in 1..Len(s) : u[y] = s[y]
  OBVIOUS
<1> HIDE DEF u
<1>2. a = b
  <2>1. \A y \in 1..(x - 1) : u[y] = s[y]
    <3> TAKE y \in 1..(x - 1)
    <3>1. y \in 1..Len(s)
      BY <1>1
    <3> QED BY <1>1, <3>1
  <2>2. [y \in 1..(x - 1) |-> u[y]] = [y \in 1..(x - 1) |-> s[y]]
    BY <2>1
  <2>3. x \in 0..Len(u)
    BY <1>1
  <2>4. a = [y \in 1..(x - 1) |-> u[y]]
    BY <1>1, <2>3, PrefixIs
  <2>5. b = [y \in 1..(x - 1) |-> s[y]]
    BY PrefixIs
  <2> QED BY <2>2, <2>4, <2>5
<1>3. e \in Seq(Nat) /\ Len(e) = Len(s) + 1 - x /\ \A y \in 1..(Len(s) + 1 - x) : e[y] = u[x + y]
  <2>1. x \in 0..Len(u)
    BY <1>1
  <2>2. e \in Seq(Nat) /\ Len(e) = Len(u) - x /\ \A y \in 1..(Len(u) - x) : e[y] = u[x + y]
    BY <1>1, <2>1, SuffixIs
  <2> QED BY <1>1, <2>2
<1>4. f \in Seq(Nat) /\ Len(f) = Len(s) - x /\ \A y \in 1..(Len(s) - x) : f[y] = s[x + y]
  BY SuffixIs
<1> HIDE DEF a, b, e, f
<1>5. g \in Seq(Nat) /\ Len(g) = Len(s) + 1 - x /\ g[Len(s) - x + 1] = c
      /\ \A y \in 1..(Len(s) - x) : g[y] = f[y]
  BY <1>1, <1>4
<1>6. ASSUME NEW y \in 1..(Len(s) + 1 - x) PROVE e[y] = g[y]
  <2>1. CASE y \in 1..(Len(s) - x)
    <3>1. x + y \in 1..Len(s)
      BY <1>1, <2>1
    <3> QED BY <1>1, <1>3, <1>4, <1>5, <2>1, <3>1
  <2>2. CASE y = Len(s) - x + 1
    <3>1. x + y = Len(s) + 1
      BY <1>1, <2>2
    <3> QED BY <1>1, <1>3, <1>5, <2>2, <3>1
  <2>3. y \in 1..(Len(s) - x) \/ y = Len(s) - x + 1
    <3>1. \A l, p \in Nat : \A z \in 1..(l + 1 - p) : z \in 1..(l - p) \/ z = l - p + 1
      OBVIOUS
    <3>2. x \in Nat /\ Len(s) \in Nat
      BY <1>1
    <3> QED BY <3>1, <3>2, Zenon
  <2> QED BY <2>1, <2>2, <2>3
<1> HIDE DEF g
<1>7. e = g
  <2>1. Len(e) = Len(g) /\ Alike(e, g, Len(e))
    BY <1>3, <1>5, <1>6 DEF Alike
  <2> QED BY <1>3, <1>5, <2>1, SameSeq
<1> QED BY <1>2, <1>4, <1>7 DEF u, a, b, e, f, g

\* t has the members of l that stand at the places of S, in their order.
Picks(t, l, S) == Len(t) = Cardinality(S) /\ \A x \in S : t[RankIn(S, x)] = l[x]

\* One more place: u has its member behind those of the places before it.
LEMMA PicksMore ==
  ASSUME NEW m \in Nat, NEW S \in SUBSET (1..m), NEW l, NEW x \in 1..m, x \notin S,
         NEW t, Picks(t, l, S), NEW u, Len(u) = Len(t) + 1,
         u[RankIn(S, x) + 1] = l[x],
         \A y \in 1..RankIn(S, x) : u[y] = t[y],
         \A y \in (RankIn(S, x) + 1)..Len(t) : u[y + 1] = t[y]
  PROVE  Picks(u, l, S \cup {x})
<1> DEFINE r == RankIn(S, x)
<1>1. r \in Nat /\ Cardinality(S) \in Nat /\ Len(t) = Cardinality(S)
  BY RankType DEF Picks
<1>4. \A y \in Nat : RankIn(S \cup {x}, y) = RankIn(S, y) + IF x <= y THEN 1 ELSE 0
  BY RankAdd
<1>5. \A y \in Nat : IF x <= y THEN RankIn(S \cup {x}, y) = RankIn(S, y) + 1
                              ELSE RankIn(S \cup {x}, y) = RankIn(S, y)
  <2> TAKE y \in Nat
  <2>1. RankIn(S \cup {x}, y) = RankIn(S, y) + IF x <= y THEN 1 ELSE 0
    BY <1>4
  <2>2. RankIn(S, y) \in Nat
    BY RankType
  <2> QED BY <2>1, <2>2
<1>6. \A y, z \in Nat : y <= z => RankIn(S, y) <= RankIn(S, z)
  BY RankUpTo
<1>7. \A y, z \in Nat : y < z /\ z \in S => RankIn(S, y) + 1 <= RankIn(S, z)
  BY RankMore
<1>8. x \in Nat /\ x <= x
  OBVIOUS
<1>2. Len(u) = Cardinality(S \cup {x})
  <2>1. Cardinality(S \cup {x}) = Cardinality(S) + 1
    <3>1. 0 \in Nat
      OBVIOUS
    <3> QED BY <3>1, RankAdd
  <2> QED BY <1>1, <2>1
<1>3. u[RankIn(S \cup {x}, x)] = l[x]
  <2>1. RankIn(S \cup {x}, x) = r + 1
    BY <1>5, <1>8
  <2> QED BY <2>1
<1>9. ASSUME NEW y \in S PROVE u[RankIn(S \cup {x}, y)] = l[y]
  <2>1. y \in Nat /\ y # x /\ y > 0
    OBVIOUS
  <2> DEFINE p == RankIn(S, y)
  <2>2. p \in Nat /\ p <= Cardinality(S) /\ t[p] = l[y]
    BY <1>9, RankType DEF Picks
  <2>3. 0 + 1 <= p
    <3>1. 0 \in Nat /\ RankIn(S, 0) = 0 /\ 0 < y
      BY <2>1, RankAll
    <3> QED BY <2>1, <3>1, RankMore
  <2>4. CASE y < x
    <3>1. RankIn(S \cup {x}, y) = p /\ p <= r
      <4>1. p <= r
        BY <1>6, <1>8, <2>1, <2>4
      <4>2. ~ (x <= y)
        BY <1>8, <2>1, <2>4
      <4> QED BY <1>5, <2>1, <4>1, <4>2
    <3>2. p \in 1..r
      BY <1>1, <2>2, <2>3, <3>1
    <3> QED BY <2>2, <3>1, <3>2
  <2>5. CASE x < y
    <3>1. RankIn(S \cup {x}, y) = p + 1
      <4>1. x <= y
        BY <1>8, <2>1, <2>5
      <4> QED BY <1>5, <2>1, <4>1
    <3>2. r + 1 <= p
      BY <1>7, <1>8, <2>1, <2>5
    <3>3. p \in (r + 1)..Len(t)
      <4> HIDE DEF p, r
      <4> QED BY <1>1, <2>2, <3>2
    <3> QED BY <2>2, <3>1, <3>3
  <2> QED BY <2>1, <2>4, <2>5
<1> QED BY <1>2, <1>3, <1>9 DEF Picks

\* The members of all places are the sequence.
LEMMA PicksAll ==
  ASSUME NEW l \in Seq(Nat), NEW t \in Seq(Nat), Picks(t, l, 1..Len(l))
  PROVE  t = l
<1>1. Len(l) \in Nat /\ Cardinality(1..Len(l)) = Len(l)
  BY Interval
<1>2. Len(t) = Len(l)
  BY <1>1 DEF Picks
<1>3. ASSUME NEW x \in 1..Len(l) PROVE t[x] = l[x]
  <2>1. UpTo(1..Len(l), x) = 1..x /\ x \in Nat
    BY <1>1 DEF UpTo
  <2>2. RankIn(1..Len(l), x) = x
    BY <2>1, Interval DEF RankIn
  <2> QED BY <2>2 DEF Picks
<1> QED BY <1>2, <1>3
=============================================================================
