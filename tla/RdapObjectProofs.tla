--------------------------- MODULE RdapObjectProofs ---------------------------
(***************************************************************************)
(* RdapObject for every object: any number of events, name servers,        *)
(* entities and card properties, nested in any way.  The first lemmas say  *)
(* how one more event, property or visit changes what the declarative      *)
(* definitions call for; ObjectStepInv puts them together.                 *)
(***************************************************************************)
EXTENDS RdapObject, DataLemmas, FiniteSetTheorems, TLAPS

(***************************************************************************)
(* Before anything is read nothing is said.                                *)
(***************************************************************************)
LEMMA SaysNothing ==
  ASSUME NEW card, NEW e, NEW f \in Fields
  PROVE  Says(card, e, 0, f, None)
  BY DEF Says

(***************************************************************************)
(* What a card says of a field is one value.                               *)
(***************************************************************************)
LEMMA SaysOneValue ==
  ASSUME NEW card, NEW e, NEW n \in Nat, NEW f, NEW v, NEW w,
         Says(card, e, n, f, v), Says(card, e, n, f, w)
  PROVE  v = w
  BY DEF Says, IsLast, IsFirst

\* What property j of a card of e has to say.
Worth(card, e, j) == IF card[j].empty THEN None ELSE <<e, j>>

\* What a card with one more property says of a field, after v.
SaysNext(card, e, j, f, v) ==
  IF card[j].field # f THEN v
  ELSE IF f \in {"name", "organization"} THEN Worth(card, e, j)
  ELSE IF v = None THEN Worth(card, e, j) ELSE v

(***************************************************************************)
(* One more property of a card.                                            *)
(***************************************************************************)
LEMMA SaysMore ==
  ASSUME NEW card \in Seq(PropType), NEW e \in Nat \ {0}, NEW n \in 0..(Len(card) - 1),
         NEW f \in Fields, NEW v, Says(card, e, n, f, v)
  PROVE  Says(card, e, n + 1, f, SaysNext(card, e, n + 1, f, v))
<1> SUFFICES ASSUME NEW w, w = IF card[n + 1].empty THEN None ELSE <<e, n + 1>>
             PROVE  Says(card, e, n + 1, f,
                         IF card[n + 1].field # f THEN v
                         ELSE IF f \in {"name", "organization"} THEN w
                         ELSE IF v = None THEN w ELSE v)
  BY DEF SaysNext, Worth
<1> DEFINE Of(m) == {j \in 1..m : card[j].field = f}
           Full(m) == {j \in Of(m) : ~ card[j].empty}
<1>1. n \in Nat /\ 1..(n + 1) = 1..n \cup {n + 1}
  OBVIOUS
<1>2. /\ Of(n + 1) = IF card[n + 1].field = f THEN Of(n) \cup {n + 1} ELSE Of(n)
      /\ Full(n + 1) = IF card[n + 1].field = f /\ ~ card[n + 1].empty
                       THEN Full(n) \cup {n + 1} ELSE Full(n)
  BY <1>1
<1>3. \A j : <<e, j>> # None
  BY DEF None
<1>4. CASE f \in {"name", "organization"}
  <2>1. CASE card[n + 1].field = f
    <3>1. n + 1 \in Of(n + 1) /\ IsLast(n + 1, Of(n + 1))
      BY <1>1, <1>2, <2>1 DEF IsLast
    <3>2. QED
      BY <1>4, <2>1, <3>1 DEF Says
  <2>2. CASE card[n + 1].field # f
    BY <1>2, <1>4, <2>2 DEF Says
  <2>3. QED
    BY <2>1, <2>2
<1>5. CASE f \notin {"name", "organization"}
  <2>1. CASE card[n + 1].field = f /\ ~ card[n + 1].empty
    <3>1. CASE Full(n) = {}
      <4>1. v = None /\ n + 1 \in Full(n + 1) /\ IsFirst(n + 1, Full(n + 1))
        BY <1>1, <1>2, <1>5, <2>1, <3>1 DEF Says, IsFirst
      <4>2. QED
        BY <1>5, <2>1, <4>1 DEF Says
    <3>2. CASE Full(n) # {}
      <4>1. PICK j \in Full(n) : IsFirst(j, Full(n)) /\ v = <<e, j>>
        BY <1>5, <3>2 DEF Says
      <4>2. j \in Full(n + 1) /\ IsFirst(j, Full(n + 1)) /\ v # None
        BY <1>1, <1>2, <1>3, <2>1, <4>1 DEF IsFirst
      <4>3. QED
        BY <1>5, <2>1, <4>1, <4>2 DEF Says
    <3>3. QED
      BY <3>1, <3>2
  <2>2. CASE ~ (card[n + 1].field = f /\ ~ card[n + 1].empty)
    <3>1. Full(n + 1) = Full(n)
      BY <1>2, <2>2
    <3>2. card[n + 1].field = f /\ v = None => w = v
      BY <2>2
    <3>3. QED
      BY <1>5, <3>1, <3>2 DEF Says
  <2>3. QED
    BY <2>1, <2>2
<1>6. QED
  BY <1>4, <1>5

(***************************************************************************)
(* One more visit: the sets that the record's people are defined by grow   *)
(* by it, or stay.                                                         *)
(***************************************************************************)
LEMMA AppendMore ==
  ASSUME NEW vs \in Seq(Ids), NEW e \in Ids
  PROVE  /\ Len(vs) \in Nat /\ Len(Append(vs, e)) = Len(vs) + 1
         /\ 1..Len(Append(vs, e)) = 1..Len(vs) \cup {Len(vs) + 1}
         /\ Append(vs, e)[Len(vs) + 1] = e
         /\ \A v \in 1..Len(vs) : Append(vs, e)[v] = vs[v]
  OBVIOUS

LEMMA InRoleMore ==
  ASSUME NEW o \in ObjectType, NEW vs \in Seq(Ids), NEW e \in Ids, NEW r
  PROVE  /\ InRole(o, vs, r) \subseteq 1..Len(vs)
         /\ InRole(o, Append(vs, e), r) = IF r \in o.entities[e].roles
                                         THEN InRole(o, vs, r) \cup {Len(vs) + 1}
                                         ELSE InRole(o, vs, r)
  BY AppendMore DEF InRole

LEMMA VocalMore ==
  ASSUME NEW o \in ObjectType, NEW vs \in Seq(Ids), NEW e \in Ids, NEW r, NEW f
  PROVE  /\ Vocal(o, vs, r, f) \subseteq 1..Len(vs)
         /\ Vocal(o, Append(vs, e), r, f) =
              IF r \in o.entities[e].roles /\ ~ Silent(o, e, f)
              THEN Vocal(o, vs, r, f) \cup {Len(vs) + 1} ELSE Vocal(o, vs, r, f)
  BY AppendMore, InRoleMore DEF Vocal

LEMMA IdentifiedMore ==
  ASSUME NEW o \in ObjectType, NEW vs \in Seq(Ids), NEW e \in Ids
  PROVE  /\ Identified(o, vs) \subseteq 1..Len(vs)
         /\ Identified(o, Append(vs, e)) =
              IF "registrar" \in o.entities[e].roles /\ o.entities[e].ianaID
              THEN Identified(o, vs) \cup {Len(vs) + 1} ELSE Identified(o, vs)
  BY AppendMore, InRoleMore DEF Identified

(***************************************************************************)
(* mergeContact is what a contact needs at one more visit.                 *)
(***************************************************************************)
LEMMA ContactMore ==
  ASSUME NEW o \in ObjectType, NEW vs \in Seq(Ids), NEW e \in Ids,
         NEW r, NEW f \in Fields, NEW dst, NEW src,
         Tells(o, vs, r, f, dst), CardSays(o, e, f, src)
  PROVE  Tells(o, Append(vs, e), r, f,
               IF r \in o.entities[e].roles THEN IF dst = None THEN src ELSE dst ELSE dst)
<1> DEFINE us == Append(vs, e)
<1>1. /\ Len(vs) \in Nat /\ us[Len(vs) + 1] = e /\ \A v \in 1..Len(vs) : us[v] = vs[v]
      /\ Vocal(o, us, r, f) = IF r \in o.entities[e].roles /\ ~ Silent(o, e, f)
                              THEN Vocal(o, vs, r, f) \cup {Len(vs) + 1}
                              ELSE Vocal(o, vs, r, f)
  BY AppendMore, VocalMore
<1> SUFFICES Tells(o, us, r, f,
                   IF r \in o.entities[e].roles THEN IF dst = None THEN src ELSE dst ELSE dst)
  OBVIOUS
<1> HIDE DEF us
<1>2. Vocal(o, vs, r, f) \subseteq 1..Len(vs)
  BY DEF Vocal, InRole
<1>3. CASE Vocal(o, vs, r, f) # {}
  <2>1. PICK v \in Vocal(o, vs, r, f) : IsFirst(v, Vocal(o, vs, r, f)) /\ CardSays(o, vs[v], f, dst)
    BY <1>3 DEF Tells
  <2>2. dst # None
    BY <2>1 DEF Vocal, Silent
  <2>3. v \in Vocal(o, us, r, f) /\ IsFirst(v, Vocal(o, us, r, f)) /\ us[v] = vs[v]
    BY <1>1, <1>2, <2>1 DEF IsFirst
  <2>4. QED
    BY <2>1, <2>2, <2>3 DEF Tells
<1>4. CASE Vocal(o, vs, r, f) = {}
  <2>1. dst = None
    BY <1>4 DEF Tells
  <2>2. CASE r \in o.entities[e].roles /\ ~ Silent(o, e, f)
    <3>1. Vocal(o, us, r, f) = {Len(vs) + 1} /\ IsFirst(Len(vs) + 1, Vocal(o, us, r, f))
      BY <1>1, <1>4, <2>2 DEF IsFirst
    <3>2. QED
      BY <1>1, <2>1, <2>2, <3>1 DEF Tells
  <2>3. CASE ~ (r \in o.entities[e].roles /\ ~ Silent(o, e, f))
    <3>1. Vocal(o, us, r, f) = {}
      BY <1>1, <1>4, <2>3
    <3>2. ASSUME r \in o.entities[e].roles PROVE src = None
      <4>1. CardSays(o, e, f, None)
        BY <2>3, <3>2 DEF Silent
      <4>2. /\ Len(o.entities[e].card) \in Nat
            /\ Says(o.entities[e].card, e, Len(o.entities[e].card), f, None)
            /\ Says(o.entities[e].card, e, Len(o.entities[e].card), f, src)
        BY <4>1 DEF CardSays, ObjectType, EntityType
      <4>3. QED
        BY <4>2, SaysOneValue
    <3>3. QED
      BY <2>1, <3>1, <3>2 DEF Tells
  <2>4. QED
    BY <2>2, <2>3
<1>5. QED
  BY <1>3, <1>4

(***************************************************************************)
(* So is the choice of the registrar's name and identifier.                *)
(***************************************************************************)
LEMMA RegistrarMore ==
  ASSUME NEW o \in ObjectType, NEW vs \in Seq(Ids), NEW e \in Ids,
         NEW name, NEW id, NameIs(o, vs, name), IdentifierIs(o, vs, id),
         NEW c, \A f \in Fields : CardSays(o, e, f, c[f]),
         NEW named,
         named = IF c["name"] # None THEN c["name"]
                 ELSE IF c["organization"] # None THEN c["organization"]
                 ELSE IF o.entities[e].handle THEN <<e, 0>> ELSE None
  PROVE  /\ NameIs(o, Append(vs, e), IF "registrar" \in o.entities[e].roles THEN named ELSE name)
         /\ IdentifierIs(o, Append(vs, e), IF "registrar" \in o.entities[e].roles /\ o.entities[e].ianaID
                                THEN e ELSE id)
<1> DEFINE us == Append(vs, e)
           R(s) == InRole(o, s, "registrar")
<1>1. /\ Len(vs) \in Nat /\ us[Len(vs) + 1] = e /\ \A v \in 1..Len(vs) : us[v] = vs[v]
      /\ R(us) = IF "registrar" \in o.entities[e].roles THEN R(vs) \cup {Len(vs) + 1} ELSE R(vs)
      /\ Identified(o, us) = IF "registrar" \in o.entities[e].roles /\ o.entities[e].ianaID
                             THEN Identified(o, vs) \cup {Len(vs) + 1} ELSE Identified(o, vs)
  BY AppendMore, InRoleMore, IdentifiedMore
<1> HIDE DEF us
<1>2. R(vs) \subseteq 1..Len(vs) /\ Identified(o, vs) \subseteq 1..Len(vs)
  BY DEF InRole, Identified
<1>3. ASSUME NEW f \in Fields PROVE Silent(o, e, f) <=> c[f] = None
  <2>1. /\ Len(o.entities[e].card) \in Nat
        /\ Says(o.entities[e].card, e, Len(o.entities[e].card), f, c[f])
    BY DEF CardSays, ObjectType, EntityType
  <2>2. Silent(o, e, f) <=> Says(o.entities[e].card, e, Len(o.entities[e].card), f, None)
    BY DEF Silent, CardSays
  <2>3. QED
    BY <2>1, <2>2, SaysOneValue
<1>4. Names(o, e, named)
  <2>1. "name" \in Fields /\ "organization" \in Fields
    BY DEF Fields
  <2>2. QED
    BY <1>3, <2>1 DEF Names
<1>5. NameIs(o, us, IF "registrar" \in o.entities[e].roles THEN named ELSE name)
  <2>1. CASE "registrar" \in o.entities[e].roles
    <3>1. Len(vs) + 1 \in R(us) /\ IsLast(Len(vs) + 1, R(us))
      BY <1>1, <1>2, <2>1 DEF IsLast
    <3>2. QED
      BY <1>1, <1>4, <2>1, <3>1 DEF NameIs
  <2>2. CASE "registrar" \notin o.entities[e].roles
    <3>1. R(us) = R(vs)
      BY <1>1, <2>2
    <3>2. \A v \in R(vs) : us[v] = vs[v]
      BY <1>1, <1>2
    <3>3. QED
      BY <2>2, <3>1, <3>2 DEF NameIs
  <2>3. QED
    BY <2>1, <2>2
<1>6. IdentifierIs(o, us, IF "registrar" \in o.entities[e].roles /\ o.entities[e].ianaID
                          THEN e ELSE id)
  <2>1. CASE "registrar" \in o.entities[e].roles /\ o.entities[e].ianaID
    <3>1. Len(vs) + 1 \in Identified(o, us) /\ IsLast(Len(vs) + 1, Identified(o, us))
      BY <1>1, <1>2, <2>1 DEF IsLast
    <3>2. QED
      BY <1>1, <2>1, <3>1 DEF IdentifierIs
  <2>2. CASE ~ ("registrar" \in o.entities[e].roles /\ o.entities[e].ianaID)
    <3>1. Identified(o, us) = Identified(o, vs)
      BY <1>1, <2>2
    <3>2. \A v \in Identified(o, vs) : us[v] = vs[v]
      BY <1>1, <1>2
    <3>3. QED
      BY <2>2, <3>1, <3>2 DEF IdentifierIs
  <2>3. QED
    BY <2>1, <2>2
<1>7. QED
  BY <1>5, <1>6 DEF us

(***************************************************************************)
(* A number above all of a set joins it, or does not.                      *)
(***************************************************************************)
LEMMA SetMore ==
  ASSUME NEW S, NEW n \in Nat \ {0}, \A m \in S : m \in Nat \ {0} /\ m < n,
         NEW b \in BOOLEAN, NEW T, T = IF b THEN S \cup {n} ELSE S, NEW k
  PROVE  /\ b => T # {} /\ IsLast(n, T)
         /\ LastOf(k, S) => LastOf(IF b THEN n ELSE k, T)
         /\ FirstOf(k, S) => FirstOf(IF b /\ k = 0 THEN n ELSE k, T)
<1>1. b => T # {} /\ IsLast(n, T)
  BY DEF IsLast
<1>2. ASSUME LastOf(k, S) PROVE LastOf(IF b THEN n ELSE k, T)
  BY <1>1, <1>2 DEF LastOf
<1>3. ASSUME FirstOf(k, S) PROVE FirstOf(IF b /\ k = 0 THEN n ELSE k, T)
  <2>1. CASE S = {}
    BY <1>3, <2>1 DEF FirstOf, IsFirst
  <2>2. CASE S # {}
    <3>1. k \in S /\ (\A m \in S : k <= m) /\ k # 0 /\ k \in Nat /\ k <= n
      BY <1>3, <2>2 DEF FirstOf, IsFirst
    <3>2. k \in T /\ \A m \in T : k <= m
      BY <3>1
    <3>3. QED
      BY <3>1, <3>2 DEF FirstOf, IsFirst
  <2>3. QED
    BY <2>1, <2>2
<1>4. QED
  BY <1>1, <1>2, <1>3

(***************************************************************************)
(* One more event: the set of its action grows by it, no other changes.    *)
(***************************************************************************)
LEMMA DatedMore ==
  ASSUME NEW o \in ObjectType, NEW n \in 1..Len(o.events), NEW action
  PROVE  /\ n \in Nat \ {0}
         /\ \A m \in Dated(o, n - 1, action) : m \in Nat \ {0} /\ m < n
         /\ (o.events[n].dated /\ o.events[n].action = action) \in BOOLEAN
         /\ Dated(o, n, action) = IF o.events[n].dated /\ o.events[n].action = action
                                  THEN Dated(o, n - 1, action) \cup {n}
                                  ELSE Dated(o, n - 1, action)
<1>1. n \in Nat \ {0} /\ 1..n = 1..(n - 1) \cup {n}
  BY DEF ObjectType
<1>2. QED
  BY <1>1 DEF Dated

\* The n-th event of o gives a date to an action, and the dates d become those
\* that the code makes of them.
EventIs(o, n, a) == o.events[n].dated /\ o.events[n].action = a

DatesWith(o, n, d) ==
  [created |-> IF EventIs(o, n, "registration") /\ d.created = 0 THEN n ELSE d.created,
   updated |-> IF EventIs(o, n, "last changed") THEN n
               ELSE IF EventIs(o, n, "database") /\ d.updated = 0 THEN n ELSE d.updated,
   expiry |-> IF EventIs(o, n, "expiration") THEN n ELSE d.expiry]

(***************************************************************************)
(* What the code writes is what one more event says of the dates.          *)
(***************************************************************************)
LEMMA DatesMore ==
  ASSUME NEW o \in ObjectType, NEW n \in 1..Len(o.events), NEW d, DatesSay(o, n - 1, d)
  PROVE  DatesSay(o, n, DatesWith(o, n, d))
<1> DEFINE Now(a) == EventIs(o, n, a)
           d2 == DatesWith(o, n, d)
<1>1. ASSUME NEW a
      PROVE  /\ Now(a) => Dated(o, n, a) # {} /\ IsLast(n, Dated(o, n, a))
             /\ ~ Now(a) => Dated(o, n, a) = Dated(o, n - 1, a)
             /\ \A k : LastOf(k, Dated(o, n - 1, a)) => LastOf(IF Now(a) THEN n ELSE k, Dated(o, n, a))
             /\ \A k : FirstOf(k, Dated(o, n - 1, a)) =>
                         FirstOf(IF Now(a) /\ k = 0 THEN n ELSE k, Dated(o, n, a))
  <2>1. PICK b \in BOOLEAN : b <=> Now(a)
    BY DEF EventIs
  <2>2. /\ n \in Nat \ {0}
        /\ \A m \in Dated(o, n - 1, a) : m \in Nat \ {0} /\ m < n
        /\ Dated(o, n, a) = IF b THEN Dated(o, n - 1, a) \cup {n} ELSE Dated(o, n - 1, a)
    <3>1. Dated(o, n, a) = IF Now(a) THEN Dated(o, n - 1, a) \cup {n} ELSE Dated(o, n - 1, a)
      BY DatedMore, Zenon DEF EventIs
    <3>2. n \in Nat \ {0} /\ \A m \in Dated(o, n - 1, a) : m \in Nat \ {0} /\ m < n
      BY DatedMore, Zenon
    <3>3. QED
      BY <2>1, <3>1, <3>2
  <2> DEFINE S == Dated(o, n - 1, a)
             T == Dated(o, n, a)
  <2>3. T = IF b THEN S \cup {n} ELSE S
    BY <2>2
  <2> HIDE DEF S, T
  <2>4. ASSUME NEW k
        PROVE  /\ b => T # {} /\ IsLast(n, T)
               /\ LastOf(k, S) => LastOf(IF b THEN n ELSE k, T)
               /\ FirstOf(k, S) => FirstOf(IF b /\ k = 0 THEN n ELSE k, T)
    <3>1. \A m \in S : m \in Nat \ {0} /\ m < n
      BY <2>2 DEF S
    <3>2. QED
      BY <2>2, <2>3, <3>1, SetMore, SMTT(30)
  <2>5. QED
    BY <2>1, <2>2, <2>4 DEF S, T
<1>2. /\ d2.created = IF Now("registration") /\ d.created = 0 THEN n ELSE d.created
      /\ d2.expiry = IF Now("expiration") THEN n ELSE d.expiry
      /\ d2.updated = IF Now("last changed") THEN n
                      ELSE IF Now("database") /\ d.updated = 0 THEN n ELSE d.updated
  BY DEF DatesWith
<1> HIDE DEF Now, d2
<1>3. FirstOf(d2.created, Dated(o, n, "registration")) /\ LastOf(d2.expiry, Dated(o, n, "expiration"))
  BY <1>1, <1>2 DEF DatesSay
<1>4. IF Dated(o, n, "last changed") = {} THEN FirstOf(d2.updated, Dated(o, n, "database"))
      ELSE IsLast(d2.updated, Dated(o, n, "last changed"))
  <2>1. CASE Now("last changed")
    BY <1>1, <1>2, <2>1
  <2>2. CASE ~ Now("last changed") /\ Dated(o, n - 1, "last changed") = {}
    <3>1. FirstOf(d.updated, Dated(o, n - 1, "database"))
      BY <2>2 DEF DatesSay
    <3>2. FirstOf(IF Now("database") /\ d.updated = 0 THEN n ELSE d.updated, Dated(o, n, "database"))
      BY <1>1, <3>1
    <3>3. QED
      BY <1>1, <1>2, <2>2, <3>2
  <2>3. CASE ~ Now("last changed") /\ Dated(o, n - 1, "last changed") # {}
    <3>1. IsLast(d.updated, Dated(o, n - 1, "last changed"))
      BY <2>3 DEF DatesSay
    <3>2. d.updated # 0
      <4>1. \A m \in Dated(o, n - 1, "last changed") : m \in Nat \ {0}
        BY DatedMore, Zenon
      <4>2. QED
        BY <3>1, <4>1 DEF IsLast
    <3>3. d2.updated = d.updated
      BY <1>2, <2>3, <3>2
    <3>4. Dated(o, n, "last changed") = Dated(o, n - 1, "last changed")
      BY <1>1, <2>3
    <3>5. QED
      BY <2>3, <3>1, <3>3, <3>4
  <2>4. QED
    BY <2>1, <2>2, <2>3
<1>5. QED
  BY <1>3, <1>4 DEF DatesSay, d2

-----------------------------------------------------------------------------
LEMMA ObjectInitInv == Init => ObjectInv
<1>1. SUFFICES ASSUME Init PROVE ObjectInv
  OBVIOUS
<1>2. object \in ObjectType /\ event = 1 /\ prop = 1 /\ ct = NoContact /\ visited = <<>>
  BY <1>1, ObjectAssumption DEF Init
<1>3. None \in ValueType /\ NoContact \in ContactType
  BY DEF None, NoContact, ValueType, ContactType
<1>4. TypeOK
  <2>1. object.events \in Seq(EventType) /\ object.servers \in Seq(Hosts \cup {NoHost})
        /\ object.top \in Seq(Ids)
    BY <1>2 DEF ObjectType
  <2>2. people \in [registrar : ValueType, registrarID : Ids \cup {0},
                   contact : [ContactRoles -> ContactType]]
    BY <1>1, <1>3 DEF Init
  <2>3. QED
    BY <1>1, <1>2, <1>3, <2>1, <2>2 DEF Init, TypeOK
<1>5. DatesTell
  <2>1. \A a : Dated(object, 0, a) = {}
    BY DEF Dated
  <2>2. event - 1 = 0 /\ dates.created = 0 /\ dates.expiry = 0 /\ dates.updated = 0
    BY <1>1 DEF Init
  <2>3. QED
    BY <2>1, <2>2 DEF DatesTell, DatesSay, FirstOf, LastOf
<1>6. CardTells
  <2>1. ASSUME Visiting
        PROVE  prop <= Len(Entity.card) + 1 /\ \A f \in Fields : Says(Entity.card, Here, prop - 1, f, ct[f])
    <3>1. Here \in Ids
      BY <1>2, <2>1, <1>4 DEF Here, Visiting, TypeOK
    <3>2. Len(Entity.card) \in Nat
      BY <1>2, <3>1 DEF Entity, ObjectType, EntityType
    <3>3. \A f \in Fields : Says(Entity.card, Here, 0, f, None)
      BY SaysNothing
    <3>4. QED
      BY <1>2, <3>2, <3>3 DEF NoContact
  <2>2. QED
    BY <1>2, <2>1 DEF CardTells
<1>7. \A r, f : InRole(object, visited, r) = {} /\ Vocal(object, visited, r, f) = {}
            /\ Identified(object, visited) = {}
  BY <1>2 DEF InRole, Vocal, Identified
<1>8. ContactsTell
  BY <1>1, <1>7 DEF Init, ContactsTell, Tells, NoContact
<1>9. RegistrarTells
  BY <1>1, <1>7 DEF Init, RegistrarTells, NameIs, IdentifierIs
<1>10. QED
  BY <1>4, <1>5, <1>6, <1>8, <1>9 DEF ObjectInv

(***************************************************************************)
(* A step outside the walk leaves what the walk told.                      *)
(***************************************************************************)
LEMMA WalkRests ==
  ASSUME CardTells, ContactsTell, RegistrarTells, TypeOK,
         UNCHANGED <<object, walkVars>>,
         at' # "walk" => at # "walk" \/ todo = <<>>,
         at' = "walk" => at = "walk" \/ (prop = 1 /\ ct = NoContact)
  PROVE  CardTells' /\ ContactsTell' /\ RegistrarTells'
<1>1. ContactsTell' /\ RegistrarTells'
  BY DEF ContactsTell, RegistrarTells, walkVars
<1>2. CardTells'
  <2>1. CASE Visiting' /\ ~ Visiting
    <3>1. prop = 1 /\ ct = NoContact /\ todo # <<>>
      BY <2>1 DEF CardTells, Visiting, walkVars
    <3>2. Here \in Ids
      BY <3>1 DEF TypeOK, Here
    <3>3. Len(Entity.card) \in Nat
      BY <3>2, SMTT(30) DEF TypeOK, Entity, ObjectType, EntityType
    <3>4. \A f \in Fields : Says(Entity.card, Here, 0, f, None)
      BY SaysNothing
    <3>5. prop <= Len(Entity.card) + 1 /\ \A f \in Fields : Says(Entity.card, Here, prop - 1, f, ct[f])
      BY <3>1, <3>3, <3>4 DEF NoContact
    <3>6. QED
      BY <2>1, <3>5 DEF CardTells, Entity, Here, walkVars
  <2>2. CASE Visiting' /\ Visiting
    BY <2>2 DEF CardTells, Entity, Here, walkVars
  <2>3. CASE ~ Visiting'
    <3>1. ~ Visiting
      BY <2>3 DEF Visiting, walkVars
    <3>2. QED
      BY <2>3, <3>1 DEF CardTells, walkVars
  <2>4. QED
    BY <2>1, <2>2, <2>3
<1>3. QED
  BY <1>1, <1>2

(***************************************************************************)
(* An event is passed by, or its date taken as DatesMore has it.           *)
(***************************************************************************)
LEMMA EventRead ==
  ASSUME ObjectInv, InDates, event' = event + 1, UNCHANGED <<object, at, serverVars, walkVars>>,
         dates' = DatesWith(object, event, dates)
  PROVE  ObjectInv'
<1>1. object \in ObjectType /\ event \in 1..Len(object.events) /\ Len(object.events) \in Nat
  <2>1. object \in ObjectType /\ event \in 1..(Len(object.events) + 1) /\ event <= Len(object.events)
    BY DEF ObjectInv, TypeOK, InDates
  <2>2. Len(object.events) \in Nat
    BY <2>1 DEF ObjectType
  <2>3. QED
    BY <2>1, <2>2
<1>2. TypeOK'
  <2>1. dates' \in [created : 0..event, updated : 0..event, expiry : 0..event]
    <3>1. dates.created \in 0..event /\ dates.updated \in 0..event /\ dates.expiry \in 0..event
      BY <1>1 DEF ObjectInv, TypeOK
    <3>2. event \in 0..event
      BY <1>1
    <3>3. QED
      BY <3>1, <3>2 DEF DatesWith
  <2>2. event' \in 1..(Len(object.events) + 1) /\ event' - 1 = event
    BY <1>1
  <2>3. QED
    BY <1>1, <2>1, <2>2 DEF ObjectInv, TypeOK, serverVars, walkVars
<1>3. DatesTell'
  <2>1. DatesSay(object, event - 1, dates)
    BY DEF ObjectInv, DatesTell
  <2>2. DatesSay(object, event, dates')
    BY <1>1, <2>1, DatesMore
  <2>3. event' - 1 = event /\ object' = object
    BY <1>1
  <2>4. QED
    BY <2>2, <2>3 DEF DatesTell
<1>4. CardTells' /\ ContactsTell' /\ RegistrarTells'
  BY WalkRests DEF ObjectInv, InDates
<1>5. QED
  BY <1>2, <1>3, <1>4 DEF ObjectInv

(***************************************************************************)
(* A property of a card is read as SaysMore has it.                        *)
(***************************************************************************)
LEMMA PropertyRead == ObjectInv /\ ReadProperty => ObjectInv'
<1>1. SUFFICES ASSUME ObjectInv, ReadProperty PROVE ObjectInv'
  OBVIOUS
<1>2. /\ object \in ObjectType /\ Here \in Ids /\ todo # <<>> /\ at = "walk" /\ ct \in ContactType
      /\ prop \in Nat \ {0} /\ prop <= Len(Entity.card)
  BY <1>1 DEF ObjectInv, TypeOK, ReadProperty, Visiting, Here
<1>3. Entity.card \in Seq(PropType) /\ Len(Entity.card) \in Nat /\ Here \in Nat \ {0}
  BY <1>2, ObjectAssumption DEF ObjectType, EntityType, Entity
<1>4. prop \in 1..Len(Entity.card) /\ prop - 1 \in 0..(Len(Entity.card) - 1) /\ prop - 1 + 1 = prop
  BY <1>2, <1>3
<1> DEFINE p == Entity.card[prop]
           w == IF p.empty THEN None ELSE <<Here, prop>>
<1>5. p \in PropType
  BY <1>3, <1>4
<1>6. w \in ValueType /\ None \in ValueType
  BY <1>2 DEF None, ValueType
<1>7. /\ ct' \in ContactType
      /\ \A f \in Fields : ct'[f] = IF p.field # f THEN ct[f]
                                    ELSE IF f \in {"name", "organization"} THEN w
                                    ELSE IF ct[f] = None THEN w ELSE ct[f]
  <2>1. ct' = Read(p)
    BY <1>1 DEF ReadProperty
  <2>2. Value(p.empty) = w
    BY DEF Value
  <2>3. p.field \in Fields \cup {"other"}
    BY <1>5 DEF PropType
  <2>4. CASE p.field \in {"name", "organization"}
    <3>1. ct' = [ct EXCEPT ![p.field] = w]
      BY <2>1, <2>2, <2>4 DEF Read
    <3>2. QED
      BY <1>2, <1>6, <2>4, <3>1 DEF ContactType, Fields
  <2>5. CASE p.field \in {"email", "phone"}
    <3>1. ct' = [ct EXCEPT ![p.field] = IF ct[p.field] = None THEN w ELSE ct[p.field]]
      BY <1>2, <2>1, <2>2, <2>5 DEF Read
    <3>2. QED
      BY <1>2, <1>6, <2>5, <3>1 DEF ContactType, Fields
  <2>6. CASE p.field = "other"
    <3>1. ct' = ct
      BY <2>1, <2>6 DEF Read
    <3>2. QED
      BY <1>2, <2>6, <3>1 DEF Fields
  <2>7. QED
    BY <2>3, <2>4, <2>5, <2>6 DEF Fields
<1>8. UNCHANGED <<object, at, event, dates, server, servers, todo, visited, people, listed>> /\ prop' = prop + 1
  BY <1>1 DEF ReadProperty, dateVars, serverVars
<1>9. TypeOK'
  BY <1>1, <1>2, <1>7, <1>8 DEF ObjectInv, TypeOK
<1>10. CardTells'
  <2>1. ASSUME NEW f \in Fields PROVE Says(Entity.card, Here, prop, f, ct'[f])
    <3>1. Says(Entity.card, Here, prop - 1, f, ct[f])
      BY <1>1, <1>2 DEF ObjectInv, CardTells, Visiting
    <3>2. Says(Entity.card, Here, prop, f,
               IF p.field # f THEN ct[f] ELSE IF f \in {"name", "organization"} THEN w
               ELSE IF ct[f] = None THEN w ELSE ct[f])
      <4>1. Says(Entity.card, Here, (prop - 1) + 1, f, SaysNext(Entity.card, Here, (prop - 1) + 1, f, ct[f]))
        BY <1>3, <1>4, <3>1, SaysMore
      <4>2. QED
        BY <1>4, <4>1 DEF SaysNext, Worth
    <3>3. QED
      BY <1>7, <3>2
  <2>2. Visiting' /\ Entity' = Entity /\ Here' = Here /\ prop' - 1 = prop /\ prop' <= Len(Entity.card) + 1
    BY <1>2, <1>3, <1>8 DEF Visiting, Entity, Here
  <2>3. QED
    BY <2>1, <2>2 DEF CardTells
<1>11. DatesTell' /\ ContactsTell' /\ RegistrarTells'
  BY <1>1, <1>8 DEF ObjectInv, DatesTell, ContactsTell, RegistrarTells
<1>12. QED
  BY <1>9, <1>10, <1>11 DEF ObjectInv

(***************************************************************************)
(* When the card was read, the contact is what the card says.              *)
(***************************************************************************)
LEMMA EntityVisited == ObjectInv /\ Visit => ObjectInv'
<1>1. SUFFICES ASSUME ObjectInv, Visit PROVE ObjectInv'
  OBVIOUS
<1>2. /\ object \in ObjectType /\ Here \in Ids /\ todo # <<>> /\ at = "walk" /\ ct \in ContactType
      /\ todo \in Seq(Ids) /\ visited \in Seq(Ids) /\ listed \in Seq(Ids)
      /\ prop \in Nat \ {0} /\ prop > Len(Entity.card) /\ prop <= Len(Entity.card) + 1
      /\ \A f \in Fields : Says(Entity.card, Here, prop - 1, f, ct[f])
      /\ people \in [registrar : ValueType, registrarID : Ids \cup {0},
                     contact : [ContactRoles -> ContactType]]
  BY <1>1, SMTT(30) DEF ObjectInv, TypeOK, CardTells, Visit, Visiting, Here
<1>3. Entity = object.entities[Here] /\ Entity \in EntityType
  BY <1>2 DEF Entity, ObjectType
<1>4. Entity.sub \in Seq(Ids) /\ Len(Entity.card) \in Nat /\ Entity.roles \subseteq ContactRoles \cup {"registrar", "abuse"}
  BY <1>3 DEF EntityType
<1>5. \A f \in Fields : CardSays(object, Here, f, ct[f])
  <2>1. prop - 1 = Len(Entity.card)
    <3>1. prop \in Nat /\ prop > Len(Entity.card) /\ prop <= Len(Entity.card) + 1
      BY <1>2
    <3>2. QED
      BY <1>4, <3>1
  <2>2. QED
    BY <1>2, <1>3, <2>1 DEF CardSays
<1>6. /\ UNCHANGED <<object, at, event, dates, server, servers>>
      /\ visited' = Append(visited, Here) /\ todo' = Entity.sub \o Tail(todo)
      /\ prop' = 1 /\ ct' = NoContact
      /\ object.kind = "domain" => people' = WithRoles /\ listed' = listed
      /\ object.kind # "domain" => people' = people /\ listed' \in {listed, Append(listed, Here)}
  BY <1>1 DEF Visit, Remaining, Listed, dateVars, serverVars
<1>7. None \in ValueType /\ NoContact \in ContactType /\ <<Here, 0>> \in ValueType
  BY <1>2 DEF None, ValueType, NoContact, ContactType
<1>8. /\ WithRoles.registrar = IF "registrar" \in Entity.roles THEN RegistrarName ELSE people.registrar
      /\ WithRoles.registrarID = IF "registrar" \in Entity.roles /\ Entity.ianaID
                                 THEN Here ELSE people.registrarID
      /\ WithRoles.contact = [r \in ContactRoles |->
                                IF r \in Entity.roles THEN MergeContact(people.contact[r], ct)
                                ELSE people.contact[r]]
      /\ WithRoles = [registrar |-> WithRoles.registrar, registrarID |-> WithRoles.registrarID,
                      contact |-> WithRoles.contact]
  <2> DEFINE new == [r \in ContactRoles |-> IF r \in Entity.roles THEN MergeContact(people.contact[r], ct)
                                            ELSE people.contact[r]]
  <2>1. people = [registrar |-> people.registrar, registrarID |-> people.registrarID,
                  contact |-> people.contact]
    BY <1>2
  <2>2. Registrar = [registrar |-> IF "registrar" \in Entity.roles THEN RegistrarName ELSE people.registrar,
                     registrarID |-> IF "registrar" \in Entity.roles /\ Entity.ianaID
                                     THEN Here ELSE people.registrarID,
                     contact |-> people.contact]
    BY <2>1 DEF Registrar
  <2>3. WithRoles = [Registrar EXCEPT !.contact = new]
    BY <2>2 DEF WithRoles
  <2> HIDE DEF new
  <2>4. WithRoles = [registrar |-> IF "registrar" \in Entity.roles THEN RegistrarName ELSE people.registrar,
                     registrarID |-> IF "registrar" \in Entity.roles /\ Entity.ianaID
                                     THEN Here ELSE people.registrarID,
                     contact |-> new]
    BY <2>2, <2>3
  <2>5. QED
    BY <2>4 DEF new
<1>9. TypeOK'
  <2>1. RegistrarName \in ValueType
    BY <1>2, <1>7 DEF RegistrarName, ContactType, Fields
  <2>2. \A r \in ContactRoles : MergeContact(people.contact[r], ct) \in ContactType
    BY <1>2 DEF MergeContact, ContactType
  <2>3. WithRoles.contact \in [ContactRoles -> ContactType]
    BY <1>2, <1>8, <2>2
  <2>4. WithRoles \in [registrar : ValueType, registrarID : Ids \cup {0},
                       contact : [ContactRoles -> ContactType]]
    BY <1>2, <1>8, <2>1, <2>3
  <2>5. visited' \in Seq(Ids) /\ listed' \in Seq(Ids) /\ todo' \in Seq(Ids)
    <3>1. Append(visited, Here) \in Seq(Ids) /\ Append(listed, Here) \in Seq(Ids)
      BY <1>2
    <3>2. Entity.sub \o Tail(todo) \in Seq(Ids)
      BY <1>2, <1>4
    <3>3. QED
      BY <1>2, <1>6, <3>1, <3>2
  <2>6. people' \in [registrar : ValueType, registrarID : Ids \cup {0},
                     contact : [ContactRoles -> ContactType]]
    BY <1>2, <1>6, <2>4
  <2>7. at' = at
    BY <1>1 DEF Visit
  <2>8. prop' \in Nat \ {0} /\ ct' \in ContactType
    BY <1>6, <1>7
  <2>9. QED
    BY <1>1, <1>6, <2>5, <2>6, <2>7, <2>8 DEF ObjectInv, TypeOK
<1>10. DatesTell'
  BY <1>1, <1>6 DEF ObjectInv, DatesTell
<1>11. CardTells'
  <2>1. ASSUME todo' # <<>> PROVE Len(Entity'.card) \in Nat
    <3>1. Head(todo') \in Ids
      BY <1>9, <2>1 DEF TypeOK
    <3>2. object.entities[Head(todo')] \in EntityType
      BY <1>2, <3>1 DEF ObjectType
    <3>3. Entity' = object.entities[Head(todo')]
      BY <1>6 DEF Entity, Here
    <3>4. QED
      BY <3>2, <3>3 DEF EntityType
  <2>2. \A f \in Fields : Says(Entity'.card, Here', 0, f, None)
    BY SaysNothing
  <2>3. QED
    BY <1>6, <2>1, <2>2 DEF CardTells, Visiting, NoContact
<1>12. ContactsTell'
  <2>1. SUFFICES ASSUME object.kind = "domain", NEW r \in ContactRoles, NEW f \in Fields
                 PROVE  Tells(object, Append(visited, Here), r, f, people'.contact[r][f])
    BY <1>6 DEF ContactsTell
  <2>2. Tells(object, visited, r, f, people.contact[r][f])
    BY <1>1, <2>1 DEF ObjectInv, ContactsTell
  <2>3. people'.contact[r][f] = IF r \in object.entities[Here].roles
                                THEN IF people.contact[r][f] = None THEN ct[f] ELSE people.contact[r][f]
                                ELSE people.contact[r][f]
    BY <1>3, <1>6, <1>8, <2>1 DEF MergeContact
  <2>4. CardSays(object, Here, f, ct[f])
    BY <1>5
  <2>5. QED
    BY <1>2, <2>2, <2>3, <2>4, ContactMore
<1>13. RegistrarTells'
  <2>1. SUFFICES ASSUME object.kind = "domain"
                 PROVE  /\ NameIs(object, Append(visited, Here), people'.registrar)
                        /\ IdentifierIs(object, Append(visited, Here), people'.registrarID)
    BY <1>6 DEF RegistrarTells
  <2>2. NameIs(object, visited, people.registrar) /\ IdentifierIs(object, visited, people.registrarID)
    BY <1>1, <2>1 DEF ObjectInv, RegistrarTells
  <2>3. RegistrarName = IF ct["name"] # None THEN ct["name"]
                        ELSE IF ct["organization"] # None THEN ct["organization"]
                        ELSE IF object.entities[Here].handle THEN <<Here, 0>> ELSE None
    BY <1>3 DEF RegistrarName
  <2>4. /\ NameIs(object, Append(visited, Here),
                  IF "registrar" \in object.entities[Here].roles THEN RegistrarName ELSE people.registrar)
        /\ IdentifierIs(object, Append(visited, Here),
                        IF "registrar" \in object.entities[Here].roles /\ object.entities[Here].ianaID
                        THEN Here ELSE people.registrarID)
    BY <1>2, <1>5, <2>2, <2>3, RegistrarMore
  <2>5. QED
    BY <1>3, <1>6, <1>8, <2>1, <2>4
<1>14. QED
  BY <1>9, <1>10, <1>11, <1>12, <1>13 DEF ObjectInv

(***************************************************************************)
(* One case per action.                                                    *)
(***************************************************************************)
LEMMA ObjectStepInv == ObjectInv /\ [Next]_objectVars => ObjectInv'
<1>1. SUFFICES ASSUME ObjectInv, [Next]_objectVars PROVE ObjectInv'
  OBVIOUS
<1>2. dates = [created |-> dates.created, updated |-> dates.updated, expiry |-> dates.expiry]
  BY <1>1 DEF ObjectInv, TypeOK
<1>3. ASSUME InDates, event' = event + 1, UNCHANGED <<object, at, serverVars, walkVars>>,
             dates' = DatesWith(object, event, dates)
      PROVE  ObjectInv'
  BY <1>1, <1>3, EventRead
<1>4. CASE SkipEvent
  <2>1. dates = DatesWith(object, event, dates)
    BY <1>2, <1>4 DEF SkipEvent, DatesWith, EventIs, Event
  <2>2. QED
    BY <1>3, <1>4, <2>1 DEF SkipEvent
<1>5. CASE Created
  <2>1. dates' = DatesWith(object, event, dates)
    BY <1>2, <1>5 DEF Created, TakeFirstDate, DatesWith, EventIs, Event
  <2>2. QED
    BY <1>3, <1>5, <2>1 DEF Created, TakeFirstDate
<1>6. CASE Updated
  <2>1. dates' = DatesWith(object, event, dates)
    BY <1>2, <1>6 DEF Updated, TakeDate, DatesWith, EventIs, Event
  <2>2. QED
    BY <1>3, <1>6, <2>1 DEF Updated, TakeDate
<1>7. CASE UpdatedInDatabase
  <2>1. dates' = DatesWith(object, event, dates)
    BY <1>2, <1>7 DEF UpdatedInDatabase, TakeFirstDate, DatesWith, EventIs, Event
  <2>2. QED
    BY <1>3, <1>7, <2>1 DEF UpdatedInDatabase, TakeFirstDate
<1>8. CASE Expires
  <2>1. dates' = DatesWith(object, event, dates)
    BY <1>2, <1>8 DEF Expires, TakeDate, DatesWith, EventIs, Event
  <2>2. QED
    BY <1>3, <1>8, <2>1 DEF Expires, TakeDate
<1>9. ASSUME UNCHANGED <<object, dateVars, walkVars>>,
             at' \in {"dates", "servers", "walk", "done", "panicked"},
             at' # "walk" => at # "walk" \/ todo = <<>>,
             at' = "walk" => at = "walk" \/ ~ Visiting,
             server' \in 1..(Len(object.servers) + 1), servers' \in Seq(Hosts)
      PROVE  ObjectInv'
  <2>1. TypeOK'
    BY <1>1, <1>9 DEF ObjectInv, TypeOK, dateVars, walkVars
  <2>2. DatesTell'
    BY <1>1, <1>9 DEF ObjectInv, DatesTell, dateVars
  <2>3. CardTells' /\ ContactsTell' /\ RegistrarTells'
    <3>1. at' = "walk" => at = "walk" \/ (prop = 1 /\ ct = NoContact)
      BY <1>1, <1>9 DEF ObjectInv, CardTells
    <3>2. QED
      BY <1>1, <1>9, <3>1, WalkRests DEF ObjectInv
  <2>4. QED
    BY <2>1, <2>2, <2>3 DEF ObjectInv
<1>10. server \in 1..(Len(object.servers) + 1) /\ servers \in Seq(Hosts)
       /\ object.servers \in Seq(Hosts \cup {NoHost})
  BY <1>1 DEF ObjectInv, TypeOK, ObjectType
<1>11. CASE Panic
  BY <1>9, <1>10, <1>11 DEF Panic, InDates, serverVars
<1>12. CASE DatesEnd
  BY <1>9, <1>10, <1>12 DEF DatesEnd, serverVars
<1>13. CASE TakeServer
  <2>1. server' \in 1..(Len(object.servers) + 1) /\ object.servers[server] \in Hosts \cup {NoHost}
    BY <1>10, <1>13 DEF TakeServer
  <2>2. servers' \in Seq(Hosts)
    BY <1>10, <1>13, <2>1 DEF TakeServer, AppendUnique
  <2>3. at' = at /\ at = "servers" /\ UNCHANGED <<object, dateVars, walkVars>>
    BY <1>13 DEF TakeServer
  <2>4. QED
    BY <1>9, <2>1, <2>2, <2>3
<1>14. CASE ServersEnd
  BY <1>9, <1>10, <1>14 DEF ServersEnd, serverVars, Visiting
<1>15. CASE WalkEnds
  BY <1>9, <1>10, <1>15 DEF WalkEnds, serverVars
<1>16. CASE ReadProperty
  BY <1>1, <1>16, PropertyRead
<1>17. CASE Visit
  BY <1>1, <1>17, EntityVisited
<1>18. CASE UNCHANGED objectVars
  <2>1. at \in {"dates", "servers", "walk", "done", "panicked"}
    BY <1>1 DEF ObjectInv, TypeOK
  <2>2. QED
    BY <1>9, <1>10, <1>18, <2>1 DEF objectVars, dateVars, walkVars
<1>19. QED
  BY <1>1, <1>4, <1>5, <1>6, <1>7, <1>8, <1>11, <1>12, <1>13, <1>14, <1>15, <1>16, <1>17, <1>18
     DEF Next

(***************************************************************************)
(* One more name server: the list stays, or gets a server that none of the *)
(* names before it is.                                                     *)
(***************************************************************************)
LEMMA ServerTaken ==
  ASSUME ObjectInv, ServersTell, TakeServer
  PROVE  ServersTell'
<1> DEFINE s == object.servers
<1> DEFINE new == s[server]
<1>1. /\ servers \in Seq(Hosts) /\ s \in Seq(Hosts \cup {NoHost})
      /\ server \in 1..Len(s) /\ new \in Hosts \cup {NoHost}
  BY DEF ObjectInv, TypeOK, ObjectType, TakeServer
<1>2. /\ server' = server + 1 /\ object' = object
      /\ servers' = IF new = NoHost THEN servers ELSE AppendUnique(servers, new)
  BY DEF TakeServer
<1>3. \A v \in Hosts : (\E m \in 1..(server - 1) : s[m] = v)
                       <=> \E n \in 1..Len(servers) : servers[n] = v
  BY DEF ServersTell
<1>4. \A n, k \in 1..Len(servers) : n < k =>
        \E l \in 1..(server - 1) :
          s[l] = servers[n] /\ \A m \in 1..l : s[m] # servers[k]
  BY DEF ServersTell
<1>5. Len(servers) \in Nat /\ server \in Nat /\ 1..(server' - 1) = 1..(server - 1) \cup {server}
  BY <1>1, <1>2
<1>6. SUFFICES
        /\ \A v \in Hosts : (\E m \in 1..(server' - 1) : s[m] = v)
                            <=> \E n \in 1..Len(servers') : servers'[n] = v
        /\ \A n, k \in 1..Len(servers') : n < k =>
             \E l \in 1..(server' - 1) :
               s[l] = servers'[n] /\ \A m \in 1..l : s[m] # servers'[k]
  BY <1>2 DEF ServersTell
<1>7. CASE new = NoHost \/ \E n \in 1..Len(servers) : servers[n] = new
  <2>1. servers' = servers
    BY <1>2, <1>7 DEF AppendUnique
  <2>2. \A v \in Hosts : new = v => \E n \in 1..Len(servers) : servers[n] = v
    BY <1>7, ObjectAssumption
  <2> HIDE DEF new
  <2>3. \A v \in Hosts : (\E m \in 1..(server' - 1) : s[m] = v)
                         <=> \E n \in 1..Len(servers) : servers[n] = v
    BY <1>3, <1>5, <2>2 DEF new
  <2> HIDE DEF s
  <2>4. QED
    BY <1>4, <1>5, <2>1, <2>3
<1>8. CASE new # NoHost /\ ~ \E n \in 1..Len(servers) : servers[n] = new
  <2>1. servers' = Append(servers, new) /\ new \in Hosts
    BY <1>1, <1>2, <1>8 DEF AppendUnique
  <2>2. \A m \in 1..(server - 1) : s[m] # new
    BY <1>3, <1>8, <2>1
  <2>3. /\ 1..Len(servers') = 1..Len(servers) \cup {Len(servers) + 1}
        /\ servers'[Len(servers) + 1] = new
        /\ \A n \in 1..Len(servers) : servers'[n] = servers[n]
    BY <1>1, <2>1
  <2> HIDE DEF new
  <2>4. \A v \in Hosts : (\E m \in 1..(server' - 1) : s[m] = v)
                         <=> \E n \in 1..Len(servers') : servers'[n] = v
    BY <1>3, <1>5, <2>3 DEF new
  <2>5. ASSUME NEW n \in 1..Len(servers'), NEW k \in 1..Len(servers'), n < k
        PROVE  \E l \in 1..(server' - 1) :
                 s[l] = servers'[n] /\ \A m \in 1..l : s[m] # servers'[k]
    <3>1. n \in 1..Len(servers) /\ servers'[n] = servers[n]
      BY <1>5, <2>3, <2>5
    <3>2. CASE k \in 1..Len(servers)
      <4>1. PICK l \in 1..(server - 1) :
              s[l] = servers[n] /\ \A m \in 1..l : s[m] # servers[k]
        BY <1>4, <2>5, <3>1, <3>2
      <4>2. QED
        BY <1>5, <2>3, <3>1, <3>2, <4>1
    <3>3. CASE k = Len(servers) + 1
      <4>1. servers[n] \in Hosts
        BY <1>1, <3>1
      <4>2. PICK l \in 1..(server - 1) : s[l] = servers[n]
        BY <1>3, <3>1, <4>1
      <4>3. \A m \in 1..l : s[m] # servers'[k]
        BY <1>5, <2>2, <2>3, <3>3, <4>2
      <4>4. QED
        BY <1>5, <3>1, <4>2, <4>3
    <3>4. QED
      BY <2>3, <2>5, <3>2, <3>3
  <2>6. QED
    BY <2>4, <2>5
<1>9. QED
  BY <1>7, <1>8

LEMMA ServersStep == ObjectInv /\ ServersTell /\ [Next]_objectVars => ServersTell'
<1>1. ASSUME ServersTell, UNCHANGED <<object, serverVars>> PROVE ServersTell'
  BY <1>1 DEF ServersTell, serverVars
<1>2. ASSUME [Next]_objectVars, ~ TakeServer PROVE UNCHANGED <<object, serverVars>>
  BY <1>2 DEF Next, SkipEvent, Created, Updated, UpdatedInDatabase, Expires, TakeDate,
     TakeFirstDate, Panic, DatesEnd, ServersEnd, ReadProperty, Visit, WalkEnds, objectVars,
     serverVars
<1>3. QED
  BY <1>1, <1>2, ServerTaken

-----------------------------------------------------------------------------
\* Why the walk is depth first: what was visited, vs, and what is to be, ts, are
\* distinct, each from a list that was come to, and those lists are all in them,
\* in order; whoever is to be visited before an entity that is within a visited
\* one is within that one too, at some depth.
WalkSays(o, vs, ts) ==
  /\ \A v, w \in 1..Len(vs) : v # w => vs[v] # vs[w]
  /\ \A p, q \in 1..Len(ts) : p # q => ts[p] # ts[q]
  /\ Members(vs) \cap Members(ts) = {}
  /\ \A x \in Members(vs) \cup Members(ts) : \E e \in Members(vs) \cup {0} : x \in Within(o, e)
  /\ \A e \in Members(vs) \cup {0} : Within(o, e) \subseteq Members(vs) \cup Members(ts)
  /\ \A v, w \in 1..Len(vs) : vs[w] \in Within(o, vs[v]) => v < w /\ Descends(o, vs, v, w)
  /\ \A v \in 1..Len(vs), p \in 1..Len(ts) : ts[p] \in Within(o, vs[v]) =>
       /\ Descends(o, vs, v, Len(vs))
       /\ \A q \in 1..(p - 1) : \E t \in v..Len(vs) : ts[q] \in Within(o, vs[t])
  /\ \A e \in Ids \cup {0} : \A m, n \in 1..Len(List(o, e)) : m < n =>
       /\ \A w \in 1..Len(vs) : vs[w] = List(o, e)[n] =>
            \E v \in 1..(w - 1) : vs[v] = List(o, e)[m]
       /\ \A q \in 1..Len(ts) : ts[q] = List(o, e)[n] =>
            \/ List(o, e)[m] \in Members(vs)
            \/ \E k \in 1..(q - 1) : ts[k] = List(o, e)[m]

WalkInv ==
  /\ object \in Objects
  /\ WalkSays(object, visited, todo)
  /\ at = "done" \/ (at = "dates" /\ object.kind # "domain") => todo = <<>>

LEMMA ListTyped ==
  ASSUME NEW o \in ObjectType, NEW e \in Ids \cup {0}
  PROVE  List(o, e) \in Seq(Ids) /\ Len(List(o, e)) \in Nat
  BY DEF List, ObjectType, EntityType

(***************************************************************************)
(* Where the visits and what is left stand after one more visit.           *)
(***************************************************************************)
LEMMA VisitPlaces ==
  ASSUME NEW vs \in Seq(Ids), NEW ts \in Seq(Ids), ts # <<>>, NEW sub \in Seq(Ids)
  PROVE  LET us == Append(vs, Head(ts))
             rs == sub \o Tail(ts)
         IN /\ Len(vs) \in Nat /\ Len(ts) \in Nat \ {0} /\ Len(sub) \in Nat
            /\ us \in Seq(Ids) /\ rs \in Seq(Ids)
            /\ Head(ts) = ts[1] /\ Head(ts) \in Ids
            /\ Len(us) = Len(vs) + 1 /\ us[Len(vs) + 1] = Head(ts)
            /\ \A v \in 1..Len(vs) : us[v] = vs[v]
            /\ Len(rs) = Len(sub) + Len(ts) - 1
            /\ \A p \in 1..Len(sub) : rs[p] = sub[p]
            /\ \A p \in (Len(sub) + 1)..Len(rs) :
                 p - Len(sub) + 1 \in 2..Len(ts) /\ rs[p] = ts[p - Len(sub) + 1]
            /\ \A p \in 2..Len(ts) :
                 p + Len(sub) - 1 \in (Len(sub) + 1)..Len(rs) /\ rs[p + Len(sub) - 1] = ts[p]
<1> DEFINE us == Append(vs, Head(ts))
           rs == sub \o Tail(ts)
<1>1. Len(vs) \in Nat /\ Len(ts) \in Nat \ {0} /\ Len(sub) \in Nat /\ Head(ts) = ts[1] /\ Head(ts) \in Ids
  OBVIOUS
<1>2. us \in Seq(Ids) /\ Len(us) = Len(vs) + 1 /\ us[Len(vs) + 1] = Head(ts) /\ \A v \in 1..Len(vs) : us[v] = vs[v]
  BY <1>1
<1>3. Tail(ts) \in Seq(Ids) /\ Len(Tail(ts)) = Len(ts) - 1 /\ \A p \in 1..(Len(ts) - 1) : Tail(ts)[p] = ts[p + 1]
  OBVIOUS
<1>4. rs \in Seq(Ids) /\ Len(rs) = Len(sub) + Len(ts) - 1
  BY <1>1, <1>3
<1>5. \A p \in 1..Len(rs) : rs[p] = IF p <= Len(sub) THEN sub[p] ELSE Tail(ts)[p - Len(sub)]
  BY <1>3
<1> HIDE DEF rs, us
<1>6. \A p \in 1..Len(sub) : rs[p] = sub[p]
  BY <1>1, <1>4, <1>5
<1>7. \A p \in (Len(sub) + 1)..Len(rs) :
        p - Len(sub) + 1 \in 2..Len(ts) /\ rs[p] = ts[p - Len(sub) + 1]
  <2> TAKE p \in (Len(sub) + 1)..Len(rs)
  <2>1. p \in 1..Len(rs) /\ ~ (p <= Len(sub)) /\ p - Len(sub) \in 1..(Len(ts) - 1)
    BY <1>1, <1>4
  <2>2. rs[p] = Tail(ts)[p - Len(sub)]
    BY <1>5, <2>1
  <2>3. QED
    BY <1>1, <1>3, <2>1, <2>2
<1>8. \A p \in 2..Len(ts) :
        p + Len(sub) - 1 \in (Len(sub) + 1)..Len(rs) /\ rs[p + Len(sub) - 1] = ts[p]
  <2> TAKE p \in 2..Len(ts)
  <2>1. p + Len(sub) - 1 \in (Len(sub) + 1)..Len(rs) /\ (p + Len(sub) - 1) - Len(sub) + 1 = p
    BY <1>1, <1>4
  <2>2. QED
    BY <1>7, <2>1
<1>9. QED
  BY <1>1, <1>2, <1>4, <1>6, <1>7, <1>8 DEF us, rs

(***************************************************************************)
(* The entities within the one that is visited are in no other list, so    *)
(* none of them was come to before.                                        *)
(***************************************************************************)
LEMMA WithinIsNew ==
  ASSUME NEW o \in ObjectType, Nested(o), Ids \subseteq Nat \ {0}, NEW vs \in Seq(Ids), NEW ts \in Seq(Ids), ts # <<>>,
         WalkSays(o, vs, ts), NEW x \in Within(o, Head(ts))
  PROVE  x \notin Members(vs) /\ x \notin Members(ts)
<1> DEFINE e == Head(ts)
<1>1. e \in Ids /\ e \in Members(ts) /\ e # 0
  BY DEF Members
<1>2. e \notin Members(vs)
  BY <1>1 DEF WalkSays
<1>3. ASSUME NEW f \in Members(vs) \cup {0}, x \in Within(o, f) PROVE FALSE
  <2>1. f \in Ids \cup {0}
    BY DEF Members
  <2>2. e = f
    BY <1>1, <1>3, <2>1 DEF Nested, Within, Members
  <2>3. QED
    BY <1>1, <1>2, <2>2
<1>4. QED
  BY <1>3 DEF WalkSays

(***************************************************************************)
(* One more visit.  Every conjunct of WalkSays has a step of its own: the  *)
(* entity goes from the front of the one sequence to the end of the other, *)
(* and those within it take its place.                                     *)
(***************************************************************************)
LEMMA WalkStep ==
  ASSUME NEW o \in ObjectType, Nested(o), Ids \subseteq Nat \ {0},
         NEW vs \in Seq(Ids), NEW ts \in Seq(Ids), ts # <<>>, WalkSays(o, vs, ts)
  PROVE  WalkSays(o, Append(vs, Head(ts)), List(o, Head(ts)) \o Tail(ts))
<1> DEFINE e == Head(ts)
           sub == List(o, e)
           us == Append(vs, e)
           rs == sub \o Tail(ts)
           a == Len(vs)
           b == Len(sub)
<1>1. e \in Ids /\ sub \in Seq(Ids)
  <2>1. e \in Ids
    OBVIOUS
  <2>2. QED
    BY <2>1, ListTyped
<1>2. /\ a \in Nat /\ Len(ts) \in Nat \ {0} /\ b \in Nat /\ us \in Seq(Ids) /\ rs \in Seq(Ids)
      /\ e = ts[1] /\ Len(us) = a + 1 /\ us[a + 1] = e /\ Len(rs) = b + Len(ts) - 1
  BY <1>1, VisitPlaces
<1>3. \A v \in 1..a : us[v] = vs[v]
  BY <1>1, VisitPlaces
<1>4. \A p \in 1..b : rs[p] = sub[p]
  BY <1>1, VisitPlaces
<1>5. \A p \in (b + 1)..Len(rs) : p - b + 1 \in 2..Len(ts) /\ rs[p] = ts[p - b + 1]
  BY <1>1, VisitPlaces
<1>6. \A p \in 2..Len(ts) : p + b - 1 \in (b + 1)..Len(rs) /\ rs[p + b - 1] = ts[p]
  BY <1>1, VisitPlaces
<1>7. /\ \A v, w \in 1..a : v # w => vs[v] # vs[w]
      /\ \A p, q \in 1..Len(ts) : p # q => ts[p] # ts[q]
      /\ \A v \in 1..a, p \in 1..Len(ts) : vs[v] # ts[p]
  <2>1. /\ \A v, w \in 1..a : v # w => vs[v] # vs[w]
        /\ \A p, q \in 1..Len(ts) : p # q => ts[p] # ts[q]
        /\ Members(vs) \cap Members(ts) = {}
    BY DEF WalkSays
  <2>2. \A v \in 1..a, p \in 1..Len(ts) : vs[v] \in Members(vs) /\ ts[p] \in Members(ts)
    BY DEF Members
  <2>3. QED
    BY <2>1, <2>2
<1>8. \A p \in 1..b : /\ sub[p] \in Within(o, e)
                      /\ \A v \in 1..a : sub[p] # vs[v]
                      /\ \A q \in 1..Len(ts) : sub[p] # ts[q]
  <2> TAKE p \in 1..b
  <2>1. sub[p] \in Within(o, e)
    BY DEF Within, Members
  <2>2. sub[p] \notin Members(vs) /\ sub[p] \notin Members(ts)
    BY <2>1, WithinIsNew
  <2>3. QED
    BY <2>1, <2>2 DEF Members
<1>9. \A f \in Ids \cup {0} : \A m \in 1..Len(List(o, f)), p \in 1..b :
        List(o, f)[m] = sub[p] => f = e /\ m = p
  BY <1>1 DEF Nested
<1>10. \A x \in Within(o, e) : \E p \in 1..b : x = sub[p]
  BY DEF Within, Members
<1>11. \A p \in 1..Len(rs) : p \in 1..b \/ p \in (b + 1)..Len(rs)
  BY <1>2
<1>12. \A v \in 1..Len(us) : v \in 1..a \/ v = a + 1
  BY <1>2
<1>13. Members(us) = Members(vs) \cup {e}
  <2>1. \A x \in Members(us) : x \in Members(vs) \cup {e}
    BY <1>2, <1>3, <1>12 DEF Members
  <2>2. \A x \in Members(vs) : x \in Members(us)
    <3> TAKE x \in Members(vs)
    <3>1. PICK v \in 1..a : x = vs[v]
      BY DEF Members
    <3>2. v \in 1..Len(us) /\ us[v] = x
      BY <1>2, <1>3, <3>1
    <3>3. QED
      BY <3>2 DEF Members
  <2>3. a + 1 \in 1..Len(us)
    BY <1>2
  <2>4. e \in Members(us)
    BY <1>2, <2>3 DEF Members
  <2>5. QED
    BY <2>1, <2>2, <2>4
<1>14. \A x \in Members(rs) : x \in Within(o, e) \/ x \in Members(ts)
  <2> TAKE x \in Members(rs)
  <2>1. PICK p \in 1..Len(rs) : x = rs[p]
    BY DEF Members
  <2>2. CASE p \in 1..b
    BY <1>4, <1>8, <2>1, <2>2
  <2>3. CASE p \in (b + 1)..Len(rs)
    <3>1. p - b + 1 \in 1..Len(ts) /\ x = ts[p - b + 1]
      BY <1>2, <1>5, <2>1, <2>3
    <3>2. QED
      BY <3>1 DEF Members
  <2>4. QED
    BY <1>11, <2>2, <2>3
<1>15. Within(o, e) \subseteq Members(rs)
  <2> SUFFICES ASSUME NEW p \in 1..b PROVE sub[p] \in Members(rs)
    BY <1>10
  <2>1. p \in 1..Len(rs) /\ rs[p] = sub[p]
    BY <1>2, <1>4
  <2>2. QED
    BY <2>1 DEF Members
<1>16. Members(ts) \subseteq Members(rs) \cup {e}
  <2> SUFFICES ASSUME NEW p \in 1..Len(ts) PROVE ts[p] \in Members(rs) \cup {e}
    BY DEF Members
  <2>1. CASE p = 1
    BY <1>2, <2>1
  <2>2. CASE p \in 2..Len(ts)
    <3>1. p + b - 1 \in 1..Len(rs) /\ rs[p + b - 1] = ts[p]
      BY <1>2, <1>6, <2>2
    <3>2. QED
      BY <3>1 DEF Members
  <2>3. QED
    BY <1>2, <2>1, <2>2
<1> HIDE DEF us, rs, sub, a, b
<1>17. \A v, w \in 1..Len(us) : v # w => us[v] # us[w]
  <2> TAKE v, w \in 1..Len(us)
  <2>1. 1 \in 1..Len(ts)
    BY <1>2
  <2>2. QED
    BY <1>2, <1>3, <1>7, <1>12, <2>1
<1>18. \A p, q \in 1..Len(rs) : p # q => rs[p] # rs[q]
  <2> SUFFICES ASSUME NEW p \in 1..Len(rs), NEW q \in 1..Len(rs), p # q PROVE rs[p] # rs[q]
    OBVIOUS
  <2>1. CASE p \in 1..b /\ q \in 1..b
    <3>1. sub[p] # sub[q]
      BY <1>1, <1>9, <2>1 DEF sub, b
    <3>2. QED
      BY <1>4, <2>1, <3>1
  <2>2. CASE p \in 1..b /\ q \in (b + 1)..Len(rs)
    <3>1. q - b + 1 \in 1..Len(ts) /\ rs[q] = ts[q - b + 1]
      BY <1>2, <1>5, <2>2
    <3>2. QED
      BY <1>4, <1>8, <2>2, <3>1
  <2>3. CASE q \in 1..b /\ p \in (b + 1)..Len(rs)
    <3>1. p - b + 1 \in 1..Len(ts) /\ rs[p] = ts[p - b + 1]
      BY <1>2, <1>5, <2>3
    <3>2. QED
      BY <1>4, <1>8, <2>3, <3>1
  <2>4. CASE p \in (b + 1)..Len(rs) /\ q \in (b + 1)..Len(rs)
    <3>1. p - b + 1 \in 1..Len(ts) /\ rs[p] = ts[p - b + 1]
      BY <1>2, <1>5, <2>4
    <3>2. q - b + 1 \in 1..Len(ts) /\ rs[q] = ts[q - b + 1]
      BY <1>2, <1>5, <2>4
    <3>3. p - b + 1 # q - b + 1
      BY <1>2, <2>4
    <3>4. QED
      BY <1>7, <3>1, <3>2, <3>3
  <2>5. QED
    BY <1>11, <2>1, <2>2, <2>3, <2>4
<1>19. Members(us) \cap Members(rs) = {}
  <2> SUFFICES ASSUME NEW v \in 1..Len(us), NEW p \in 1..Len(rs), us[v] = rs[p] PROVE FALSE
    BY DEF Members
  <2>1. 1 \in 1..Len(ts)
    BY <1>2
  <2>2. CASE p \in 1..b
    BY <1>2, <1>3, <1>4, <1>8, <1>12, <2>1, <2>2
  <2>3. CASE p \in (b + 1)..Len(rs)
    <3>1. p - b + 1 \in 1..Len(ts) /\ p - b + 1 # 1 /\ rs[p] = ts[p - b + 1]
      <4>1. p - b + 1 \in 2..Len(ts) /\ rs[p] = ts[p - b + 1]
        BY <1>5, <2>3
      <4>2. \A m \in Nat : \A z \in 2..m : z \in 1..m /\ z # 1
        OBVIOUS
      <4>3. p - b + 1 \in 1..Len(ts) /\ p - b + 1 # 1
        BY <1>2, <4>1, <4>2, Zenon
      <4>4. QED
        BY <4>1, <4>3
    <3>2. QED
      BY <1>2, <1>3, <1>7, <1>12, <2>1, <3>1, SMTT(30)
  <2>4. QED
    BY <1>11, <2>2, <2>3
<1>20. \A x \in Members(us) \cup Members(rs) : \E f \in Members(us) \cup {0} : x \in Within(o, f)
  <2> TAKE x \in Members(us) \cup Members(rs)
  <2>1. e \in Members(ts)
    <3>1. 1 \in 1..Len(ts)
      BY <1>2
    <3>2. QED
      BY <1>2, <3>1 DEF Members
  <2>2. x \in Within(o, e) \/ x \in Members(vs) \cup Members(ts)
    BY <1>13, <1>14, <2>1
  <2>3. QED
    BY <1>13, <2>2 DEF WalkSays
<1>21. \A f \in Members(us) \cup {0} : Within(o, f) \subseteq Members(us) \cup Members(rs)
  <2> TAKE f \in Members(us) \cup {0}
  <2>1. CASE f = e
    BY <1>15, <2>1
  <2>2. CASE f \in Members(vs) \cup {0}
    <3>1. Within(o, f) \subseteq Members(vs) \cup Members(ts)
      BY <2>2 DEF WalkSays
    <3>2. QED
      BY <1>13, <1>16, <3>1
  <2>3. QED
    BY <1>13, <2>1, <2>2
<1>22. \A v \in 1..a, w \in 1..a : Descends(o, vs, v, w) => Descends(o, us, v, w)
  <2> SUFFICES ASSUME NEW v \in 1..a, NEW w \in 1..a, Descends(o, vs, v, w),
                      NEW u \in (v + 1)..w
               PROVE  \E t \in v..(u - 1) : us[u] \in Within(o, us[t])
    BY DEF Descends
  <2>1. PICK t \in v..(u - 1) : vs[u] \in Within(o, vs[t])
    BY DEF Descends
  <2>2. u \in 1..a /\ t \in 1..a
    BY <1>2
  <2>3. QED
    BY <1>3, <2>1, <2>2
<1>23. \A v \in 1..a : Descends(o, vs, v, a) /\ (\E t \in v..a : e \in Within(o, vs[t]))
                         => Descends(o, us, v, a + 1)
  <2> SUFFICES ASSUME NEW v \in 1..a, Descends(o, vs, v, a),
                      NEW s \in v..a, e \in Within(o, vs[s]), NEW u \in (v + 1)..(a + 1)
               PROVE  \E t \in v..(u - 1) : us[u] \in Within(o, us[t])
    BY DEF Descends
  <2>1. CASE u = a + 1
    <3>1. s \in 1..a /\ s \in v..(u - 1)
      BY <1>2, <2>1
    <3>2. QED
      BY <1>2, <1>3, <2>1, <3>1
  <2>2. CASE u \in (v + 1)..a
    <3>1. a \in 1..a
      BY <1>2
    <3>2. Descends(o, us, v, a)
      BY <1>22, <3>1
    <3>3. QED
      BY <2>2, <3>2 DEF Descends
  <2>3. QED
    BY <1>2, <2>1, <2>2
<1>24. \A v, w \in 1..Len(us) : us[w] \in Within(o, us[v]) => v < w /\ Descends(o, us, v, w)
  <2> SUFFICES ASSUME NEW v \in 1..Len(us), NEW w \in 1..Len(us), us[w] \in Within(o, us[v])
               PROVE  v < w /\ Descends(o, us, v, w)
    OBVIOUS
  <2>0. 1 \in 1..Len(ts)
    BY <1>2
  <2>1. CASE v \in 1..a /\ w \in 1..a
    <3>1. vs[w] \in Within(o, vs[v])
      BY <1>3, <2>1
    <3>2. v < w /\ Descends(o, vs, v, w)
      BY <2>1, <3>1 DEF WalkSays, a
    <3>3. QED
      BY <1>22, <2>1, <3>2
  <2>2. CASE v = a + 1
    <3>1. PICK p \in 1..b : us[w] = sub[p]
      BY <1>2, <1>10, <2>2
    <3>2. QED
      BY <1>2, <1>3, <1>8, <1>12, <2>0, <3>1
  <2>3. CASE v \in 1..a /\ w = a + 1
    <3>1. ts[1] \in Within(o, vs[v])
      BY <1>2, <1>3, <2>3
    <3>2. Descends(o, vs, v, a)
      BY <2>0, <2>3, <3>1 DEF WalkSays, a
    <3>3. v < w /\ v \in v..a
      BY <1>2, <2>3
    <3>4. QED
      BY <1>2, <1>23, <2>3, <3>1, <3>2, <3>3
  <2>4. QED
    BY <1>12, <2>1, <2>2, <2>3
<1>25. \A v \in 1..Len(us), p \in 1..Len(rs) : rs[p] \in Within(o, us[v]) =>
         /\ Descends(o, us, v, Len(us))
         /\ \A q \in 1..(p - 1) : \E t \in v..Len(us) : rs[q] \in Within(o, us[t])
  <2> SUFFICES ASSUME NEW v \in 1..Len(us), NEW p \in 1..Len(rs), rs[p] \in Within(o, us[v])
               PROVE  /\ Descends(o, us, v, a + 1)
                      /\ \A q \in 1..(p - 1) : \E t \in v..(a + 1) : rs[q] \in Within(o, us[t])
    BY <1>2
  <2>1. \A q \in 1..b : rs[q] \in Within(o, us[a + 1])
    BY <1>2, <1>4, <1>8
  <2>2. a + 1 \in v..(a + 1)
    BY <1>2
  <2>3. CASE v = a + 1
    <3>1. Descends(o, us, v, a + 1)
      BY <1>2, <2>3 DEF Descends
    <3>2. p \in 1..b
      <4>1. PICK r \in 1..b : rs[p] = sub[r]
        BY <1>2, <1>10, <2>3
      <4>2. ASSUME p \in (b + 1)..Len(rs) PROVE FALSE
        <5>1. p - b + 1 \in 1..Len(ts) /\ rs[p] = ts[p - b + 1]
          BY <1>2, <1>5, <4>2
        <5>2. QED
          BY <1>8, <4>1, <5>1
      <4>3. QED
        BY <1>11, <4>2
    <3>3. \A q \in 1..(p - 1) : q \in 1..b
      BY <1>2, <3>2
    <3>4. QED
      BY <2>1, <2>2, <3>1, <3>3
  <2>4. CASE v \in 1..a
    <3>1. us[v] = vs[v] /\ vs[v] \in Ids /\ vs[v] # e
      <4>1. 1 \in 1..Len(ts)
        BY <1>2
      <4>2. QED
        BY <1>2, <1>3, <1>7, <2>4, <4>1 DEF a
    <3>2. p \notin 1..b
      <4>1. SUFFICES ASSUME p \in 1..b PROVE FALSE
        OBVIOUS
      <4>2. sub[p] \in Within(o, vs[v])
        BY <1>4, <3>1, <4>1
      <4>3. PICK m \in 1..Len(List(o, vs[v])) : sub[p] = List(o, vs[v])[m]
        BY <4>2 DEF Within, Members
      <4>4. QED
        BY <1>9, <3>1, <4>1, <4>3
    <3>3. p - b + 1 \in 2..Len(ts) /\ rs[p] = ts[p - b + 1]
      BY <1>5, <1>11, <3>2
    <3>4. /\ Descends(o, vs, v, a)
          /\ \A q \in 1..(p - b) : \E t \in v..a : ts[q] \in Within(o, vs[t])
      <4>1. p - b + 1 \in 1..Len(ts) /\ (p - b + 1) - 1 = p - b
        BY <1>2, <3>3
      <4>2. ts[p - b + 1] \in Within(o, vs[v])
        BY <3>1, <3>3
      <4>3. QED
        BY <2>4, <4>1, <4>2 DEF WalkSays, a
    <3>5. Descends(o, us, v, a + 1)
      <4>1. 1 \in 1..(p - b)
        BY <1>2, <3>3
      <4>2. QED
        BY <1>2, <1>23, <2>4, <3>4, <4>1
    <3>6. \A q \in 1..(p - 1) : \E t \in v..(a + 1) : rs[q] \in Within(o, us[t])
      <4> TAKE q \in 1..(p - 1)
      <4>1. CASE q \in 1..b
        BY <2>1, <2>2, <4>1
      <4>2. CASE q \in (b + 1)..(p - 1)
        <5>1. q \in (b + 1)..Len(rs) /\ q - b + 1 \in 1..(p - b)
          BY <1>2, <4>2
        <5>2. PICK t \in v..a : ts[q - b + 1] \in Within(o, vs[t])
          BY <3>4, <5>1
        <5>3. t \in 1..a /\ t \in v..(a + 1) /\ rs[q] = ts[q - b + 1]
          BY <1>2, <1>5, <2>4, <5>1
        <5>4. QED
          BY <1>3, <5>2, <5>3
      <4>3. QED
        BY <1>2, <4>1, <4>2
    <3>7. QED
      BY <3>5, <3>6
  <2>5. QED
    BY <1>12, <2>3, <2>4
<1>26. ASSUME NEW f \in Ids \cup {0}, NEW m \in 1..Len(List(o, f)), NEW n \in 1..Len(List(o, f)), m < n,
              NEW w \in 1..Len(us), us[w] = List(o, f)[n]
       PROVE  \E v \in 1..(w - 1) : us[v] = List(o, f)[m]
  <2>1. CASE w \in 1..a
    <3>1. PICK v \in 1..(w - 1) : vs[v] = List(o, f)[m]
      BY <1>3, <1>26, <2>1 DEF WalkSays, a
    <3>2. v \in 1..a
      BY <1>2, <2>1
    <3>3. QED
      BY <1>3, <3>1, <3>2
  <2>2. CASE w = a + 1
    <3>1. 1 \in 1..Len(ts) /\ ts[1] = List(o, f)[n] /\ 1..(1 - 1) = {}
      BY <1>2, <1>26, <2>2
    <3>2. List(o, f)[m] \in Members(vs)
      BY <1>26, <3>1 DEF WalkSays
    <3>3. PICK v \in 1..a : List(o, f)[m] = vs[v]
      BY <3>2 DEF Members, a
    <3>4. v \in 1..(w - 1)
      BY <1>2, <2>2
    <3>5. QED
      BY <1>3, <3>3, <3>4
  <2>3. QED
    BY <1>12, <2>1, <2>2
<1>27. ASSUME NEW f \in Ids \cup {0}, NEW m \in 1..Len(List(o, f)), NEW n \in 1..Len(List(o, f)), m < n,
              NEW q \in 1..Len(rs), rs[q] = List(o, f)[n]
       PROVE  List(o, f)[m] \in Members(us) \/ \E k \in 1..(q - 1) : rs[k] = List(o, f)[m]
  <2>1. CASE q \in 1..b
    <3>1. f = e /\ n = q
      BY <1>4, <1>9, <1>27, <2>1
    <3>2. m \in 1..(q - 1) /\ m \in 1..b
      BY <1>2, <1>27, <2>1, <3>1 DEF sub, b
    <3>3. rs[m] = List(o, f)[m]
      BY <1>4, <3>1, <3>2 DEF sub
    <3>4. QED
      BY <3>2, <3>3
  <2>2. CASE q \in (b + 1)..Len(rs)
    <3>1. q - b + 1 \in 1..Len(ts) /\ ts[q - b + 1] = List(o, f)[n] /\ (q - b + 1) - 1 = q - b
      <4>1. q - b + 1 \in 2..Len(ts) /\ rs[q] = ts[q - b + 1]
        BY <1>5, <2>2
      <4>2. q \in Nat /\ (q - b + 1) - 1 = q - b
        BY <1>2, <2>2
      <4>3. QED
        BY <1>2, <1>27, <4>1, <4>2
    <3>2. List(o, f)[m] \in Members(vs) \/ \E k \in 1..(q - b) : ts[k] = List(o, f)[m]
      BY <1>27, <3>1, SMTT(30) DEF WalkSays
    <3>3. CASE List(o, f)[m] \in Members(vs)
      BY <1>13, <3>3
    <3>4. ASSUME NEW k \in 1..(q - b), ts[k] = List(o, f)[m]
          PROVE  List(o, f)[m] \in Members(us) \/ \E j \in 1..(q - 1) : rs[j] = List(o, f)[m]
      <4>1. CASE k = 1
        BY <1>2, <1>13, <3>4, <4>1
      <4>2. CASE k \in 2..(q - b)
        <5>1. k \in 2..Len(ts) /\ k + b - 1 \in 1..(q - 1)
          BY <1>2, <2>2, <4>2
        <5>2. rs[k + b - 1] = List(o, f)[m]
          BY <1>6, <3>4, <5>1
        <5>3. QED
          BY <5>1, <5>2
      <4>3. QED
        BY <1>2, <2>2, <4>1, <4>2
    <3>5. QED
      BY <3>2, <3>3, <3>4
  <2>3. QED
    BY <1>11, <2>1, <2>2
<1>28. WalkSays(o, us, rs)
  BY <1>17, <1>18, <1>19, <1>20, <1>21, <1>24, <1>25, <1>26, <1>27 DEF WalkSays
<1>29. QED
  BY <1>28 DEF us, rs, sub

(***************************************************************************)
(* The walk starts with the entities that are in no other.                 *)
(***************************************************************************)
LEMMA WalkStart ==
  ASSUME NEW o \in ObjectType, Nested(o), Ids \subseteq Nat \ {0}
  PROVE  WalkSays(o, <<>>, o.top)
<1> DEFINE vs == <<>>
           ts == o.top
<1>1. Len(vs) = 0 /\ Members(vs) = {} /\ ts = List(o, 0) /\ Members(ts) = Within(o, 0) /\ 0 \notin Ids
  BY DEF Members, Within, List
<1>2. ts \in Seq(Ids) /\ Len(ts) \in Nat
  BY DEF ObjectType
<1> HIDE DEF vs, ts
<1>3. \A p, q \in 1..Len(ts) : p # q => ts[p] # ts[q]
  BY <1>1 DEF Nested
<1>4. ASSUME NEW e \in Ids \cup {0}, NEW m \in 1..Len(List(o, e)), NEW n \in 1..Len(List(o, e)), m < n,
             NEW q \in 1..Len(ts), ts[q] = List(o, e)[n]
      PROVE  \E k \in 1..(q - 1) : ts[k] = List(o, e)[m]
  <2>1. e = 0 /\ n = q
    BY <1>1, <1>4 DEF Nested
  <2>2. m \in 1..(q - 1)
    BY <1>1, <1>2, <1>4, <2>1
  <2>3. QED
    BY <1>1, <2>1, <2>2
<1>5. WalkSays(o, vs, ts)
  BY <1>1, <1>3, <1>4 DEF WalkSays
<1>6. QED
  BY <1>5 DEF vs, ts

LEMMA WalkInit == Init => WalkInv
<1> SUFFICES ASSUME Init PROVE WalkInv
  OBVIOUS
<1>1. object \in Objects /\ object \in ObjectType /\ visited = <<>> /\ todo = object.top
      /\ at \in {"dates", "walk"} /\ (at = "dates" => object.kind = "domain")
  BY ObjectAssumption DEF Init
<1>2. WalkSays(object, visited, todo)
  BY <1>1, ObjectAssumption, WalkStart
<1>3. QED
  BY <1>1, <1>2 DEF WalkInv

LEMMA WalkInvStep == ObjectInv /\ WalkInv /\ [Next]_objectVars => WalkInv'
<1> SUFFICES ASSUME ObjectInv, WalkInv, [Next]_objectVars PROVE WalkInv'
  OBVIOUS
<1>1. CASE Visit
  <2>1. object \in ObjectType /\ visited \in Seq(Ids) /\ todo \in Seq(Ids)
    BY DEF ObjectInv, TypeOK
  <2>2. /\ object' = object /\ at' = at /\ at = "walk" /\ todo # <<>>
        /\ visited' = Append(visited, Head(todo)) /\ todo' = Entity.sub \o Tail(todo)
    BY <1>1 DEF Visit, Visiting, Remaining, Here
  <2>3. Head(todo) \in Ids
    BY <2>1, <2>2
  <2>4. Entity.sub = List(object, Head(todo))
    BY <2>3, ObjectAssumption DEF Entity, Here, List
  <2>5. WalkSays(object, visited', todo')
    BY <2>1, <2>2, <2>4, WalkStep, ObjectAssumption DEF WalkInv
  <2>6. QED
    BY <2>2, <2>5 DEF WalkInv
<1>2. CASE ~ Visit
  <2>1. UNCHANGED <<object, visited, todo>>
    BY <1>2 DEF Next, SkipEvent, Created, Updated, UpdatedInDatabase, Expires, TakeDate,
       TakeFirstDate, Panic, DatesEnd, TakeServer, ServersEnd, ReadProperty, WalkEnds, objectVars,
       serverVars, dateVars, walkVars
  <2>2. at' = at \/ DatesEnd \/ ServersEnd \/ WalkEnds \/ Panic
    BY <1>2 DEF Next, SkipEvent, Created, Updated, UpdatedInDatabase, Expires, TakeDate,
       TakeFirstDate, TakeServer, ReadProperty, objectVars
  <2>3. at' = "done" \/ (at' = "dates" /\ object'.kind # "domain") => todo' = <<>>
    <3>1. CASE at' = at
      BY <2>1, <3>1 DEF WalkInv
    <3>2. CASE DatesEnd
      BY <2>1, <3>2 DEF WalkInv, DatesEnd
    <3>3. CASE ServersEnd
      BY <3>3 DEF ServersEnd
    <3>4. CASE WalkEnds
      BY <2>1, <3>4 DEF WalkEnds
    <3>5. CASE Panic
      BY <3>5 DEF Panic
    <3>6. QED
      BY <2>2, <3>1, <3>2, <3>3, <3>4, <3>5
  <2>4. QED
    BY <2>1, <2>3 DEF WalkInv
<1>3. QED
  BY <1>1, <1>2

(***************************************************************************)
(* Nobody is left when nothing is to be visited: the least one that was    *)
(* not visited would be within one that was.                               *)
(***************************************************************************)
LEMMA WalkedAll ==
  ASSUME NEW o \in ObjectType, Nested(o), Ids \subseteq Nat \ {0}, NEW vs \in Seq(Ids),
         WalkSays(o, vs, <<>>)
  PROVE  Members(vs) = UNION {Within(o, e) : e \in Ids \cup {0}}
<1>1. Members(<<>>) = {}
  BY DEF Members
<1>2. Members(vs) \subseteq Ids
  BY DEF Members
<1>3. \A x \in Members(vs) : \E e \in Members(vs) \cup {0} : x \in Within(o, e)
  BY DEF WalkSays
<1>4. \A e \in Members(vs) \cup {0} : Within(o, e) \subseteq Members(vs)
  BY <1>1 DEF WalkSays
<1> DEFINE Missed == {x \in Ids : x \notin Members(vs) /\ \E e \in Ids \cup {0} : x \in Within(o, e)}
<1>5. Missed = {}
  <2> SUFFICES ASSUME Missed # {} PROVE FALSE
    OBVIOUS
  <2>1. PICK x \in Missed : \A y \in Missed : x <= y
    <3>1. Missed \subseteq Nat
      OBVIOUS
    <3> HIDE DEF Missed
    <3>2. QED
      BY <3>1, LeastNumber
  <2>2. PICK e \in Ids \cup {0} : x \in Within(o, e)
    OBVIOUS
  <2>3. e \notin Members(vs) /\ e # 0 /\ e \in Ids
    BY <1>4, <2>1, <2>2
  <2>4. PICK m \in 1..Len(List(o, e)) : x = List(o, e)[m]
    BY <2>2 DEF Within, Members
  <2>5. e < x /\ List(o, e) # <<>>
    BY <2>3, <2>4 DEF Nested
  <2>6. PICK f \in Ids \cup {0} : \E k \in 1..Len(List(o, f)) : List(o, f)[k] = e
    BY <2>3, <2>5 DEF Nested
  <2>7. e \in Within(o, f)
    BY <2>6 DEF Within, Members
  <2>8. e \in Missed
    BY <2>3, <2>7
  <2>9. QED
    BY <2>1, <2>3, <2>5, <2>8
<1>6. \A e \in Ids \cup {0} : Within(o, e) \subseteq Ids
  <2> TAKE e \in Ids \cup {0}
  <2>1. List(o, e) \in Seq(Ids)
    BY ListTyped
  <2>2. QED
    BY <2>1 DEF Within, Members
<1>7. \A e \in Ids \cup {0} : Within(o, e) \subseteq Members(vs)
  BY <1>5, <1>6
<1>8. \A x \in Members(vs) : \E e \in Ids \cup {0} : x \in Within(o, e)
  BY <1>2, <1>3
<1> HIDE DEF Missed
<1>9. QED
  BY <1>7, <1>8

LEMMA WalkedDepthFirst == TypeOK /\ WalkInv => DepthFirst
<1> SUFFICES ASSUME TypeOK, WalkInv PROVE DepthFirst
  OBVIOUS
<1>1. object \in ObjectType /\ visited \in Seq(Ids) /\ Nested(object) /\ Ids \subseteq Nat \ {0}
      /\ WalkSays(object, visited, todo)
  BY ObjectAssumption DEF TypeOK, WalkInv
<1>2. /\ \A v, w \in 1..Len(visited) : v # w => visited[v] # visited[w]
      /\ \A v, w \in 1..Len(visited) : visited[w] \in Within(object, visited[v]) =>
           v < w /\ Descends(object, visited, v, w)
  BY <1>1 DEF WalkSays
<1>3. ASSUME NEW e \in Ids \cup {0}, NEW m \in 1..Len(List(object, e)), NEW n \in 1..Len(List(object, e)),
             NEW v \in 1..Len(visited), NEW w \in 1..Len(visited),
             m < n, visited[v] = List(object, e)[m], visited[w] = List(object, e)[n]
      PROVE  v < w
  <2>1. PICK u \in 1..(w - 1) : visited[u] = List(object, e)[m]
    BY <1>1, <1>3 DEF WalkSays
  <2>2. u = v
    BY <1>1, <1>2, <1>3, <2>1
  <2>3. QED
    BY <1>1, <2>1, <2>2
<1>4. ASSUME at = "done" PROVE Members(visited) = UNION {Within(object, e) : e \in Ids \cup {0}}
  BY <1>1, <1>4, WalkedAll DEF WalkInv
<1>5. QED
  BY <1>2, <1>3, <1>4 DEF DepthFirst

(***************************************************************************)
(* One more visit: the list grows by the entity if that has a role.        *)
(***************************************************************************)
LEMMA ListedMore ==
  ASSUME NEW o \in ObjectType, NEW vs \in Seq(Ids), NEW e \in Ids, NEW ls \in Seq(Ids),
         EntitiesSay(o, vs, ls)
  PROVE  EntitiesSay(o, Append(vs, e), IF o.entities[e].roles = {} THEN ls ELSE Append(ls, e))
<1> DEFINE n == Len(vs)
           us == Append(vs, e)
           W == WithRole(o, vs)
           X == WithRole(o, us)
<1>1. n \in Nat /\ Len(us) = n + 1 /\ us[n + 1] = e /\ \A v \in 1..n : us[v] = vs[v]
  OBVIOUS
<1>2. W \subseteq 1..n /\ X = IF o.entities[e].roles = {} THEN W ELSE W \cup {n + 1}
  <2>1. 1..(n + 1) = 1..n \cup {n + 1}
    BY <1>1
  <2>2. QED
    BY <1>1, <2>1 DEF WithRole
<1>3. Len(ls) = Cardinality(W) /\ \A v \in W : ls[Cardinality(W \cap 1..v)] = vs[v]
  BY DEF EntitiesSay
<1>4. IsFiniteSet(W) /\ Cardinality(W) \in Nat
  <2>1. IsFiniteSet(1..n)
    <3>1. n \in Int /\ 1 \in Int
      BY <1>1
    <3>2. QED
      BY <3>1, FS_Interval
  <2>2. QED
    BY <1>2, <2>1, FS_Subset, FS_CardinalityType
<1>5. \A v \in W : X \cap 1..v = W \cap 1..v /\ Cardinality(W \cap 1..v) \in 1..Cardinality(W)
  <2> TAKE v \in W
  <2>1. v \in 1..n /\ n + 1 \notin 1..v /\ v \in W \cap 1..v
    BY <1>1, <1>2
  <2>2. IsFiniteSet(W \cap 1..v) /\ Cardinality(W \cap 1..v) <= Cardinality(W)
    BY <1>4, FS_Subset
  <2>3. Cardinality(W \cap 1..v) \in Nat /\ Cardinality(W \cap 1..v) # 0
    <3> DEFINE T == W \cap 1..v
    <3>1. IsFiniteSet(T) /\ T # {}
      BY <2>1, <2>2
    <3> HIDE DEF T
    <3>2. Cardinality(T) \in Nat /\ Cardinality(T) # 0
      BY <3>1, FS_CardinalityType, FS_EmptySet
    <3>3. QED
      BY <3>2 DEF T
  <2>4. X \cap 1..v = W \cap 1..v
    BY <1>2, <2>1
  <2> HIDE DEF W, X
  <2>5. QED
    BY <1>4, <2>2, <2>3, <2>4
<1> HIDE DEF n, us, W, X
<1>6. CASE o.entities[e].roles = {}
  <2>1. X = W
    BY <1>2, <1>6
  <2>2. \A v \in X : ls[Cardinality(X \cap 1..v)] = us[v]
    BY <1>1, <1>2, <1>3, <2>1
  <2>3. EntitiesSay(o, us, ls)
    BY <1>3, <2>1, <2>2 DEF EntitiesSay, X
  <2>4. QED
    BY <1>6, <2>3 DEF us
<1>7. CASE o.entities[e].roles # {}
  <2>1. X = W \cup {n + 1} /\ n + 1 \notin W /\ X \cap 1..(n + 1) = X
    <3>1. X = W \cup {n + 1}
      BY <1>2, <1>7
    <3>2. \A x \in W : x \in 1..n
      BY <1>2
    <3>3. \A x \in X : x \in 1..(n + 1)
      BY <1>1, <3>1, <3>2
    <3>4. n + 1 \notin 1..n
      BY <1>1
    <3>5. QED
      BY <3>1, <3>2, <3>3, <3>4
  <2>2. Cardinality(X) = Cardinality(W) + 1
    BY <1>4, <2>1, FS_AddElement
  <2>3. Len(Append(ls, e)) = Len(ls) + 1 /\ Append(ls, e)[Len(ls) + 1] = e
        /\ \A k \in 1..Len(ls) : Append(ls, e)[k] = ls[k]
    OBVIOUS
  <2>4. \A v \in X : Append(ls, e)[Cardinality(X \cap 1..v)] = us[v]
    <3> TAKE v \in X
    <3>1. CASE v = n + 1
      BY <1>1, <1>3, <2>1, <2>2, <2>3, <3>1
    <3>2. CASE v \in W
      <4>1. Cardinality(X \cap 1..v) = Cardinality(W \cap 1..v) /\ Cardinality(W \cap 1..v) \in 1..Len(ls)
        BY <1>3, <1>5, <3>2
      <4>2. us[v] = vs[v]
        BY <1>1, <1>2, <3>2
      <4>3. QED
        BY <1>3, <2>3, <3>2, <4>1, <4>2
    <3>3. QED
      BY <2>1, <3>1, <3>2
  <2>5. EntitiesSay(o, us, Append(ls, e))
    BY <1>3, <2>2, <2>3, <2>4 DEF EntitiesSay, X
  <2>6. QED
    BY <1>7, <2>5 DEF us
<1>8. QED
  BY <1>6, <1>7

LEMMA EntitiesStep == ObjectInv /\ EntitiesTell /\ [Next]_objectVars => EntitiesTell'
<1> SUFFICES ASSUME ObjectInv, EntitiesTell, [Next]_objectVars PROVE EntitiesTell'
  OBVIOUS
<1>1. CASE Visit
  <2>1. object \in ObjectType /\ visited \in Seq(Ids) /\ listed \in Seq(Ids) /\ todo \in Seq(Ids)
    BY DEF ObjectInv, TypeOK
  <2>2. todo # <<>> /\ object' = object /\ visited' = Append(visited, Here)
        /\ IF object.kind = "domain" THEN listed' = listed ELSE listed' = Listed
    BY <1>1 DEF Visit, Visiting
  <2>3. Here \in Ids
    BY <2>1, <2>2 DEF Here
  <2>4. CASE object.kind = "domain"
    BY <2>2, <2>4 DEF EntitiesTell
  <2>5. CASE object.kind # "domain"
    <3>1. EntitiesSay(object, visited, listed)
      BY <2>5 DEF EntitiesTell
    <3>2. EntitiesSay(object, visited', listed')
      BY <2>1, <2>2, <2>3, <2>5, <3>1, ListedMore DEF Listed, Entity
    <3>3. QED
      BY <2>2, <2>5, <3>2 DEF EntitiesTell
  <2>6. QED
    BY <2>4, <2>5
<1>2. CASE ~ Visit
  <2>1. UNCHANGED <<object, visited, listed>>
    BY <1>2 DEF Next, SkipEvent, Created, Updated, UpdatedInDatabase, Expires, TakeDate,
       TakeFirstDate, Panic, DatesEnd, TakeServer, ServersEnd, ReadProperty, WalkEnds, objectVars,
       serverVars, dateVars, walkVars
  <2>2. QED
    BY <2>1 DEF EntitiesTell
<1>3. QED
  BY <1>1, <1>2

-----------------------------------------------------------------------------
(***************************************************************************)
(* What the parsers made of an object so far is what its events, cards and *)
(* entities say.                                                           *)
(***************************************************************************)
THEOREM ObjectInvariant == Spec => []ObjectInv
<1>1. Init => ObjectInv
  BY ObjectInitInv
<1>2. ObjectInv /\ [Next]_objectVars => ObjectInv'
  BY ObjectStepInv
<1>3. QED
  BY <1>1, <1>2, PTL DEF Spec

(***************************************************************************)
(* The dates are the ones rdapDates promises, in whatever order the events *)
(* come.                                                                   *)
(***************************************************************************)
THEOREM ObjectDates == Spec => []DatesTell
<1>1. ObjectInv => DatesTell
  BY DEF ObjectInv
<1>2. QED
  BY <1>1, ObjectInvariant, PTL

(***************************************************************************)
(* The card that vcardContact is reading: the last name and organization,  *)
(* the first address and number.                                           *)
(***************************************************************************)
THEOREM ObjectCards == Spec => []CardTells
<1>1. ObjectInv => CardTells
  BY DEF ObjectInv
<1>2. QED
  BY <1>1, ObjectInvariant, PTL

(***************************************************************************)
(* mergeContact over the whole tree: each field of each role's contact is  *)
(* from the first entity in that role that has it.                         *)
(***************************************************************************)
THEOREM ObjectContacts == Spec => []ContactsTell
<1>1. ObjectInv => ContactsTell
  BY DEF ObjectInv
<1>2. QED
  BY <1>1, ObjectInvariant, PTL

(***************************************************************************)
(* The registrar is the last entity in that role, its identifier that of   *)
(* the last one that has any.                                              *)
(***************************************************************************)
THEOREM ObjectRegistrar == Spec => []RegistrarTells
<1>1. ObjectInv => RegistrarTells
  BY DEF ObjectInv
<1>2. QED
  BY <1>1, ObjectInvariant, PTL

(***************************************************************************)
(* No event, server or property beyond the object's own is looked at.      *)
(***************************************************************************)
THEOREM ObjectTyped == Spec => []TypeOK
<1>1. ObjectInv => TypeOK
  BY DEF ObjectInv
<1>2. QED
  BY <1>1, ObjectInvariant, PTL

(***************************************************************************)
(* The name servers are those that were named, each once, in the order of  *)
(* their first mention (parseRDAP, appendUnique).                          *)
(***************************************************************************)
THEOREM ObjectServers == Spec => []ServersTell
<1>1. Init => ServersTell
  BY DEF Init, ServersTell
<1>2. QED
  BY <1>1, ServersStep, ObjectInvariant, PTL DEF Spec

(***************************************************************************)
(* A network's record lists the visited entities with a role, in order     *)
(* (rdapEntityContacts).                                                   *)
(***************************************************************************)
THEOREM ObjectEntities == Spec => []EntitiesTell
<1>1. Init => EntitiesTell
  <2> SUFFICES ASSUME Init PROVE EntitiesTell
    OBVIOUS
  <2>1. visited = <<>> /\ listed = <<>> /\ WithRole(object, visited) = {}
    BY DEF Init, WithRole
  <2>2. QED
    BY <2>1, FS_EmptySet DEF EntitiesTell, EntitiesSay
<1>2. QED
  BY <1>1, EntitiesStep, ObjectInvariant, PTL DEF Spec

(***************************************************************************)
(* The walk of the entities is depth first, in the order of the object,    *)
(* and visits each of them once (walkRDAPEntities).                        *)
(***************************************************************************)
THEOREM ObjectDepthFirst == Spec => []DepthFirst
<1>1. Spec => []WalkInv
  BY WalkInit, WalkInvStep, ObjectInvariant, PTL DEF Spec
<1>2. ObjectInv /\ WalkInv => DepthFirst
  BY WalkedDepthFirst DEF ObjectInv
<1>3. QED
  BY <1>1, <1>2, ObjectInvariant, PTL
=============================================================================
