----------------------------- MODULE RdapObject -----------------------------
(***************************************************************************)
(* From a decoded RDAP object to the fields of a record (rdap.go, ip.go):  *)
(* parseRDAP for domains, parseRDAPIP and the end of QueryASNContext for   *)
(* networks.  They share rdapDates, the depth-first walk of the entities   *)
(* and vcardContact, which decide in each field's own way which of several *)
(* statements about it stands.                                             *)
(*                                                                         *)
(* A value is where it was found: the number of an event, or the entity    *)
(* and the number of the property of its card.  Fields that are copied as  *)
(* they are (handle, statuses, addresses) are left out.                    *)
(***************************************************************************)
EXTENDS Naturals, Sequences, FiniteSets

CONSTANTS
  Objects,  \* the RDAP objects that servers send
  Ids,      \* names for the entities of an object
  Hosts,    \* names of name servers
  NoHost    \* the empty name

Kinds == {"domain", "ip", "autnum"}
ContactRoles == {"registrant", "administrative", "technical", "billing"}
Fields == {"name", "organization", "email", "phone"}

\* A date that is not RFC 3339 is not dated.  A second action for the same
\* field ("reregistration") is the first one.
EventType ==
  [action : {"registration", "expiration", "last changed", "database", "other"}, dated : BOOLEAN]

\* A property of a card is of one field or malformed, and its text may be empty.
PropType == [field : Fields \cup {"other"}, empty : BOOLEAN]

\* ianaID: a public identifier of IANA; sub: the entities within, in order.
EntityType ==
  [roles : SUBSET (ContactRoles \cup {"registrar", "abuse"}), card : Seq(PropType),
   handle : BOOLEAN, ianaID : BOOLEAN, sub : Seq(Ids)]

ObjectType ==
  [kind : Kinds, events : Seq(EventType), servers : Seq(Hosts \cup {NoHost}),
   top : Seq(Ids), entities : [Ids -> EntityType]]

\* The entities that e has within it, and those that are in no other: e is 0.
List(o, e) == IF e = 0 THEN o.top ELSE o.entities[e].sub

\* JSON nests: an entity is numbered before those within it, stands in one
\* place, and has no others within it unless it stands somewhere itself.
Nested(o) ==
  /\ \A e \in Ids : \A m \in 1..Len(List(o, e)) : e < List(o, e)[m]
  /\ \A e, f \in Ids \cup {0} : \A m \in 1..Len(List(o, e)), n \in 1..Len(List(o, f)) :
       List(o, e)[m] = List(o, f)[n] => e = f /\ m = n
  /\ \A e \in Ids : List(o, e) # <<>> =>
       \E f \in Ids \cup {0} : \E m \in 1..Len(List(o, f)) : List(o, f)[m] = e

ASSUME ObjectAssumption ==
  /\ Ids \subseteq Nat \ {0}
  /\ NoHost \notin Hosts
  /\ Objects \subseteq ObjectType
  /\ \A o \in Objects : Nested(o)

VARIABLES
  object,   \* what is parsed
  at,       \* "dates", "servers", "walk", "done", or "panicked"
  event,    \* the next event
  dates,    \* the event that each date is from, 0 for nil
  server,   \* the next name server
  servers,  \* p.NameServers
  todo,     \* the entities the recursion has yet to visit, in its order
  prop,     \* the next property of the card of the first of them
  ct,       \* what was read of that card
  visited,  \* the entities that were visited, in order
  people,   \* who a domain's record names
  listed    \* the entities a network's record lists

objectVars ==
  <<object, at, event, dates, server, servers, todo, prop, ct, visited, people, listed>>
dateVars == <<event, dates>>
serverVars == <<server, servers>>
walkVars == <<todo, prop, ct, visited, people, listed>>

None == <<0, 0>>
NoContact == [f \in Fields |-> None]

Init ==
  /\ object \in Objects
  /\ at = IF object.kind = "domain" THEN "dates" ELSE "walk"
  /\ event = 1
  /\ dates = [created |-> 0, updated |-> 0, expiry |-> 0]
  /\ server = 1 /\ servers = <<>>
  /\ todo = object.top
  /\ prop = 1 /\ ct = NoContact
  /\ visited = <<>>
  /\ people = [registrar |-> None, registrarID |-> 0, contact |-> [r \in ContactRoles |-> NoContact]]
  /\ listed = <<>>

-----------------------------------------------------------------------------
(* rdapDates *)
InDates == at = "dates" /\ event <= Len(object.events)
Event == object.events[event]

SkipEvent ==
  /\ InDates
  /\ ~ Event.dated \/ Event.action = "other"
  /\ event' = event + 1
  /\ UNCHANGED <<object, at, dates, serverVars, walkVars>>

TakeDate(action, field) ==
  /\ InDates /\ Event.dated /\ Event.action = action
  /\ dates' = [dates EXCEPT ![field] = event]
  /\ event' = event + 1
  /\ UNCHANGED <<object, at, serverVars, walkVars>>

TakeFirstDate(action, field) ==
  /\ InDates /\ Event.dated /\ Event.action = action
  /\ dates' = [dates EXCEPT ![field] = IF @ = 0 THEN event ELSE @]
  /\ event' = event + 1
  /\ UNCHANGED <<object, at, serverVars, walkVars>>

Created == TakeFirstDate("registration", "created")

\* Faulty: what comes first stands, of whichever of the two events it is.
UpdatedFirst == TakeFirstDate("last changed", "updated")

Updated == TakeDate("last changed", "updated")
UpdatedInDatabase == TakeFirstDate("database", "updated")
Expires == object.kind = "domain" /\ TakeDate("expiration", "expiry")

\* Networks have no expiry: the pointer is nil.
Panic ==
  /\ InDates /\ Event.dated /\ Event.action = "expiration" /\ object.kind # "domain"
  /\ at' = "panicked"
  /\ UNCHANGED <<object, dateVars, serverVars, walkVars>>

DatesEnd ==
  /\ at = "dates" /\ event > Len(object.events)
  /\ at' = IF object.kind = "domain" THEN "servers" ELSE "done"
  /\ UNCHANGED <<object, dateVars, serverVars, walkVars>>

-----------------------------------------------------------------------------
(* the name servers of a domain *)
\* Faulty: only a repetition that follows at once is dropped.
AppendUniqueToLast(s, v) == IF s # <<>> /\ s[Len(s)] = v THEN s ELSE Append(s, v)

AppendUnique(s, v) == IF \E m \in 1..Len(s) : s[m] = v THEN s ELSE Append(s, v)

\* Faulty: a server without a name is a server.
TakeServerUnchecked ==
  /\ at = "servers" /\ server <= Len(object.servers)
  /\ servers' = AppendUnique(servers, object.servers[server])
  /\ server' = server + 1
  /\ UNCHANGED <<object, at, dateVars, walkVars>>

TakeServer ==
  /\ at = "servers" /\ server <= Len(object.servers)
  /\ servers' = IF object.servers[server] = NoHost THEN servers
                ELSE AppendUnique(servers, object.servers[server])
  /\ server' = server + 1
  /\ UNCHANGED <<object, at, dateVars, walkVars>>

ServersEnd ==
  /\ at = "servers" /\ server > Len(object.servers)
  /\ at' = "walk"
  /\ UNCHANGED <<object, dateVars, serverVars, walkVars>>

-----------------------------------------------------------------------------
(* The walk.  vcardContact reads the card of an entity property by property *)
(* and the roles of the entity then say where the contact goes.             *)
Visiting == at = "walk" /\ todo # <<>>
Here == Head(todo)
Entity == object.entities[Here]
Value(empty) == IF empty THEN None ELSE <<Here, prop>>

\* Faulty: the last value stands for every field.
ReadLast(p) == IF p.field \in Fields THEN [ct EXCEPT ![p.field] = Value(p.empty)] ELSE ct

\* The last name and organization; the first address and number that is not
\* empty.
Read(p) ==
  CASE p.field \in {"name", "organization"} -> [ct EXCEPT ![p.field] = Value(p.empty)]
    [] p.field \in {"email", "phone"} ->
         [ct EXCEPT ![p.field] = IF @ = None THEN Value(p.empty) ELSE @]
    [] OTHER -> ct

ReadProperty ==
  /\ Visiting /\ prop <= Len(Entity.card)
  /\ ct' = Read(Entity.card[prop])
  /\ prop' = prop + 1
  /\ UNCHANGED <<object, at, dateVars, serverVars, todo, visited, people, listed>>

\* The name, the organization, or the handle, which is property 0 here.
RegistrarName ==
  IF ct["name"] # None THEN ct["name"]
  ELSE IF ct["organization"] # None THEN ct["organization"]
  ELSE IF Entity.handle THEN <<Here, 0>> ELSE None

\* Faulty: a registrar without an identifier takes the other's away.
RegistrarReset ==
  IF "registrar" \in Entity.roles
  THEN [people EXCEPT !.registrar = RegistrarName, !.registrarID = IF Entity.ianaID THEN Here ELSE 0]
  ELSE people

Registrar ==
  IF "registrar" \in Entity.roles
  THEN [people EXCEPT !.registrar = RegistrarName,
                      !.registrarID = IF Entity.ianaID THEN Here ELSE @]
  ELSE people

\* Faulty: a later contact replaces an earlier one.
MergeContactReplacing(dst, src) == [f \in Fields |-> IF src[f] = None THEN dst[f] ELSE src[f]]

MergeContact(dst, src) == [f \in Fields |-> IF dst[f] = None THEN src[f] ELSE dst[f]]

\* Every role writes fields of its own, so their order does not matter.
WithRoles ==
  [Registrar EXCEPT !.contact =
     [r \in ContactRoles |-> IF r \in Entity.roles THEN MergeContact(@[r], ct) ELSE @[r]]]

\* Faulty: the entities within come after those beside.
RemainingBesideFirst == Tail(todo) \o Entity.sub

\* The entities within come before those beside.
Remaining == Entity.sub \o Tail(todo)

\* Faulty: an entity without a role is listed too.
ListedAll == Append(listed, Here)

\* rdapEntityContacts
Listed == IF Entity.roles = {} THEN listed ELSE Append(listed, Here)

Visit ==
  /\ Visiting /\ prop > Len(Entity.card)
  /\ IF object.kind = "domain"
     THEN people' = WithRoles /\ UNCHANGED listed
     ELSE listed' = Listed /\ UNCHANGED people
  /\ visited' = Append(visited, Here)
  /\ todo' = Remaining
  /\ prop' = 1 /\ ct' = NoContact
  /\ UNCHANGED <<object, at, dateVars, serverVars>>

WalkEnds ==
  /\ at = "walk" /\ todo = <<>>
  /\ at' = IF object.kind = "domain" THEN "done" ELSE "dates"
  /\ UNCHANGED <<object, dateVars, serverVars, walkVars>>

Next ==
  \/ SkipEvent \/ Created \/ Updated \/ UpdatedInDatabase \/ Expires \/ Panic \/ DatesEnd
  \/ TakeServer \/ ServersEnd
  \/ ReadProperty \/ Visit \/ WalkEnds

Spec == Init /\ [][Next]_objectVars /\ WF_objectVars(Next)

-----------------------------------------------------------------------------
ValueType == (Ids \cup {0}) \X Nat
ContactType == [Fields -> ValueType]

\* The record's values come from events, entities and cards that the object
\* has, as far as they were read.
TypeOK ==
  /\ object \in ObjectType
  /\ at \in {"dates", "servers", "walk", "done", "panicked"}
  /\ event \in 1..(Len(object.events) + 1)
  /\ dates \in [created : 0..(event - 1), updated : 0..(event - 1), expiry : 0..(event - 1)]
  /\ server \in 1..(Len(object.servers) + 1)
  /\ servers \in Seq(Hosts)
  /\ todo \in Seq(Ids)
  /\ prop \in Nat \ {0}
  /\ ct \in ContactType
  /\ visited \in Seq(Ids)
  /\ people \in [registrar : ValueType, registrarID : Ids \cup {0},
                 contact : [ContactRoles -> ContactType]]
  /\ listed \in Seq(Ids)

IsFirst(n, S) == n \in S /\ \A m \in S : n <= m
IsLast(n, S) == n \in S /\ \A m \in S : m <= n

\* The events with a date among the first n of o that have the action.
Dated(o, n, action) == {m \in 1..n : o.events[m].dated /\ o.events[m].action = action}

FirstOf(n, S) == IF S = {} THEN n = 0 ELSE IsFirst(n, S)
LastOf(n, S) == IF S = {} THEN n = 0 ELSE IsLast(n, S)

\* What the first n events of o say of the dates d.
DatesSay(o, n, d) ==
  /\ FirstOf(d.created, Dated(o, n, "registration"))
  /\ LastOf(d.expiry, Dated(o, n, "expiration"))
  /\ IF Dated(o, n, "last changed") = {}
     THEN FirstOf(d.updated, Dated(o, n, "database"))
     ELSE IsLast(d.updated, Dated(o, n, "last changed"))

\* rdapDates: the first registration and the last expiration stand, and an
\* update of the object beats an update of the database wherever they come.
DatesTell == DatesSay(object, event - 1, dates)

\* parseRDAP: the list has every server that was named, and the one that was
\* named first stands in front of the other: so none is in it twice.
ServersTell ==
  /\ \A v \in Hosts : (\E m \in 1..(server - 1) : object.servers[m] = v)
                     <=> \E n \in 1..Len(servers) : servers[n] = v
  /\ \A n, k \in 1..Len(servers) : n < k =>
       \E l \in 1..(server - 1) :
         /\ object.servers[l] = servers[n]
         /\ \A m \in 1..l : object.servers[m] # servers[k]

\* What the first n properties of a card of e say of a field: of a name or an
\* organization the last one, even if it is empty; of an address or a number
\* the first one that is not.
Says(card, e, n, f, value) ==
  LET Of == {j \in 1..n : card[j].field = f}
      Full == {j \in Of : ~ card[j].empty}
  IN  IF f \in {"name", "organization"}
      THEN IF Of = {} THEN value = None
           ELSE \E j \in Of : IsLast(j, Of) /\ value = IF card[j].empty THEN None ELSE <<e, j>>
      ELSE IF Full = {} THEN value = None
           ELSE \E j \in Full : IsFirst(j, Full) /\ value = <<e, j>>

CardSays(o, e, f, value) ==
  Says(o.entities[e].card, e, Len(o.entities[e].card), f, value)
Silent(o, e, f) == CardSays(o, e, f, None)

\* vcardContact, in the middle of the card that is being read.
CardTells ==
  IF Visiting THEN /\ prop <= Len(Entity.card) + 1
                   /\ \A f \in Fields : Says(Entity.card, Here, prop - 1, f, ct[f])
  ELSE prop = 1 /\ ct = NoContact

\* The visits vs of o that were made to entities with a role, to those of them
\* whose card says something of a field, or that have an identifier.
InRole(o, vs, r) == {v \in 1..Len(vs) : r \in o.entities[vs[v]].roles}
Vocal(o, vs, r, f) == {v \in InRole(o, vs, r) : ~ Silent(o, vs[v], f)}
Identified(o, vs) == {v \in InRole(o, vs, "registrar") : o.entities[vs[v]].ianaID}

\* mergeContact: each field of a contact is what the first entity in the role
\* that says anything of it says, whichever entities the others are from.
Tells(o, vs, r, f, value) ==
  IF Vocal(o, vs, r, f) = {} THEN value = None
  ELSE \E v \in Vocal(o, vs, r, f) :
         IsFirst(v, Vocal(o, vs, r, f)) /\ CardSays(o, vs[v], f, value)

ContactsTell ==
  object.kind = "domain" =>
    \A r \in ContactRoles, f \in Fields : Tells(object, visited, r, f, people.contact[r][f])

\* A registrar's name, or organization, or handle.
Names(o, e, value) ==
  IF ~ Silent(o, e, "name") THEN CardSays(o, e, "name", value)
  ELSE IF ~ Silent(o, e, "organization") THEN CardSays(o, e, "organization", value)
  ELSE value = IF o.entities[e].handle THEN <<e, 0>> ELSE None

NameIs(o, vs, value) ==
  IF InRole(o, vs, "registrar") = {} THEN value = None
  ELSE \E v \in InRole(o, vs, "registrar") :
         IsLast(v, InRole(o, vs, "registrar")) /\ Names(o, vs[v], value)

IdentifierIs(o, vs, value) ==
  IF Identified(o, vs) = {} THEN value = 0
  ELSE \E v \in Identified(o, vs) : IsLast(v, Identified(o, vs)) /\ value = vs[v]

\* The registrar is the last one that was visited, even one without a name,
\* and its identifier that of the last one that has any: two entities, maybe.
RegistrarTells ==
  object.kind = "domain" =>
    NameIs(object, visited, people.registrar) /\ IdentifierIs(object, visited, people.registrarID)

\* The visits vs of o that were made to entities with a role.
WithRole(o, vs) == {v \in 1..Len(vs) : o.entities[vs[v]].roles # {}}

\* rdapEntityContacts: a network's record lists the visited entities that have
\* a role, and no others: the k-th of them at place k.
EntitiesSay(o, vs, ls) ==
  /\ Len(ls) = Cardinality(WithRole(o, vs))
  /\ \A v \in WithRole(o, vs) : ls[Cardinality(WithRole(o, vs) \cap 1..v)] = vs[v]

EntitiesTell ==
  IF object.kind = "domain" THEN listed = <<>> ELSE EntitiesSay(object, visited, listed)

ObjectInv ==
  TypeOK /\ DatesTell /\ CardTells /\ ContactsTell /\ RegistrarTells

Members(s) == {s[m] : m \in 1..Len(s)}
Within(o, e) == Members(List(o, e))

\* Between the visits v and w come only entities within the former's, at any
\* depth.
Descends(o, vs, v, w) ==
  \A u \in (v + 1)..w : \E t \in v..(u - 1) : vs[u] \in Within(o, vs[t])

\* The walk is depth first, in the order of the object: nobody is visited
\* twice; between an entity and one within it come only entities within the
\* former, at any depth; those beside each other keep their order; and in the
\* end everybody was visited.
DepthFirst ==
  /\ \A v, w \in 1..Len(visited) : v # w => visited[v] # visited[w]
  /\ \A v, w \in 1..Len(visited) : visited[w] \in Within(object, visited[v]) =>
       v < w /\ Descends(object, visited, v, w)
  /\ \A e \in Ids \cup {0} : \A m, n \in 1..Len(List(object, e)) :
       \A v, w \in 1..Len(visited) :
         m < n /\ visited[v] = List(object, e)[m] /\ visited[w] = List(object, e)[n] => v < w
  /\ at = "done" => Members(visited) = UNION {Within(object, e) : e \in Ids \cup {0}}

=============================================================================
