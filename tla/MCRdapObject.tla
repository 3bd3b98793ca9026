---------------------------- MODULE MCRdapObject ----------------------------
(* Three families of objects: every short sequence of events, of name       *)
(* servers and of card properties, and every small tree of entities.        *)
EXTENDS RdapObject, SequencesExt

Nobody == [roles |-> {}, card |-> <<>>, handle |-> FALSE, ianaID |-> FALSE, sub |-> <<>>]
Bare == [kind |-> "domain", events |-> <<>>, servers |-> <<>>, top |-> <<>>,
         entities |-> [e \in Ids |-> Nobody]]

CONSTANTS MaxEvents, MaxServers, MaxCard

EventKinds == {e \in EventType : e.dated \/ e.action \in {"last changed", "expiration"}}
WithEvents ==
  {[Bare EXCEPT !.kind = k, !.events = s] : k \in Kinds, s \in BoundedSeq(EventKinds, MaxEvents)}

WithServers ==
  {[Bare EXCEPT !.servers = s] : s \in BoundedSeq(Hosts \cup {NoHost}, MaxServers)}

\* One entity in three roles, with every card.
Single(card, handle) ==
  [Nobody EXCEPT !.roles = {"registrar", "technical"}, !.card = card, !.handle = handle]
WithCard ==
  {[Bare EXCEPT !.top = <<1>>, !.entities[1] = Single(card, handle)] :
     card \in BoundedSeq(PropType, MaxCard), handle \in BOOLEAN}

\* Three entities: who is where, and who they are.
Forests ==
  { [top |-> <<1, 2, 3>>, sub |-> << <<>>, <<>>, <<>> >>],
    [top |-> <<1, 3>>, sub |-> << <<2>>, <<>>, <<>> >>],
    [top |-> <<1, 2>>, sub |-> << <<>>, <<3>>, <<>> >>],
    [top |-> <<1>>, sub |-> << <<2, 3>>, <<>>, <<>> >>],
    [top |-> <<1>>, sub |-> << <<2>>, <<3>>, <<>> >>] }

Full(f) == [field |-> f, empty |-> FALSE]
People ==
  { Nobody,
    [Nobody EXCEPT !.roles = {"registrar"}],
    [Nobody EXCEPT !.roles = {"registrar"}, !.handle = TRUE, !.ianaID = TRUE],
    [Nobody EXCEPT !.roles = {"registrar"}, !.card = <<Full("organization")>>],
    [Nobody EXCEPT !.roles = {"registrar", "technical"}, !.ianaID = TRUE,
                   !.card = <<Full("name"), Full("email")>>],
    [Nobody EXCEPT !.roles = {"technical"}, !.card = <<Full("email")>>],
    [Nobody EXCEPT !.roles = {"technical", "billing"}, !.card = <<Full("name"), Full("phone")>>],
    [Nobody EXCEPT !.roles = {"abuse"}, !.card = <<Full("name")>>] }

WithPeople ==
  {[Bare EXCEPT !.kind = k, !.top = t.top,
                !.entities = [e \in Ids |-> [who[e] EXCEPT !.sub = t.sub[e]]]] :
     k \in {"domain", "ip"}, t \in Forests, who \in [Ids -> People]}

Instances == WithEvents \cup WithServers \cup WithCard \cup WithPeople
=============================================================================
