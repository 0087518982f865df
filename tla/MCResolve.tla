------------------------------ MODULE MCResolve ------------------------------
(* Resolving on small inventories: two datacenters, a rack and a server.   *)
EXTENDS Resolve, TLC

MCValues == {"x", "yx", "p1", "p12", "2", "q"}

MCBegins == {<<v, v>> : v \in MCValues} \cup {<<"p1", "p12">>}

MCWithin == MCBegins \cup {<<"x", "yx">>, <<"2", "p12">>}

\* The attributes of each kind of asset, and the texts each can have.
MCExtOf ==
  [datacenter |-> {"name"},
   device |-> {"name", "device.contact", "contact_email", "hostname.1", "ip.1"},
   other |-> {"contact_email"}]

\* Not every attribute is changed where two changes are allowed.
MovingExtOf == [datacenter |-> {}, device |-> {"name", "contact_email", "ip.1"}, other |-> {}]

TwoAddressesExtOf == [MCExtOf EXCEPT !.device = @ \cup {"ip.2"}]

MCTextsOf ==
  [k \in Keytags \cup {"element", "type"} |->
     IF k \in {"ip.1", "ip.2"} THEN {"p1", "p12"} ELSE {"x", "yx"}]

MovingTextsOf == [MCTextsOf EXCEPT !["type"] = {}]

\* What is neither a datacenter nor a device has no type.
An(kind, name, parent, ext) ==
  [kind |-> kind, name |-> name, parent |-> parent,
   subtype |-> IF kind = "other" THEN Absent ELSE "x",
   ext |-> ext @@ [k \in Keytags |-> Absent]]

Server(parent) ==
  An("device", "x", parent,
     ("name" :> "x") @@ ("contact_email" :> "yx") @@ ("hostname.1" :> "x") @@ ("ip.1" :> "p12"))

\* Datacenters 1 and 2, rack 4 in the first, server 3 in the rack or outside.
MCInventories ==
  {1 :> An("datacenter", "x", 0, "name" :> "yx") @@ 2 :> An("datacenter", "yx", 0, <<>>)
     @@ 3 :> Server(p) @@ 4 :> An("other", "x", 1, "contact_email" :> "x") : p \in {2, 4}}

\* The server has a second address, and only that one fits the rule.
TwoAddressesInventories ==
  {[i EXCEPT ![3].ext = ("ip.1" :> "q") @@ ("ip.2" :> "p12") @@ @] : i \in MCInventories}

On(field, op, text) ==
  [field |-> field, op |-> op, value |-> <<[text |-> text, wild |-> FALSE]>>]

Address(op, patterns) == [field |-> "ip-address", op |-> op, value |-> patterns]

Plain(text) == [text |-> text, wild |-> FALSE]
Star(text) == [text |-> text, wild |-> TRUE]

One(c) == [groupOp |-> "And", conditions |-> <<c>>]

\* Every field with every operator, and every form of address.
Singles ==
  {One(On(f, op, "x")) : f \in {"name", "location", "type", "contact", "host-name"}, op \in Ops}
  \cup {One(Address(op, v)) :
          op \in Ops, v \in {<<Plain("2")>>, <<Star("2")>>, <<Star("p1")>>, <<Plain("p1"), Star("p12")>>}}

\* A location read early with a condition read late, two locations, and the
\* rules that cannot be resolved.
Combinations ==
  {[groupOp |-> g, conditions |-> <<On("location", l, "x"), c>>] :
     g \in {"And", "Or"}, l \in Ops,
     c \in {On("name", "Is", "x"), On("contact", "IsNot", "x"), On("location", "IsNot", "x")}}
  \cup {One(On("unknown", "Is", "x")), One(Nested), [groupOp |-> "Or", conditions |-> <<>>]}

\* What the runs without a violation resolve.
MCRuleSets == Singles \cup Combinations

NestedRuleSets == {One(Nested), [groupOp |-> "And", conditions |-> <<On("name", "Contains", "x"), Nested>>]}

AlternativesRuleSets == {One(Address("Is", <<Star("x"), Star("p1")>>))}
=============================================================================
