---------------------------- MODULE AssetQueries ----------------------------
(***************************************************************************)
(* The SQL that server/src/lib/jobs/resolve.cpp builds for one condition   *)
(* of a rule, as the set of assets it selects from the tables of the asset *)
(* database, and beside it what the condition means for one asset.         *)
(*                                                                         *)
(* Text is compared by the database.  Which text is part of which, and     *)
(* which begins which, is all that the queries can tell, so a text is a    *)
(* value and the two relations are constants.                              *)
(***************************************************************************)
EXTENDS Naturals, Sequences

CONSTANTS Elements,  \* id_asset_element of every asset there can be
          Values,    \* texts: names, types, addresses, ...
          Within,    \* <<part, whole>>: whole LIKE '%part%'
          Begins     \* <<part, whole>>: whole LIKE 'part%'

Absent == "absent"   \* no such row

ASSUME AssetQueriesAssumption ==
  /\ Elements \subseteq Nat \ {0}
  /\ Absent \notin Values
  /\ Within \subseteq Values \X Values /\ \A v \in Values : <<v, v>> \in Within
  /\ Begins \subseteq Within

Keytags == {"name", "device.contact", "contact_email", "hostname.1", "ip.1", "ip.2"}

Kinds == {"datacenter", "device", "other"}

\* A row of t_bios_asset_element, with the type it is joined with, if there is
\* one, and its t_bios_asset_ext_attributes.
Asset == [kind : Kinds, name : Values, subtype : Values \cup {Absent},
          parent : Elements \cup {0}, ext : [Keytags -> Values \cup {Absent}]]

Fields == {"name", "location", "type", "contact", "host-name", "ip-address", "unknown"}

Ops == {"Contains", "Is", "IsNot"}

(* The value of a condition, split at "|"; wild says that it ends at a "*". *)
(* Only the query for addresses knows of the two.                          *)
Pattern == [text : Values, wild : BOOLEAN]

Condition == [field : Fields, op : Ops, value : Seq(Pattern)]

Text(c) == c.value[1].text

-----------------------------------------------------------------------------
(* The queries.                                                            *)

\* op and value: the comparison of a column with the text of a condition.
Compare(op, column, text) ==
  \/ op = "Contains" /\ <<text, column>> \in Within
  \/ op = "Is" /\ column = text
  \/ op = "IsNot" /\ column # text

\* The negative conditions that are "NOT IN" the positive query.
Positive(op) == IF op = "IsNot" THEN "Is" ELSE op

Attributes(db) ==
  {r \in [element : DOMAIN db, keytag : Keytags, value : Values] :
     db[r.element].ext[r.keytag] = r.value}

Having(db, keytags, op, text) ==
  {r.element : r \in {a \in Attributes(db) :
                        a.keytag \in keytags /\ Compare(op, a.value, text)}}

Devices(db) == {e \in DOMAIN db : db[e].kind = "device"}

Except(op, all, positive) == IF op = "IsNot" THEN all \ positive ELSE positive

ByName(db, c) == Having(db, {"name"}, c.op, Text(c))

\* Mutant: the negative query compares the attribute with "<>".
ByContact_Direct(db, c) == Having(db, {"device.contact", "contact_email"}, c.op, Text(c))

ByContact(db, c) ==
  Except(c.op, DOMAIN db,
         Having(db, {"device.contact", "contact_email"}, Positive(c.op), Text(c)))

\* No comparison holds of the NULL that the left join gives without a type.
ByType(db, c) ==
  {e \in DOMAIN db : db[e].subtype # Absent /\ Compare(c.op, db[e].subtype, Text(c))}

ByHostName(db, c) ==
  Except(c.op, Devices(db),
         Devices(db) \cap Having(db, {"hostname.1"}, Positive(c.op), Text(c)))

(* The addresses are joined with " OR " behind "keytag='ip.1' AND id_type = *)
(* ... AND" without parentheses: the two hold the first of them only, the   *)
(* others are compared with every attribute of every asset.                 *)
ByIpAddress(db, c) ==
  LET Fits(k, value) ==
        LET p == c.value[k] IN
        IF p.wild THEN <<p.text, value>> \in Begins
                  ELSE Compare(Positive(c.op), value, p.text)
  IN Except(c.op, Devices(db),
       {r.element : r \in {a \in Attributes(db) :
          \/ a.keytag = "ip.1" /\ a.element \in Devices(db) /\ Fits(1, a.value)
          \/ \E k \in 2 .. Len(c.value) : Fits(k, a.value)}})

\* Mutant: containers of every kind are taken.
Datacenters_AnyKind(db, c) == {e \in DOMAIN db : Compare(c.op, db[e].name, Text(c))}

\* byLocation, first query: the datacenters whose name fits.
Datacenters(db, c) ==
  {e \in DOMAIN db : db[e].kind = "datacenter" /\ Compare(c.op, db[e].name, Text(c))}

\* The asset, its container, and so on up; 0 when there is no more.
WayUp(db, e) ==
  LET up[n \in 0 .. 10] ==
        IF n = 0 THEN e ELSE IF up[n - 1] \in DOMAIN db THEN db[up[n - 1]].parent ELSE 0
  IN up

\* v_bios_asset_element_super_parent: id_parent1 to id_parent10
Ancestors(db, e) == {WayUp(db, e)[n] : n \in 1 .. 10} \ {0}

(* The tables as the rest of the product keeps them: parents exist,        *)
(* datacenters have none, and nothing contains itself.                     *)
Inventory(db) ==
  /\ DOMAIN db \subseteq Elements /\ db \in [DOMAIN db -> Asset]
  /\ \A e \in DOMAIN db :
       /\ db[e].parent \in DOMAIN db \cup {0}
       /\ db[e].kind = "datacenter" => db[e].parent = 0
       /\ e \notin Ancestors(db, e)

\* byLocation, second query: what is in a container.
Inside(db, container) == {e \in DOMAIN db : container \in Ancestors(db, e)}

-----------------------------------------------------------------------------
(* What a condition means, asset by asset.  The facts are what the asset   *)
(* says about the field.                                                   *)

Facts(db, e, field) ==
  LET Ext(keytags) == {db[e].ext[k] : k \in keytags} \ {Absent} IN
  CASE field = "name" -> Ext({"name"})
    [] field = "contact" -> Ext({"device.contact", "contact_email"})
    [] field = "host-name" -> Ext({"hostname.1"})
    [] field = "ip-address" -> Ext({"ip.1"})
    [] field = "type" -> {db[e].subtype} \ {Absent}
    [] field = "location" ->
         {db[a].name : a \in {x \in Ancestors(db, e) \cap DOMAIN db : db[x].kind = "datacenter"}}

\* Host names and addresses are of devices, nothing else fits.
InScope(db, e, field) ==
  field \in {"host-name", "ip-address"} => db[e].kind = "device"

\* "Is not" holds of an asset that says nothing about contacts, host names
\* and addresses, but takes another name, type or location to be there.
Satisfies(db, e, c) ==
  LET facts == Facts(db, e, c.field)
      Fit(f) == \E k \in DOMAIN c.value :
                  IF c.value[k].wild /\ c.field = "ip-address"
                  THEN <<c.value[k].text, f>> \in Begins
                  ELSE Compare(Positive(c.op), f, c.value[k].text)
  IN /\ InScope(db, e, c.field)
     /\ \/ c.op # "IsNot" /\ \E f \in facts : Fit(f)
        \/ c.op = "IsNot" /\ c.field \in {"name", "type", "location"} /\ \E f \in facts : ~Fit(f)
        \/ c.op = "IsNot" /\ c.field \notin {"name", "type", "location"} /\ \A f \in facts : ~Fit(f)
=============================================================================
