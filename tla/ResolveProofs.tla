---------------------------- MODULE ResolveProofs ----------------------------
(* Theorems about resolving, for every inventory, every text and every     *)
(* number of changes.                                                      *)
EXTENDS Resolve, SequenceTheorems, TLAPS

(* The query of a condition selects the assets that the condition means.   *)
(* The value is one pattern: with several, it holds for the first only.    *)

OnePattern(c) == DOMAIN c.value = {1}

Says(d, e, keytags) == {d[e].ext[k] : k \in keytags} \ {Absent}

\* What a query for attributes finds.
LEMMA HavingFacts ==
  ASSUME NEW d, Inventory(d), NEW keytags \in SUBSET Keytags, NEW op, NEW text, NEW e \in DOMAIN d
  PROVE  e \in Having(d, keytags, op, text) <=> \E f \in Says(d, e, keytags) : Compare(op, f, text)
  <1>1. \A k \in Keytags : d[e].ext[k] \in Values \cup {Absent}
    BY DEF Inventory, Asset
  <1>2. ASSUME e \in Having(d, keytags, op, text)
        PROVE  \E f \in Says(d, e, keytags) : Compare(op, f, text)
    <2>1. PICK r \in Attributes(d) : r.keytag \in keytags /\ Compare(op, r.value, text) /\ r.element = e
      BY <1>2 DEF Having
    <2>2. d[e].ext[r.keytag] = r.value /\ r.value # Absent
      BY <2>1, AssetQueriesAssumption DEF Attributes
    <2>3. r.value \in Says(d, e, keytags)
      BY <2>1, <2>2 DEF Says
    <2> QED
      BY <2>1, <2>3
  <1>3. ASSUME NEW f \in Says(d, e, keytags), Compare(op, f, text)
        PROVE  e \in Having(d, keytags, op, text)
    <2>1. PICK k \in keytags : f = d[e].ext[k] /\ f # Absent
      BY <1>3 DEF Says
    <2> DEFINE r == [element |-> e, keytag |-> k, value |-> f]
    <2>2. r \in Attributes(d)
      BY <1>1, <2>1 DEF Attributes
    <2>3. r.keytag \in keytags /\ Compare(op, r.value, text) /\ r.element = e
      BY <1>3
    <2> HIDE DEF r
    <2> QED
      BY <2>2, <2>3 DEF Having
  <1> QED
    BY <1>2, <1>3

\* What one pattern means.
LEMMA SatisfiesOne ==
  ASSUME NEW d, NEW e, NEW c \in Condition, OnePattern(c), NEW keytags \in SUBSET Keytags,
         c.field \in {"contact", "host-name"}, Facts(d, e, c.field) = Says(d, e, keytags)
  PROVE  Satisfies(d, e, c) <=>
           /\ InScope(d, e, c.field)
           /\ c.op # "IsNot" => \E f \in Says(d, e, keytags) : Compare(c.op, f, Text(c))
           /\ c.op = "IsNot" => \A f \in Says(d, e, keytags) : ~Compare("Is", f, Text(c))
  BY DEF Satisfies, OnePattern, Positive, Text, Condition, Ops

LEMMA ContactExact ==
  ASSUME NEW d, Inventory(d), NEW e \in DOMAIN d, NEW c \in Condition, OnePattern(c),
         c.field = "contact"
  PROVE  e \in ByContact(d, c) <=> Satisfies(d, e, c)
  <1> DEFINE tags == {"device.contact", "contact_email"}
  <1>1. tags \in SUBSET Keytags /\ Facts(d, e, "contact") = Says(d, e, tags)
    BY DEF Keytags, Facts, Says
  <1> HIDE DEF tags
  <1>2. Satisfies(d, e, c) <=>
           /\ InScope(d, e, c.field)
           /\ c.op # "IsNot" => \E f \in Says(d, e, tags) : Compare(c.op, f, Text(c))
           /\ c.op = "IsNot" => \A f \in Says(d, e, tags) : ~Compare("Is", f, Text(c))
    BY <1>1, SatisfiesOne
  <1>3. ByContact(d, c) = Except(c.op, DOMAIN d, Having(d, tags, Positive(c.op), Text(c)))
    BY DEF ByContact, tags
  <1>4. \A op : e \in Having(d, tags, op, Text(c)) <=> \E f \in Says(d, e, tags) : Compare(op, f, Text(c))
    BY <1>1, HavingFacts
  <1> QED
    BY <1>2, <1>3, <1>4 DEF InScope, Except, Positive

\* The negative comparison is the opposite of the positive one.
LEMMA CompareText ==
  ASSUME NEW op \in Ops, NEW column, NEW text
  PROVE  /\ op # "IsNot" => (Compare(op, column, text) <=> Compare(Positive(op), column, text))
         /\ op = "IsNot" => (Compare(op, column, text) <=> ~Compare(Positive(op), column, text))
  BY DEF Compare, Positive, Ops

\* For these fields also "is not" needs something that the asset says.
LEMMA SatisfiesSome ==
  ASSUME NEW d, NEW e, NEW c \in Condition, OnePattern(c), c.field \in {"name", "type", "location"}
  PROVE  Satisfies(d, e, c) <=> \E f \in Facts(d, e, c.field) : Compare(c.op, f, Text(c))
  <1> DEFINE said == Facts(d, e, c.field)
  <1>1. Satisfies(d, e, c) <=>
          \/ c.op # "IsNot" /\ \E f \in said : Compare(Positive(c.op), f, Text(c))
          \/ c.op = "IsNot" /\ \E f \in said : ~Compare(Positive(c.op), f, Text(c))
    BY DEF Satisfies, OnePattern, Text, InScope
  <1>2. c.op \in Ops
    BY DEF Condition
  <1> HIDE DEF said
  <1>3. \A f : /\ c.op # "IsNot" => (Compare(c.op, f, Text(c)) <=> Compare(Positive(c.op), f, Text(c)))
               /\ c.op = "IsNot" => (Compare(c.op, f, Text(c)) <=> ~Compare(Positive(c.op), f, Text(c)))
    BY <1>2, CompareText
  <1>4. Satisfies(d, e, c) <=> \E f \in said : Compare(c.op, f, Text(c))
    BY <1>1, <1>3
  <1> QED
    BY <1>4 DEF said

LEMMA NameExact ==
  ASSUME NEW d, Inventory(d), NEW e \in DOMAIN d, NEW c \in Condition, OnePattern(c),
         c.field = "name"
  PROVE  e \in ByName(d, c) <=> Satisfies(d, e, c)
  <1>1. {"name"} \in SUBSET Keytags /\ Facts(d, e, c.field) = Says(d, e, {"name"})
    BY DEF Keytags, Facts, Says
  <1> QED
    BY <1>1, SatisfiesSome, HavingFacts DEF ByName

LEMMA TypeExact ==
  ASSUME NEW d, NEW e \in DOMAIN d, NEW c \in Condition, OnePattern(c), c.field = "type"
  PROVE  e \in ByType(d, c) <=> Satisfies(d, e, c)
  <1>1. Facts(d, e, c.field) = {d[e].subtype} \ {Absent}
    BY DEF Facts
  <1> QED
    BY <1>1, SatisfiesSome DEF ByType

LEMMA HostNameExact ==
  ASSUME NEW d, Inventory(d), NEW e \in DOMAIN d, NEW c \in Condition, OnePattern(c),
         c.field = "host-name"
  PROVE  e \in ByHostName(d, c) <=> Satisfies(d, e, c)
  <1> DEFINE tags == {"hostname.1"}
  <1>1. tags \in SUBSET Keytags /\ Facts(d, e, "host-name") = Says(d, e, tags)
    BY DEF Keytags, Facts, Says
  <1>2. ByHostName(d, c) = Except(c.op, Devices(d), Devices(d) \cap Having(d, tags, Positive(c.op), Text(c)))
    BY DEF ByHostName
  <1> HIDE DEF tags
  <1>3. Satisfies(d, e, c) <=>
           /\ d[e].kind = "device"
           /\ c.op # "IsNot" => \E f \in Says(d, e, tags) : Compare(c.op, f, Text(c))
           /\ c.op = "IsNot" => \A f \in Says(d, e, tags) : ~Compare("Is", f, Text(c))
    BY <1>1, SatisfiesOne DEF InScope
  <1>4. \A op : e \in Having(d, tags, op, Text(c)) <=> \E f \in Says(d, e, tags) : Compare(op, f, Text(c))
    BY <1>1, HavingFacts
  <1> QED
    BY <1>2, <1>3, <1>4 DEF Except, Positive, Devices

-----------------------------------------------------------------------------
(* The way up from an asset.                                               *)

LEMMA UpToTen ==
  ASSUME NEW S, 0 \in S, \A m \in 0 .. 9 : m \in S => m + 1 \in S
  PROVE  0 .. 10 \subseteq S
  <1>1. 1 \in S /\ 2 \in S
    OBVIOUS
  <1>2. 3 \in S /\ 4 \in S
    BY <1>1
  <1>3. 5 \in S /\ 6 \in S
    BY <1>2
  <1>4. 7 \in S /\ 8 \in S
    BY <1>3
  <1>5. 9 \in S /\ 10 \in S
    BY <1>4
  <1> QED
    BY <1>1, <1>2, <1>3, <1>4, <1>5

Container(d, x) == IF x \in DOMAIN d THEN d[x].parent ELSE 0

Climb(d, e, f, m) == f = [n \in 0 .. m |-> IF n = 0 THEN e ELSE Container(d, f[n - 1])]

LEMMA WayUpDef ==
  ASSUME NEW d, NEW e
  PROVE  Climb(d, e, WayUp(d, e), 10)
  <1> DEFINE S == {m \in 0 .. 10 : \E f : Climb(d, e, f, m)}
  <1>1. 0 \in S
    <2> DEFINE f == [n \in 0 .. 0 |-> e]
    <2>1. Climb(d, e, f, 0)
      BY DEF Climb
    <2> QED
      BY <2>1
  <1>2. ASSUME NEW m \in 0 .. 9, m \in S PROVE m + 1 \in S
    <2>1. PICK f : Climb(d, e, f, m)
      BY <1>2
    <2> DEFINE g == [n \in 0 .. m + 1 |-> IF n = m + 1 THEN Container(d, f[m]) ELSE f[n]]
    <2>2. \A n \in 0 .. m : f[n] = IF n = 0 THEN e ELSE Container(d, f[n - 1])
      BY <2>1 DEF Climb
    <2>3. \A n \in 0 .. m + 1 : g[n] = IF n = 0 THEN e ELSE Container(d, g[n - 1])
      BY <2>2
    <2>4. g = [n \in 0 .. m + 1 |-> g[n]]
      OBVIOUS
    <2> HIDE DEF g
    <2>5. Climb(d, e, g, m + 1)
      BY <2>3, <2>4 DEF Climb
    <2> QED
      BY <2>5
  <1> HIDE DEF S
  <1>3. 10 \in S
    BY <1>1, <1>2, UpToTen
  <1>4. \E f : Climb(d, e, f, 10)
    BY <1>3 DEF S
  <1>5. WayUp(d, e) = CHOOSE f : Climb(d, e, f, 10)
    BY DEF WayUp, Climb, Container
  <1> QED
    BY <1>4, <1>5

\* An asset and what contains it, unchanged, has the same way up.
LEMMA SameAncestors ==
  ASSUME NEW d, NEW f, Inventory(d), Inventory(f), NEW e,
         \A x \in {e} \cup Ancestors(d, e) : Container(d, x) = Container(f, x)
  PROVE  Ancestors(d, e) = Ancestors(f, e)
  <1> DEFINE u == WayUp(d, e)
             v == WayUp(f, e)
             S == {n \in 0 .. 10 : u[n] = v[n]}
  <1>1. /\ u[0] = e /\ \A n \in 0 .. 9 : u[n + 1] = Container(d, u[n])
        /\ v[0] = e /\ \A n \in 0 .. 9 : v[n + 1] = Container(f, v[n])
    <2>1. Climb(d, e, u, 10) /\ Climb(f, e, v, 10)
      BY WayUpDef
    <2> HIDE DEF u, v
    <2>2. /\ \A n \in 0 .. 10 : u[n] = IF n = 0 THEN e ELSE Container(d, u[n - 1])
          /\ \A n \in 0 .. 10 : v[n] = IF n = 0 THEN e ELSE Container(f, v[n - 1])
      BY <2>1 DEF Climb
    <2>3. \A n \in 0 .. 9 : n + 1 \in 0 .. 10 /\ n + 1 # 0 /\ (n + 1) - 1 = n
      OBVIOUS
    <2> QED
      BY <2>2, <2>3
  <1>2. Ancestors(d, e) = {u[n] : n \in 1 .. 10} \ {0} /\ Ancestors(f, e) = {v[n] : n \in 1 .. 10} \ {0}
    BY DEF Ancestors
  <1>3. Container(d, 0) = 0 /\ Container(f, 0) = 0
    BY AssetQueriesAssumption DEF Container, Inventory
  <1> HIDE DEF u, v
  <1>4. \A n \in 0 .. 10 : Container(d, u[n]) = Container(f, u[n])
    BY <1>1, <1>2, <1>3
  <1>5. 0 .. 10 \subseteq S
    BY <1>1, <1>4, UpToTen
  <1> QED
    BY <1>2, <1>5

-----------------------------------------------------------------------------
(* The two conditions with queries of their own shape.                     *)

LEMMA AddressExact ==
  ASSUME NEW d, Inventory(d), NEW e \in DOMAIN d, NEW c \in Condition, OnePattern(c),
         c.field = "ip-address"
  PROVE  e \in ByIpAddress(d, c) <=> Satisfies(d, e, c)
  <1> DEFINE p == c.value[1]
             Fit(f) == IF p.wild THEN <<p.text, f>> \in Begins ELSE Compare(Positive(c.op), f, p.text)
             Fitting == {r.element : r \in {a \in Attributes(d) :
                           a.keytag = "ip.1" /\ a.element \in Devices(d) /\ Fit(a.value)}}
  <1>1. Len(c.value) = 1
    <2>1. c.value \in Seq(Pattern)
      BY DEF Condition
    <2>2. Len(c.value) \in Nat /\ DOMAIN c.value = 1 .. Len(c.value)
      BY <2>1, LenProperties
    <2>3. \A n \in Nat : 1 .. n = {1} => n = 1
      <3> SUFFICES ASSUME NEW n \in Nat, 1 .. n = {1} PROVE n = 1
        OBVIOUS
      <3>1. 1 \in 1 .. n /\ (n >= 1 => n \in 1 .. n)
        OBVIOUS
      <3> QED
        BY <3>1
    <2> QED
      BY <2>2, <2>3 DEF OnePattern
  <1>2. ByIpAddress(d, c) = Except(c.op, Devices(d), Fitting)
    BY <1>1 DEF ByIpAddress
  <1>3. Satisfies(d, e, c) <=>
          /\ d[e].kind = "device"
          /\ c.op # "IsNot" => \E f \in Says(d, e, {"ip.1"}) : Fit(f)
          /\ c.op = "IsNot" => \A f \in Says(d, e, {"ip.1"}) : ~Fit(f)
    <2>1. Facts(d, e, "ip-address") = Says(d, e, {"ip.1"})
      BY DEF Facts, Says
    <2>2. \A f : (\E k \in DOMAIN c.value :
                   IF c.value[k].wild /\ c.field = "ip-address"
                   THEN <<c.value[k].text, f>> \in Begins
                   ELSE Compare(Positive(c.op), f, c.value[k].text)) <=> Fit(f)
      BY DEF OnePattern
    <2> QED
      BY <2>1, <2>2 DEF Satisfies, InScope
  <1>4. d[e].ext["ip.1"] \in Values \cup {Absent}
    BY DEF Inventory, Asset, Keytags
  <1> HIDE DEF Fit
  <1>5. e \in Fitting <=> d[e].kind = "device" /\ \E f \in Says(d, e, {"ip.1"}) : Fit(f)
    <2>1. ASSUME e \in Fitting PROVE d[e].kind = "device" /\ \E f \in Says(d, e, {"ip.1"}) : Fit(f)
      <3>1. PICK r \in Attributes(d) : r.keytag = "ip.1" /\ r.element \in Devices(d) /\ Fit(r.value)
                                       /\ r.element = e
        BY <2>1
      <3>2. d[e].ext["ip.1"] = r.value /\ r.value # Absent
        BY <3>1, AssetQueriesAssumption DEF Attributes
      <3>3. r.value \in Says(d, e, {"ip.1"})
        BY <3>2 DEF Says
      <3> QED
        BY <3>1, <3>3 DEF Devices
    <2>2. ASSUME d[e].kind = "device", NEW f \in Says(d, e, {"ip.1"}), Fit(f) PROVE e \in Fitting
      <3> DEFINE r == [element |-> e, keytag |-> "ip.1", value |-> f]
      <3>1. r \in Attributes(d)
        BY <1>4 DEF Attributes, Says, Keytags
      <3>2. r.keytag = "ip.1" /\ r.element \in Devices(d) /\ Fit(r.value) /\ r.element = e
        BY <2>2 DEF Devices
      <3> HIDE DEF r
      <3> QED
        BY <3>1, <3>2
    <2> QED
      BY <2>1, <2>2
  <1> HIDE DEF Fitting
  <1> QED
    BY <1>2, <1>3, <1>5 DEF Except, Devices

\* A location is a datacenter that fits, among what contains the asset.
LEMMA LocationExact ==
  ASSUME NEW d, NEW e, NEW c \in Condition, OnePattern(c), c.field = "location"
  PROVE  Satisfies(d, e, c) <=> \E x \in Ancestors(d, e) : x \in Datacenters(d, c)
  <1>1. Facts(d, e, c.field) =
          {d[a].name : a \in {x \in Ancestors(d, e) \cap DOMAIN d : d[x].kind = "datacenter"}}
    BY DEF Facts
  <1>2. Satisfies(d, e, c) <=> \E f \in Facts(d, e, c.field) : Compare(c.op, f, Text(c))
    BY SatisfiesSome
  <1> QED
    BY <1>1, <1>2 DEF Datacenters

-----------------------------------------------------------------------------
(* The answer, put together from several moments.                          *)

(* What the theorems assume of the rules: values are one pattern.          *)
Plain(r) == \A k \in DOMAIN r.conditions :
  r.conditions[k] # Nested => OnePattern(r.conditions[k])

\* What was not touched is as it was.
Same == \A x \in Elements \ touched :
  /\ x \in DOMAIN db <=> x \in DOMAIN before
  /\ x \in DOMAIN db => db[x] = before[x]

\* An asset that was there and was not touched, nor what contains it.
Steady(e) == e \in DOMAIN before /\ ({e} \cup Ancestors(before, e)) \cap touched = {}

\* Where the location of an asset is looked for, and found.
Places(e, c) == Ancestors(before, e) \cap Datacenters(before, c)

Basics ==
  /\ TypeOK
  /\ Same
  /\ step = "locate" => next \in DOMAIN Conditions /\ Conditions[next].field = "location"
  /\ step # "done" => out = {}
  /\ status = "ok" => step = "done"

\* What the conditions behind the walk have found, and the one it is at.
FoundBehind(k) == \A e \in Elements :
  Steady(e) => (e \in located[k] <=> Places(e, Conditions[k]) # {})

FoundHere == \A e \in Elements : Steady(e) =>
  /\ rows \cap Ancestors(before, e) \subseteq Places(e, Conditions[next])
  /\ e \in located[next] <=> Places(e, Conditions[next]) \ rows # {}

LocatedOK ==
  step # "done" =>
    /\ \A k \in DOMAIN Conditions : k < next =>
         /\ Conditions[k].field # "unknown"
         /\ Conditions[k].field = "location" => FoundBehind(k)
    /\ step = "locate" => FoundHere
    /\ \A k \in DOMAIN Conditions : k > next \/ (k = next /\ step = "build") => located[k] = {}

AnswerOK == status = "ok" => \A e \in DOMAIN db : Steady(e) => (e \in out <=> Fits(db, e))

ResolveInv == Basics /\ LocatedOK /\ AnswerOK

LEMMA RulesType ==
  ASSUME rules \in RuleSets
  PROVE  /\ Conditions \in Seq(Condition \cup {Nested})
         /\ Len(Conditions) \in Nat /\ DOMAIN Conditions = 1 .. Len(Conditions)
  <1>1. Conditions \in Seq(Condition \cup {Nested})
    BY ResolveAssumption DEF Conditions, Rules
  <1> QED
    BY <1>1, LenProperties

\* What contains a steady asset is steady in every database of the resolve.
LEMMA SteadyPlaces ==
  ASSUME Inventory(db), Inventory(before), Same, NEW e, Steady(e)
  PROVE  /\ e \in DOMAIN db
         /\ Ancestors(db, e) = Ancestors(before, e)
         /\ \A c : Ancestors(before, e) \cap Datacenters(db, c) = Places(e, c)
  <1>1. \A x \in {e} \cup Ancestors(before, e) :
          /\ x \in DOMAIN before <=> x \in DOMAIN db
          /\ x \in DOMAIN db => db[x] = before[x]
    BY DEF Steady, Same, Inventory
  <1>2. \A x \in {e} \cup Ancestors(before, e) : Container(before, x) = Container(db, x)
    BY <1>1 DEF Container
  <1>3. Ancestors(db, e) = Ancestors(before, e)
    BY <1>2, SameAncestors
  <1>4. \A c : Ancestors(before, e) \cap Datacenters(db, c) = Places(e, c)
    BY <1>1 DEF Places, Datacenters
  <1> QED
    BY <1>1, <1>3, <1>4 DEF Steady, Inventory

\* The resolve goes on, the inventory stays.
Walk == Add \/ Locate \/ LocateRow \/ Located

Answers == Unsupported \/ QueryFails \/ Empty \/ Query

LEMMA DatacentersType == ASSUME NEW d, Inventory(d), NEW c PROVE Datacenters(d, c) \subseteq Elements
  BY DEF Datacenters, Inventory

LEMMA InsideType == ASSUME NEW d, Inventory(d), NEW x PROVE Inside(d, x) \subseteq Elements
  BY DEF Inside, Inventory

LEMMA WalkBasics ==
  ASSUME Basics, Walk
  PROVE  Basics'
  <1> USE DEF Basics
  <1>1. Len(Conditions) \in Nat /\ DOMAIN Conditions = 1 .. Len(Conditions)
    BY RulesType DEF TypeOK
  <1>2. UNCHANGED <<db, rules, before, touched, changes, status, out>> /\ step # "done" /\ Same'
    BY DEF Walk, Add, Locate, LocateRow, Located, Same
  <1>3. Conditions' = Conditions
    BY <1>2 DEF Conditions
  <1>4. CASE Add
    BY <1>1, <1>2, <1>3, <1>4 DEF Add, TypeOK
  <1>5. CASE Locate
    <2>1. rows' \subseteq Elements /\ next \in DOMAIN Conditions
      BY <1>1, <1>5, DatacentersType DEF Locate, TypeOK
    <2> QED
      BY <1>1, <1>2, <1>3, <1>5, <2>1 DEF Locate, TypeOK
  <1>6. CASE LocateRow
    <2>1. PICK dc \in rows : /\ rows' = rows \ {dc}
                             /\ located' = [located EXCEPT ![next] = @ \cup Inside(db, dc)]
      BY <1>6 DEF LocateRow
    <2>2. located' \in [DOMAIN Conditions -> SUBSET Elements]
      BY <1>6, <2>1, InsideType DEF LocateRow, TypeOK
    <2>3. UNCHANGED <<next, step>> /\ rows' \subseteq Elements
      BY <1>6, <2>1 DEF LocateRow, TypeOK
    <2> QED
      BY <1>2, <1>3, <2>2, <2>3 DEF TypeOK
  <1>7. CASE Located
    BY <1>1, <1>2, <1>3, <1>7 DEF Located, TypeOK
  <1> QED
    BY <1>4, <1>5, <1>6, <1>7 DEF Walk

LEMMA AnswersBasics ==
  ASSUME Basics, Answers
  PROVE  Basics' /\ step # "done" /\ step' = "done" /\ UNCHANGED <<db, rules, before, touched>>
  <1> USE DEF Basics
  <1>1. /\ UNCHANGED <<db, rules, next, rows, located, before, touched, changes>>
        /\ step' = "done" /\ step # "done"
        /\ status' \in {"ok", "ko"} /\ out' \subseteq DOMAIN db
    BY DEF Answers, Unsupported, QueryFails, Empty, Query, Finish, TypeOK
  <1>2. Same' /\ Conditions' = Conditions
    BY <1>1 DEF Same, Conditions
  <1> QED
    BY <1>1, <1>2 DEF TypeOK

LEMMA ChangeKeeps ==
  ASSUME Basics, NEW e \in Elements, Change(e)
  PROVE  /\ Basics' /\ UNCHANGED <<rules, next, step, rows, located, before, status>>
         /\ \A x : Steady(x)' => Steady(x)
         /\ status # "ok"
  <1> USE DEF Basics
  <1>1. /\ UNCHANGED <<rules, next, step, rows, located, status, out, before>>
        /\ step # "done" /\ out = {} /\ touched' = touched \cup {e} /\ Inventory(db')
        /\ changes' = changes + 1 /\ changes < MaxChanges
    BY DEF Change
  <1>2. ASSUME NEW x \in Elements \ touched'
        PROVE  /\ x \in DOMAIN db' <=> x \in DOMAIN before
               /\ x \in DOMAIN db' => db'[x] = before[x]
    <2>1. x # e /\ x \in Elements \ touched
      BY <1>1, <1>2
    <2>2. (x \in DOMAIN db' <=> x \in DOMAIN db) /\ (x \in DOMAIN db' => db'[x] = db[x])
      BY <2>1 DEF Change
    <2> QED
      BY <2>1, <2>2 DEF Same
  <1>3. Same'
    BY <1>1, <1>2 DEF Same
  <1>4. changes' \in 0 .. MaxChanges
    BY <1>1, ResolveAssumption DEF TypeOK
  <1>5. Conditions' = Conditions
    BY <1>1 DEF Conditions
  <1>6. Basics'
    BY <1>1, <1>3, <1>4, <1>5 DEF TypeOK
  <1>7. \A x : Steady(x)' => Steady(x)
    BY <1>1 DEF Steady
  <1> QED
    BY <1>1, <1>6, <1>7

LEMMA LocatedStep ==
  ASSUME Basics, LocatedOK, Walk
  PROVE  LocatedOK'
  <1>0. Len(Conditions) \in Nat /\ DOMAIN Conditions = 1 .. Len(Conditions)
        /\ next \in Nat /\ next >= 1
    BY RulesType DEF Basics, TypeOK
  <1>1. UNCHANGED <<db, rules, before, touched>> /\ step # "done"
    BY DEF Walk, Add, Locate, LocateRow, Located
  <1>2. Conditions' = Conditions
    BY <1>1 DEF Conditions
  <1>3. \A e, c : Steady(e)' = Steady(e) /\ Places(e, c)' = Places(e, c)
    BY <1>1 DEF Steady, Places
  <1>4. ASSUME NEW k, located'[k] = located[k], FoundBehind(k) PROVE FoundBehind(k)'
    BY <1>2, <1>3, <1>4 DEF FoundBehind
  <1>5. CASE Add
    <2>1. /\ next' = next + 1 /\ located' = located /\ step' = "build" /\ step = "build"
          /\ next \in DOMAIN Conditions /\ Conditions[next].field \notin {"location", "unknown"}
      BY <1>0, <1>5 DEF Add
    <2> QED
      BY <1>0, <1>2, <1>4, <2>1 DEF LocatedOK
  <1>6. CASE Locate
    <2>1. /\ next' = next /\ located' = located /\ step' = "locate" /\ step = "build"
          /\ rows' = Datacenters(db, Conditions[next])
          /\ next \in DOMAIN Conditions /\ located[next] = {}
      BY <1>0, <1>6 DEF Locate, LocatedOK
    <2>2. ASSUME NEW e \in Elements, Steady(e)
          PROVE  /\ rows' \cap Ancestors(before, e) \subseteq Places(e, Conditions[next])
                 /\ Places(e, Conditions[next]) \ rows' = {}
      <3>1. Ancestors(before, e) \cap rows' = Places(e, Conditions[next])
        BY <2>1, <2>2, SteadyPlaces DEF Basics, TypeOK
      <3> QED
        BY <3>1 DEF Places
    <2>3. FoundHere'
      BY <1>1, <1>2, <1>3, <2>1, <2>2 DEF FoundHere
    <2> QED
      BY <1>0, <1>2, <1>4, <2>1, <2>3 DEF LocatedOK
  <1>7. CASE LocateRow
    <2>1. PICK dc \in rows : /\ rows' = rows \ {dc}
                             /\ located' = [located EXCEPT ![next] = @ \cup Inside(db, dc)]
      BY <1>7 DEF LocateRow
    <2>2. /\ step = "locate" /\ step' = "locate" /\ next' = next /\ next \in DOMAIN Conditions
          /\ located'[next] = located[next] \cup Inside(db, dc)
          /\ \A k \in DOMAIN Conditions \ {next} : located'[k] = located[k]
      BY <1>7, <2>1 DEF LocateRow, Basics, TypeOK
    <2>3. FoundHere
      BY <1>1, <2>2 DEF LocatedOK
    <2>4. ASSUME NEW e \in Elements, Steady(e)
          PROVE  /\ rows' \cap Ancestors(before, e) \subseteq Places(e, Conditions[next])
                 /\ e \in located'[next] <=> Places(e, Conditions[next]) \ rows' # {}
      <3>1. e \in Inside(db, dc) <=> dc \in Ancestors(before, e)
        BY <2>4, SteadyPlaces DEF Inside, Basics, TypeOK
      <3>2. /\ rows \cap Ancestors(before, e) \subseteq Places(e, Conditions[next])
            /\ e \in located[next] <=> Places(e, Conditions[next]) \ rows # {}
        BY <2>3, <2>4 DEF FoundHere
      <3>3. dc \in Ancestors(before, e) <=> dc \in Places(e, Conditions[next])
        BY <2>1, <3>2 DEF Places
      <3> QED
        BY <2>1, <2>2, <3>1, <3>2, <3>3
    <2>5. FoundHere'
      BY <1>1, <1>2, <1>3, <2>2, <2>4 DEF FoundHere
    <2> QED
      BY <1>0, <1>2, <1>4, <2>2, <2>5 DEF LocatedOK
  <1>8. CASE Located
    <2>1. /\ step = "locate" /\ step' = "build" /\ next' = next + 1 /\ located' = located /\ rows = {}
          /\ next \in DOMAIN Conditions /\ Conditions[next].field = "location"
      BY <1>8 DEF Located, Basics
    <2>2. FoundBehind(next)
      BY <1>1, <2>1 DEF LocatedOK, FoundHere, FoundBehind
    <2> QED
      BY <1>0, <1>2, <1>4, <2>1, <2>2 DEF LocatedOK
  <1> QED
    BY <1>5, <1>6, <1>7, <1>8 DEF Walk

LEMMA LocatedChange ==
  ASSUME Basics, LocatedOK, NEW x \in Elements, Change(x)
  PROVE  LocatedOK'
  <1>1. UNCHANGED <<rules, next, step, rows, located, before>> /\ \A e : Steady(e)' => Steady(e)
    BY ChangeKeeps
  <1>2. Conditions' = Conditions /\ \A e, c : Places(e, c)' = Places(e, c)
    BY <1>1 DEF Conditions, Places
  <1>3. \A k : FoundBehind(k) => FoundBehind(k)'
    BY <1>1, <1>2 DEF FoundBehind
  <1>4. FoundHere => FoundHere'
    BY <1>1, <1>2 DEF FoundHere
  <1> QED
    BY <1>1, <1>2, <1>3, <1>4 DEF LocatedOK

LEMMA ConditionType ==
  ASSUME Basics, NEW k \in DOMAIN Conditions, Conditions[k] # Nested
  PROVE  Conditions[k] \in Condition
  <1>1. Conditions \in Seq(Condition \cup {Nested}) /\ DOMAIN Conditions = 1 .. Len(Conditions)
    BY RulesType DEF Basics, TypeOK
  <1>2. Conditions[k] \in Condition \cup {Nested}
    BY <1>1, ElementOfSeq
  <1> QED
    BY <1>2

(* The text of a condition that is part of the last query selects what the *)
(* condition means when the query is run.                                  *)
LEMMA SelectedLate ==
  ASSUME Basics, NEW k \in DOMAIN Conditions, Conditions[k] # Nested, OnePattern(Conditions[k]),
         Conditions[k].field \notin {"unknown", "location"}, NEW e \in DOMAIN db
  PROVE  e \in Selected(k) <=> Satisfies(db, e, Conditions[k])
  <1> DEFINE c == Conditions[k]
  <1>1. c \in Condition /\ Inventory(db) /\ e \in Elements
    BY ConditionType DEF Basics, TypeOK, Inventory
  <1>2. c.field \in {"name", "type", "contact", "host-name", "ip-address"}
    BY <1>1 DEF Condition, Fields
  <1>3. CASE c.field = "name"
    BY <1>1, <1>3, NameExact DEF Selected
  <1>4. CASE c.field = "contact"
    BY <1>1, <1>4, ContactExact DEF Selected
  <1>5. CASE c.field = "type"
    BY <1>1, <1>5, TypeExact DEF Selected
  <1>6. CASE c.field = "host-name"
    BY <1>1, <1>6, HostNameExact DEF Selected
  <1>7. CASE c.field = "ip-address"
    BY <1>1, <1>7, AddressExact DEF Selected
  <1> QED
    BY <1>2, <1>3, <1>4, <1>5, <1>6, <1>7

\* For a steady asset also the part that is older is right.
LEMMA SelectedExact ==
  ASSUME Basics, NEW k \in DOMAIN Conditions, Conditions[k] # Nested, OnePattern(Conditions[k]),
         Conditions[k].field # "unknown",
         Conditions[k].field = "location" => FoundBehind(k),
         NEW e \in DOMAIN db, Steady(e)
  PROVE  e \in Selected(k) <=> Satisfies(db, e, Conditions[k])
  <1> DEFINE c == Conditions[k]
  <1>1. c \in Condition /\ Inventory(db) /\ e \in Elements
    BY ConditionType DEF Basics, TypeOK, Inventory
  <1>2. CASE c.field # "location"
    BY <1>2, SelectedLate
  <1>3. CASE c.field = "location"
    <2>1. Selected(k) = located[k]
      BY <1>3 DEF Selected
    <2>2. e \in located[k] <=> Places(e, c) # {}
      BY <1>1, <1>3 DEF FoundBehind
    <2>3. Ancestors(db, e) = Ancestors(before, e) /\ Ancestors(before, e) \cap Datacenters(db, c) = Places(e, c)
      BY SteadyPlaces DEF Basics, TypeOK
    <2>4. Satisfies(db, e, c) <=> \E x \in Ancestors(db, e) : x \in Datacenters(db, c)
      BY <1>1, <1>3, LocationExact
    <2> QED
      BY <2>1, <2>2, <2>3, <2>4
  <1> QED
    BY <1>2, <1>3

\* An answer that is sent is exact for every steady asset.
LEMMA AnswerExact ==
  ASSUME Basics, LocatedOK, Answers, Plain(rules)
  PROVE  AnswerOK'
  <1>1. UNCHANGED <<db, rules, before, touched, located>> /\ step # "done"
    BY AnswersBasics DEF Answers, Unsupported, QueryFails, Empty, Query, Finish
  <1>2. CASE status' = "ok"
    <2>1. Conditions # <<>> /\ next > Len(Conditions)
          /\ (\A k \in DOMAIN Conditions : Conditions[k] # Nested)
          /\ out' = {e \in DOMAIN db : Joined({k \in DOMAIN Conditions : e \in Selected(k)})}
      BY <1>2 DEF Answers, Unsupported, QueryFails, Empty, Query, Finish
    <2>2. \A k \in DOMAIN Conditions : /\ OnePattern(Conditions[k])
                                       /\ Conditions[k].field # "unknown"
                                       /\ Conditions[k].field = "location" => FoundBehind(k)
      <3>1. DOMAIN Conditions = 1 .. Len(Conditions) /\ Len(Conditions) \in Nat /\ next \in Nat
        BY RulesType DEF Basics, TypeOK
      <3>2. \A k \in DOMAIN Conditions : k < next
        BY <2>1, <3>1
      <3> QED
        BY <1>1, <2>1, <3>2 DEF LocatedOK, Plain, Conditions
    <2>3. ASSUME NEW e \in DOMAIN db, Steady(e)
          PROVE  e \in out' <=> Fits(db, e)
      <3>1. \A k \in DOMAIN Conditions : e \in Selected(k) <=> Satisfies(db, e, Conditions[k])
        BY <2>1, <2>2, <2>3, SelectedExact
      <3>2. {k \in DOMAIN Conditions : e \in Selected(k)}
              = {k \in DOMAIN Conditions : Satisfies(db, e, Conditions[k])}
        BY <3>1
      <3>3. e \in out' <=> Joined({k \in DOMAIN Conditions : e \in Selected(k)})
        BY <2>1
      <3> QED
        BY <3>2, <3>3 DEF Fits
    <2>4. \A e : Steady(e)' = Steady(e) /\ Fits(db, e)' = Fits(db, e)
      BY <1>1 DEF Steady, Fits, Joined, Conditions
    <2> QED
      BY <1>1, <2>3, <2>4 DEF AnswerOK
  <1> QED
    BY <1>2 DEF AnswerOK

LEMMA ResolveStarts == Init => ResolveInv
  <1> SUFFICES ASSUME Init PROVE ResolveInv
    OBVIOUS
  <1>1. Conditions = rules.conditions /\ Len(Conditions) \in Nat
        /\ DOMAIN Conditions = 1 .. Len(Conditions)
    BY RulesType DEF Init, Conditions
  <1>2. TypeOK
    BY <1>1, ResolveAssumption DEF Init, TypeOK
  <1>3. LocatedOK
    BY <1>1 DEF Init, LocatedOK
  <1> QED
    BY <1>2, <1>3 DEF Init, ResolveInv, Basics, Same, AnswerOK

LEMMA BasicsKept == Basics /\ [Next]_vars => Basics'
  <1> SUFFICES ASSUME Basics, [Next]_vars PROVE Basics'
    OBVIOUS
  <1>1. CASE \E e \in Elements : Change(e)
    BY <1>1, ChangeKeeps
  <1>2. CASE UNCHANGED vars
    BY <1>2 DEF vars, Basics, TypeOK, Same, Conditions
  <1> QED
    BY <1>1, <1>2, WalkBasics, AnswersBasics DEF Next, Walk, Answers

LEMMA ExactKept ==
  ASSUME \A r \in RuleSets : Plain(r)
  PROVE  ResolveInv /\ [Next]_vars => ResolveInv'
  <1> SUFFICES ASSUME ResolveInv, [Next]_vars PROVE ResolveInv'
    OBVIOUS
  <1> USE DEF ResolveInv
  <1>1. Basics'
    BY BasicsKept
  <1>2. CASE Walk
    <2>1. status' = "none" \/ status' # "ok"
      BY <1>2 DEF Walk, Add, Locate, LocateRow, Located, Basics
    <2> QED
      BY <1>1, <1>2, <2>1, LocatedStep DEF AnswerOK
  <1>3. CASE Answers
    <2>1. Plain(rules) /\ step' = "done"
      BY <1>3, AnswersBasics DEF Basics, TypeOK
    <2> QED
      BY <1>1, <1>3, <2>1, AnswerExact DEF LocatedOK
  <1>4. CASE \E e \in Elements : Change(e)
    <2>1. status' # "ok"
      BY <1>4, ChangeKeeps
    <2> QED
      BY <1>1, <1>4, <2>1, LocatedChange DEF AnswerOK
  <1>5. CASE UNCHANGED vars
    <2>1. LocatedOK'
      BY <1>5 DEF vars, LocatedOK, FoundBehind, FoundHere, Steady, Places, Conditions
    <2>2. AnswerOK'
      BY <1>5 DEF vars, AnswerOK, Steady, Fits, Joined, Conditions
    <2> QED
      BY <1>1, <2>1, <2>2
  <1> QED
    BY <1>2, <1>3, <1>4, <1>5 DEF Next, Walk, Answers

(* The state of a resolve has its type, whatever the inventory, the rules  *)
(* and the changes made to the inventory meanwhile.                        *)
THEOREM ResolveTypeCorrect == Spec => []TypeOK
  <1>1. Init => Basics
    BY ResolveStarts DEF ResolveInv
  <1>2. Basics /\ [Next]_vars => Basics'
    BY BasicsKept
  <1>3. Basics => TypeOK
    BY DEF Basics
  <1> QED
    BY <1>1, <1>2, <1>3, PTL DEF Spec

(* However the rest of the inventory changes while groupSql asks, query by *)
(* query, an asset that nobody touches, in containers that nobody touches, *)
(* is in the answer of Resolve::run if and only if the rules ask for it,   *)
(* when every value in the rules is one pattern.                           *)
THEOREM UntouchedExactAlways ==
  ASSUME \A r \in RuleSets : Plain(r)
  PROVE  Spec => []UntouchedExact
  <1>1. ResolveInv /\ [Next]_vars => ResolveInv'
    BY ExactKept
  <1>2. ResolveInv => UntouchedExact
    <2> SUFFICES ASSUME ResolveInv, status = "ok", NEW e \in DOMAIN db,
                        ({e} \cup Ancestors(db, e) \cup Ancestors(before, e)) \cap touched = {}
                 PROVE  e \in out <=> Fits(db, e)
      BY DEF UntouchedExact
    <2>1. e \in Elements \ touched
      BY DEF ResolveInv, Basics, TypeOK, Inventory
    <2>2. Steady(e)
      BY <2>1 DEF Steady, ResolveInv, Basics, Same
    <2> QED
      BY <2>2 DEF ResolveInv, AnswerOK
  <1> QED
    BY <1>1, <1>2, ResolveStarts, PTL DEF Spec
-----------------------------------------------------------------------------
(* What one change can do to an answer that is put together from several   *)
(* moments.                                                                *)

\* Everything about an asset but its name, or its container, is the same.
Named(a, b) == a.kind = b.kind /\ a.parent = b.parent /\ a.subtype = b.subtype /\ a.ext = b.ext
Moved(a, b) == a.kind = b.kind /\ a.name = b.name /\ a.subtype = b.subtype /\ a.ext = b.ext

\* Its name, container and kind are the same.
Described(a, b) == a.kind = b.kind /\ a.name = b.name /\ a.parent = b.parent

LEMMA EditedOnce ==
  ASSUME NEW a \in Asset, NEW b \in Edited(a)
  PROVE  Named(a, b) \/ Moved(a, b) \/ Described(a, b)
  BY DEF Edited, Asset, Named, Moved, Described

\* Asset x was edited or removed, nothing else.
ChangedOnly(x) ==
  /\ \A y \in DOMAIN before \ {x} : y \in DOMAIN db /\ db[y] = before[y]
  /\ x \in DOMAIN db => \/ Named(before[x], db[x]) \/ Moved(before[x], db[x])
                        \/ Described(before[x], db[x])

ChangedOnce ==
  /\ changes = 0 => db = before
  /\ changes <= 1 => DOMAIN db \subseteq DOMAIN before /\ \E x : ChangedOnly(x)

\* The asset is in a datacenter that fits.
Found(d, e, c) == Ancestors(d, e) \cap Datacenters(d, c) # {}

\* The ids pasted for a location are of assets it held for, before or now.
Mixed ==
  changes <= 1 =>
    /\ \A k \in DOMAIN Conditions : Conditions[k].field = "location" =>
         \A e \in located[k] : Found(before, e, Conditions[k]) \/ Found(db, e, Conditions[k])
    /\ step = "locate" =>
         rows \subseteq Datacenters(before, Conditions[next]) \cup Datacenters(db, Conditions[next])

MixedInv == Basics /\ LocatedOK /\ ChangedOnce /\ (step # "done" => Mixed) /\ NeverInvented

\* What contains an asset that is there is there.
LEMMA AncestorsThere ==
  ASSUME NEW d, Inventory(d), NEW e \in DOMAIN d
  PROVE  Ancestors(d, e) \subseteq DOMAIN d
  <1> DEFINE u == WayUp(d, e)
             S == {n \in 0 .. 10 : u[n] \in DOMAIN d \cup {0}}
  <1>1. Climb(d, e, u, 10)
    BY WayUpDef
  <1>2. u[0] = e /\ \A n \in 0 .. 9 : u[n + 1] = Container(d, u[n])
    <2> HIDE DEF u
    <2>1. \A n \in 0 .. 10 : u[n] = IF n = 0 THEN e ELSE Container(d, u[n - 1])
      BY <1>1 DEF Climb
    <2>2. \A n \in 0 .. 9 : n + 1 \in 0 .. 10 /\ n + 1 # 0 /\ (n + 1) - 1 = n
      OBVIOUS
    <2> QED
      BY <2>1, <2>2
  <1> HIDE DEF u
  <1>3. \A x : Container(d, x) \in DOMAIN d \cup {0}
    BY DEF Container, Inventory
  <1>4. 0 .. 10 \subseteq S
    BY <1>2, <1>3, UpToTen
  <1>5. Ancestors(d, e) = {u[n] : n \in 1 .. 10} \ {0}
    BY DEF Ancestors, u
  <1> QED
    BY <1>4, <1>5

\* A change that leaves every container in place leaves every way up.
LEMMA SameWays ==
  ASSUME Inventory(db), Inventory(before), NEW x, ChangedOnly(x), x \in DOMAIN db,
         DOMAIN db \subseteq DOMAIN before, db[x].parent = before[x].parent
  PROVE  \A e : Ancestors(db, e) = Ancestors(before, e)
  <1>1. \A y : Container(db, y) = Container(before, y)
    BY DEF Container, ChangedOnly
  <1> QED
    BY <1>1, SameAncestors

(* A datacenter that fitted before and contains the asset now contained it *)
(* before, or fits now.                                                    *)
LEMMA FoundBetween ==
  ASSUME Inventory(db), Inventory(before), NEW x, ChangedOnly(x),
         DOMAIN db \subseteq DOMAIN before, NEW c,
         NEW dc \in Datacenters(before, c), NEW e \in Inside(db, dc)
  PROVE  Found(before, e, c) \/ Found(db, e, c)
  <1>1. dc \in Ancestors(db, e) /\ e \in DOMAIN db
    BY DEF Inside
  <1>2. dc \in DOMAIN db
    BY <1>1, AncestorsThere
  <1>3. ASSUME db[dc].kind = before[dc].kind, db[dc].name = before[dc].name PROVE Found(db, e, c)
    BY <1>1, <1>2, <1>3 DEF Datacenters, Found
  <1>4. CASE dc # x
    BY <1>2, <1>3, <1>4 DEF ChangedOnly
  <1>5. CASE dc = x /\ Named(before[x], db[x])
    BY <1>1, <1>2, <1>5, SameWays DEF Named, Found
  <1>6. CASE dc = x /\ (Moved(before[x], db[x]) \/ Described(before[x], db[x]))
    BY <1>3, <1>6 DEF Moved, Described
  <1> QED
    BY <1>2, <1>4, <1>5, <1>6 DEF ChangedOnly

\* Only what an asset says itself decides all conditions but the location.
LEMMA OwnColumns ==
  ASSUME NEW d, NEW f, NEW e, NEW c \in Condition, c.field \notin {"location", "unknown"},
         d[e].kind = f[e].kind, d[e].subtype = f[e].subtype, d[e].ext = f[e].ext
  PROVE  Satisfies(d, e, c) = Satisfies(f, e, c)
  <1>1. Facts(d, e, c.field) = Facts(f, e, c.field)
    BY DEF Facts, Condition, Fields
  <1>2. InScope(d, e, c.field) = InScope(f, e, c.field)
    BY DEF InScope
  <1> QED
    BY <1>1, <1>2 DEF Satisfies

(* If one change took an asset out of a location, it left all that the     *)
(* asset says itself.                                                      *)
LEMMA LeftAsIs ==
  ASSUME Inventory(db), Inventory(before), NEW x, ChangedOnly(x),
         DOMAIN db \subseteq DOMAIN before, NEW c, NEW e \in DOMAIN db,
         Found(before, e, c), ~Found(db, e, c)
  PROVE  db[e].kind = before[e].kind /\ db[e].subtype = before[e].subtype /\ db[e].ext = before[e].ext
  <1>1. CASE e # x
    BY <1>1 DEF ChangedOnly
  <1>2. CASE e = x /\ (Named(before[x], db[x]) \/ Moved(before[x], db[x]))
    BY <1>2 DEF Named, Moved
  <1>3. CASE e = x /\ Described(before[x], db[x])
    <2>1. Ancestors(db, e) = Ancestors(before, e)
      BY <1>3, SameWays DEF Described
    <2>2. Datacenters(db, c) = Datacenters(before, c)
      BY <1>3 DEF Datacenters, ChangedOnly, Described
    <2> QED
      BY <2>1, <2>2 DEF Found
  <1> QED
    BY <1>1, <1>2, <1>3 DEF ChangedOnly

LEMMA ChangedOnceKept == Basics /\ ChangedOnce /\ [Next]_vars => ChangedOnce'
  <1> SUFFICES ASSUME Basics, ChangedOnce, [Next]_vars PROVE ChangedOnce'
    OBVIOUS
  <1>1. CASE UNCHANGED <<db, before, changes>>
    BY <1>1 DEF ChangedOnce, ChangedOnly
  <1>2. ASSUME NEW e \in Elements, Change(e) PROVE ChangedOnce'
    <2>1. changes \in Nat /\ changes' = changes + 1 /\ before' = before
      BY <1>2, ResolveAssumption DEF Change, Basics, TypeOK
    <2>2. ASSUME changes' <= 1
          PROVE  DOMAIN db' \subseteq DOMAIN before /\ ChangedOnly(e)'
      <3>1. changes = 0 /\ db = before
        BY <2>1, <2>2 DEF ChangedOnce
      <3>2. \A y \in DOMAIN db : db[y] \in Asset
        BY DEF Basics, TypeOK, Inventory
      <3>3. CASE e \in DOMAIN db /\ \E a \in Edited(db[e]) : a # db[e] /\ db' = [db EXCEPT ![e] = a]
        BY <2>1, <3>1, <3>2, <3>3, EditedOnce DEF ChangedOnly
      <3>4. CASE e \in DOMAIN db /\ db' = [y \in DOMAIN db \ {e} |-> db[y]]
        BY <2>1, <3>1, <3>4 DEF ChangedOnly
      <3> QED
        BY <1>2, <3>1, <3>3, <3>4 DEF Change
    <2> QED
      BY <2>1, <2>2 DEF ChangedOnce
  <1> QED
    BY <1>1, <1>2 DEF Next, Add, Unsupported, Locate, LocateRow, Located, QueryFails, Empty, Query,
                      Finish, vars

LEMMA MixedWalk ==
  ASSUME Basics, ChangedOnce, Mixed, Walk
  PROVE  Mixed'
  <1>1. UNCHANGED <<db, rules, before, changes>> /\ Conditions' = Conditions
    BY DEF Walk, Add, Locate, LocateRow, Located, Conditions
  <1>2. CASE Add \/ Located
    BY <1>1, <1>2 DEF Add, Located, Mixed
  <1>3. CASE Locate
    BY <1>1, <1>3 DEF Locate, Mixed
  <1>4. CASE LocateRow
    <2>1. PICK dc \in rows : /\ rows' = rows \ {dc}
                             /\ located' = [located EXCEPT ![next] = @ \cup Inside(db, dc)]
      BY <1>4 DEF LocateRow
    <2>2. step = "locate" /\ next' = next
      BY <1>4 DEF LocateRow
    <2>3. ASSUME changes <= 1, NEW e \in Inside(db, dc)
          PROVE  Found(before, e, Conditions[next]) \/ Found(db, e, Conditions[next])
      <3>1. dc \in Datacenters(before, Conditions[next]) \cup Datacenters(db, Conditions[next])
        BY <2>1, <2>2, <2>3 DEF Mixed
      <3>2. CASE dc \in Datacenters(db, Conditions[next])
        BY <2>3, <3>2 DEF Inside, Found
      <3>3. CASE dc \in Datacenters(before, Conditions[next])
        BY <2>3, <3>3, FoundBetween DEF ChangedOnce, Basics, TypeOK
      <3> QED
        BY <3>1, <3>2, <3>3
    <2>4. ASSUME changes <= 1, NEW k \in DOMAIN Conditions, Conditions[k].field = "location",
                 NEW e \in located'[k]
          PROVE  Found(before, e, Conditions[k]) \/ Found(db, e, Conditions[k])
      <3>1. located'[k] = IF k = next THEN located[k] \cup Inside(db, dc) ELSE located[k]
        BY <2>1 DEF Basics, TypeOK
      <3> QED
        BY <2>3, <2>4, <3>1 DEF Mixed
    <2> QED
      BY <1>1, <2>1, <2>2, <2>4 DEF Mixed
  <1> QED
    BY <1>2, <1>3, <1>4 DEF Walk

LEMMA MixedChange ==
  ASSUME Basics, ChangedOnce, Mixed, NEW x \in Elements, Change(x)
  PROVE  Mixed'
  <1>1. UNCHANGED <<rules, next, step, rows, located, before>> /\ Conditions' = Conditions
    BY ChangeKeeps DEF Conditions
  <1>2. changes' <= 1 => changes = 0
    BY ResolveAssumption DEF Change, Basics, TypeOK
  <1>3. changes = 0 => db = before
    BY DEF ChangedOnce
  <1> QED
    BY <1>1, <1>2, <1>3 DEF Mixed

\* The answer of the last query.
LEMMA MixedAnswer ==
  ASSUME Basics, LocatedOK, ChangedOnce, Mixed, Answers, Plain(rules)
  PROVE  NeverInvented'
  <1>1. UNCHANGED <<db, rules, before, touched, located, changes>> /\ step # "done"
        /\ Conditions' = Conditions
    BY AnswersBasics DEF Answers, Unsupported, QueryFails, Empty, Query, Finish, Conditions
  <1>2. \A e : Fits(before, e)' = Fits(before, e) /\ Fits(db, e)' = Fits(db, e)
    BY <1>1 DEF Fits, Joined
  <1>3. ASSUME status' = "ok", changes <= 1, LocationsAgree, NEW e \in out'
        PROVE  Fits(before, e) \/ Fits(db, e)
    <2>1. Conditions # <<>> /\ next > Len(Conditions)
          /\ (\A k \in DOMAIN Conditions : Conditions[k] # Nested)
          /\ out' = {a \in DOMAIN db : Joined({k \in DOMAIN Conditions : a \in Selected(k)})}
      BY <1>3 DEF Answers, Unsupported, QueryFails, Empty, Query, Finish
    <2>2. \A k \in DOMAIN Conditions : /\ OnePattern(Conditions[k])
                                       /\ Conditions[k].field # "unknown"
                                       /\ Conditions[k] \in Condition
      <3>1. DOMAIN Conditions = 1 .. Len(Conditions) /\ Len(Conditions) \in Nat /\ next \in Nat
        BY RulesType DEF Basics, TypeOK
      <3>2. \A k \in DOMAIN Conditions : k < next
        BY <2>1, <3>1
      <3>3. \A k \in DOMAIN Conditions : Conditions[k] \in Condition
        BY <2>1, ConditionType
      <3> QED
        BY <1>1, <2>1, <3>2, <3>3 DEF LocatedOK, Plain, Conditions
    <2>3. e \in DOMAIN db /\ e \in DOMAIN before /\ \E x : ChangedOnly(x)
      BY <1>3, <2>1 DEF ChangedOnce
    <2> DEFINE Holds(k) == e \in Selected(k)
               Early(k) == Satisfies(before, e, Conditions[k])
               Late(k) == Satisfies(db, e, Conditions[k])
    <2>4. ASSUME NEW k \in DOMAIN Conditions, Conditions[k].field # "location"
          PROVE  Holds(k) <=> Late(k)
      BY <2>1, <2>2, <2>3, <2>4, SelectedLate
    <2>5. ASSUME NEW k \in DOMAIN Conditions, Conditions[k].field = "location"
          PROVE  /\ Early(k) <=> Found(before, e, Conditions[k])
                 /\ Late(k) <=> Found(db, e, Conditions[k])
                 /\ Holds(k) => Early(k) \/ Late(k)
      <3>1. /\ Early(k) <=> Found(before, e, Conditions[k])
            /\ Late(k) <=> Found(db, e, Conditions[k])
        BY <2>2, <2>5, LocationExact DEF Found
      <3>2. Selected(k) = located[k]
        BY <2>5 DEF Selected
      <3> QED
        BY <1>3, <2>5, <3>1, <3>2 DEF Mixed
    <2>6. Joined({k \in DOMAIN Conditions : Holds(k)})
      BY <1>3, <2>1
    <2>7. Fits(before, e) <=> Joined({k \in DOMAIN Conditions : Early(k)})
      BY <2>3 DEF Fits
    <2>8. Fits(db, e) <=> Joined({k \in DOMAIN Conditions : Late(k)})
      BY <2>3 DEF Fits
    <2>9. rules.groupOp \in {"And", "Or"}
      BY ResolveAssumption DEF Rules, Basics, TypeOK
    <2>10. ASSUME rules.groupOp = "And", NEW l \in DOMAIN Conditions, ~Late(l),
                  NEW k \in DOMAIN Conditions
           PROVE  Early(k)
      <3> HIDE DEF Early, Late, Holds
      <3>1. \A n \in DOMAIN Conditions : Holds(n)
        BY <2>6, <2>10 DEF Joined
      <3>2. Conditions[l].field = "location"
        BY <2>4, <2>10, <3>1
      <3>3. CASE Conditions[k].field = "location"
        BY <1>3, <2>5, <2>10, <3>1, <3>2, <3>3 DEF LocationsAgree
      <3>4. CASE Conditions[k].field # "location"
        <4>1. Found(before, e, Conditions[l]) /\ ~Found(db, e, Conditions[l])
          BY <2>5, <2>10, <3>1, <3>2
        <4>2. db[e].kind = before[e].kind /\ db[e].subtype = before[e].subtype /\ db[e].ext = before[e].ext
          BY <1>3, <2>3, <4>1, LeftAsIs DEF ChangedOnce, Basics, TypeOK
        <4>3. Conditions[k] \in Condition /\ Conditions[k].field \notin {"location", "unknown"}
          BY <2>2, <3>4
        <4>4. Satisfies(db, e, Conditions[k]) = Satisfies(before, e, Conditions[k])
          BY <4>2, <4>3, OwnColumns
        <4>5. Late(k)
          BY <2>4, <3>1, <3>4
        <4> QED
          BY <4>4, <4>5 DEF Early, Late
      <3> QED
        BY <3>3, <3>4
    <2> HIDE DEF Early, Late, Holds
    <2>11. CASE rules.groupOp = "And"
      <3>1. CASE \A l \in DOMAIN Conditions : Late(l)
        BY <2>8, <2>11, <3>1 DEF Joined
      <3>2. CASE \E l \in DOMAIN Conditions : ~Late(l)
        <4>1. \A k \in DOMAIN Conditions : Early(k)
          BY <2>10, <2>11, <3>2
        <4> QED
          BY <2>7, <2>11, <4>1 DEF Joined
      <3> QED
        BY <3>1, <3>2
    <2>12. CASE rules.groupOp = "Or"
      <3>1. PICK k \in DOMAIN Conditions : Holds(k)
        BY <2>6, <2>12 DEF Joined
      <3>2. Early(k) \/ Late(k)
        BY <2>4, <2>5, <3>1
      <3> QED
        BY <2>7, <2>8, <2>12, <3>2 DEF Joined
    <2> QED
      BY <2>9, <2>11, <2>12
  <1>4. LocationsAgree' = LocationsAgree
    BY <1>1 DEF LocationsAgree
  <1> QED
    BY <1>1, <1>2, <1>3, <1>4 DEF NeverInvented

LEMMA MixedKept ==
  ASSUME \A r \in RuleSets : Plain(r)
  PROVE  MixedInv /\ [Next]_vars => MixedInv'
  <1> SUFFICES ASSUME MixedInv, [Next]_vars PROVE MixedInv'
    OBVIOUS
  <1> USE DEF MixedInv
  <1>1. Basics' /\ ChangedOnce'
    BY BasicsKept, ChangedOnceKept
  <1>2. CASE Walk
    <2>1. step # "done" /\ status' # "ok"
      BY <1>2 DEF Walk, Add, Locate, LocateRow, Located, Basics
    <2> QED
      BY <1>1, <1>2, <2>1, LocatedStep, MixedWalk DEF NeverInvented
  <1>3. CASE Answers
    <2>1. Plain(rules) /\ step' = "done" /\ step # "done"
      BY <1>3, AnswersBasics DEF Basics, TypeOK
    <2> QED
      BY <1>1, <1>3, <2>1, MixedAnswer DEF LocatedOK
  <1>4. CASE \E e \in Elements : Change(e)
    <2>1. status' # "ok" /\ step # "done"
      BY <1>4, ChangeKeeps DEF Change
    <2> QED
      BY <1>1, <1>4, <2>1, LocatedChange, MixedChange DEF NeverInvented
  <1>5. CASE UNCHANGED vars
    <2>1. LocatedOK'
      BY <1>5 DEF vars, LocatedOK, FoundBehind, FoundHere, Steady, Places, Conditions
    <2>2. Mixed' = Mixed /\ step' = step
      BY <1>5 DEF vars, Mixed, Found, Conditions
    <2>3. NeverInvented'
      BY <1>5 DEF vars, NeverInvented, LocationsAgree, Fits, Joined, Conditions
    <2> QED
      BY <1>1, <2>1, <2>2, <2>3
  <1> QED
    BY <1>2, <1>3, <1>4, <1>5 DEF Next, Walk, Answers

(* With one change of the inventory while groupSql asks, query by query,   *)
(* nothing is in the answer of Resolve::run that the rules asked for       *)
(* neither before the change nor after it, unless two locations have to    *)
(* hold at once, when every value in the rules is one pattern.             *)
THEOREM NeverInventedAlways ==
  ASSUME \A r \in RuleSets : Plain(r)
  PROVE  Spec => []NeverInvented
  <1>1. Init => MixedInv
    <2> SUFFICES ASSUME Init PROVE MixedInv
      OBVIOUS
    <2>1. Basics /\ LocatedOK /\ status = "none" /\ step = "build"
      BY ResolveStarts DEF ResolveInv, Init
    <2>2. db = before
      BY DEF Init
    <2>3. ChangedOnly(0)
      BY <2>2 DEF ChangedOnly, Described
    <2>4. ChangedOnce
      BY <2>2, <2>3 DEF ChangedOnce
    <2>5. Mixed
      BY <2>1 DEF Init, Mixed, Conditions
    <2> QED
      BY <2>1, <2>4, <2>5 DEF MixedInv, NeverInvented
  <1>2. MixedInv /\ [Next]_vars => MixedInv'
    BY MixedKept
  <1>3. MixedInv => NeverInvented
    BY DEF MixedInv
  <1> QED
    BY <1>1, <1>2, <1>3, PTL DEF Spec

=============================================================================
