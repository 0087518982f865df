------------------------------- MODULE Resolve -------------------------------
(***************************************************************************)
(* Resolve::run of server/src/lib/jobs/resolve.cpp, after it has read the  *)
(* group: groupSql walks over the conditions of the rules and builds one   *)
(* query out of them, and the query is run.                                *)
(*                                                                         *)
(* A condition about the location is not text like the others: groupSql    *)
(* asks the database at once, first for the datacenters and then, one      *)
(* query each, for what is inside, and pastes the ids into the text.  So   *)
(* an answer is put together from several moments, and between them others *)
(* change the inventory.                                                   *)
(***************************************************************************)
EXTENDS AssetQueries, FiniteSets

CONSTANTS InitialInventories,
          RuleSets,      \* the rules of the groups that are resolved
          MaxChanges,    \* changes of the inventory during one resolve
          ExtOf,         \* the attributes each kind of asset can have
          TextsOf,       \* the values a column or attribute can get
          DbFails        \* whether a query can fail

(* An item of a rule's conditions is a condition or rules again.  What     *)
(* nested rules say makes no difference, see Query.                        *)
Nested == [field |-> "nested", op |-> "Is", value |-> <<>>]

Rules == [groupOp : {"And", "Or"}, conditions : Seq(Condition \cup {Nested})]

ASSUME ResolveAssumption ==
  /\ \A d \in InitialInventories : Inventory(d)
  /\ RuleSets \subseteq Rules
  /\ MaxChanges \in Nat
  /\ \A r \in RuleSets : \A k \in DOMAIN r.conditions :
       r.conditions[k] # Nested => r.conditions[k].value # <<>>

VARIABLES db,        \* the asset database
          rules,     \* group->rules, a copy of what Storage has
          next,      \* the condition groupSql is at
          step,      \* "build", "locate" (inside byLocation), "done"
          rows,      \* datacenters byLocation has still to ask about
          located,   \* the ids pasted for each location condition
          status,    \* of the answer: "none", "ok" or "ko"
          out,       \* the assets of the answer
          before,    \* history: the database when the resolve began
          touched,   \* history: the assets that were changed since
          changes    \* number of changes so far

vars == <<db, rules, next, step, rows, located, status, out, before, touched, changes>>

Conditions == rules.conditions

-----------------------------------------------------------------------------
Init ==
  /\ db \in InitialInventories
  /\ rules \in RuleSets
  /\ next = 1
  /\ step = "build"
  /\ rows = {}
  /\ located = [k \in DOMAIN rules.conditions |-> {}]
  /\ status = "none"
  /\ out = {}
  /\ before = db
  /\ touched = {}
  /\ changes = 0

Finish(answer, assets) ==
  /\ step' = "done"
  /\ status' = answer
  /\ out' = assets
  /\ UNCHANGED <<db, rules, next, rows, located, before, touched, changes>>

\* Mutant: the loop goes on by two.
Add_Skips ==
  /\ step = "build" /\ next <= Len(Conditions)
  /\ Conditions[next].field \notin {"location", "unknown"}
  /\ next' = next + 2
  /\ UNCHANGED <<db, rules, step, rows, located, status, out, before, touched, changes>>

\* A condition that becomes text, or rules that become a query of their own.
Add ==
  /\ step = "build" /\ next <= Len(Conditions)
  /\ Conditions[next].field \notin {"location", "unknown"}
  /\ next' = next + 1
  /\ UNCHANGED <<db, rules, step, rows, located, status, out, before, touched, changes>>

Unsupported ==
  /\ step = "build" /\ next <= Len(Conditions)
  /\ Conditions[next].field = "unknown"
  /\ Finish("ko", {})

\* byLocation: the first query.
Locate ==
  /\ step = "build" /\ next <= Len(Conditions)
  /\ Conditions[next].field = "location"
  /\ step' = "locate"
  /\ rows' = Datacenters(db, Conditions[next])
  /\ UNCHANGED <<db, rules, next, located, status, out, before, touched, changes>>

\* byLocation: the query for one datacenter, in the order the rows came.
LocateRow ==
  /\ step = "locate"
  /\ \E dc \in rows :
       /\ rows' = rows \ {dc}
       /\ located' = [located EXCEPT ![next] = @ \cup Inside(db, dc)]
  /\ UNCHANGED <<db, rules, next, step, status, out, before, touched, changes>>

Located ==
  /\ step = "locate"
  /\ rows = {}
  /\ step' = "build"
  /\ next' = next + 1
  /\ UNCHANGED <<db, rules, rows, located, status, out, before, touched, changes>>

\* Any query of byLocation, or the last one, throws: job::Error.
QueryFails ==
  /\ DbFails
  /\ \/ step = "locate"
     \/ step = "build" /\ next > Len(Conditions)
  /\ Finish("ko", {})

Empty ==
  /\ step = "build"
  /\ Conditions = <<>>
  /\ Finish("ko", {})

\* What the text of condition k selects now.
Selected(k) ==
  LET c == Conditions[k] IN
  CASE c.field = "name" -> ByName(db, c)
    [] c.field = "contact" -> ByContact(db, c)
    [] c.field = "type" -> ByType(db, c)
    [] c.field = "host-name" -> ByHostName(db, c)
    [] c.field = "ip-address" -> ByIpAddress(db, c)
    [] c.field = "location" -> located[k]

\* The conditions that hold, joined with the operator of the rules.
Joined(holding) ==
  \/ rules.groupOp = "And" /\ holding = DOMAIN Conditions
  \/ rules.groupOp = "Or" /\ holding # {}

(* The query is run.  Nested rules became a query of two columns (id and   *)
(* name) behind "id_asset_element IN", which the database refuses: MySQL   *)
(* answers "Operand should contain 1 column(s)".                           *)
Query ==
  /\ step = "build" /\ Conditions # <<>> /\ next > Len(Conditions)
  /\ IF \E k \in DOMAIN Conditions : Conditions[k] = Nested
     THEN Finish("ko", {})
     ELSE Finish("ok", {e \in DOMAIN db :
                          Joined({k \in DOMAIN Conditions : e \in Selected(k)})})

-----------------------------------------------------------------------------
(* Others change the inventory: one asset appears, disappears, or changes  *)
(* in one column or attribute.  The database keeps every parent in place.  *)

Edited(a) ==
  {[a EXCEPT !.name = v] : v \in TextsOf["element"]}
  \cup {[a EXCEPT !.subtype = v] : v \in TextsOf["type"]}
  \cup {[a EXCEPT !.parent = p] : p \in DOMAIN db \cup {0}}
  \cup (UNION {{[a EXCEPT !.ext[k] = v] : v \in TextsOf[k] \cup {Absent}} : k \in ExtOf[a.kind]})

Change(e) ==
  /\ step # "done" /\ changes < MaxChanges
  /\ \/ /\ e \in DOMAIN db
        /\ \E a \in Edited(db[e]) : a # db[e] /\ db' = [db EXCEPT ![e] = a]
     \/ /\ e \in DOMAIN db
        /\ db' = [x \in DOMAIN db \ {e} |-> db[x]]
     \/ /\ e \in DOMAIN before \ DOMAIN db
        /\ db' = [x \in DOMAIN db \cup {e} |-> IF x = e THEN before[e] ELSE db[x]]
  /\ Inventory(db')
  /\ touched' = touched \cup {e}
  /\ changes' = changes + 1
  /\ UNCHANGED <<rules, next, step, rows, located, status, out, before>>

Next ==
  \/ Add \/ Unsupported \/ Locate \/ LocateRow \/ Located
  \/ QueryFails \/ Empty \/ Query
  \/ \E e \in Elements : Change(e)

Spec == Init /\ [][Next]_vars

-----------------------------------------------------------------------------
TypeOK ==
  /\ Inventory(db) /\ Inventory(before)
  /\ rules \in RuleSets
  /\ next \in 1 .. Len(Conditions) + 1
  /\ step \in {"build", "locate", "done"}
  /\ rows \subseteq Elements
  /\ located \in [DOMAIN Conditions -> SUBSET Elements]
  /\ status \in {"none", "ok", "ko"}
  /\ out \subseteq DOMAIN db
  /\ touched \subseteq Elements
  /\ changes \in 0 .. MaxChanges

\* Asset e is what the rules ask for, in database d.
Fits(d, e) ==
  /\ e \in DOMAIN d
  /\ Joined({k \in DOMAIN Conditions : Satisfies(d, e, Conditions[k])})

(* However the rest of the inventory changes while a group is resolved, an *)
(* asset that stays as it is, and in containers that stay as they are, is  *)
(* in the answer if and only if the rules ask for it.                      *)
UntouchedExact ==
  status = "ok" =>
    \A e \in DOMAIN db :
      ({e} \cup Ancestors(db, e) \cup Ancestors(before, e)) \cap touched = {} =>
        (e \in out <=> Fits(db, e))

\* Two locations that must both hold are read at two moments.
LocationsAgree ==
  rules.groupOp = "And" =>
    \A k, l \in DOMAIN Conditions :
      Conditions[k].field = "location" /\ Conditions[l].field = "location" => k = l

(* With one change of the inventory while a group is resolved, everything  *)
(* in the answer was asked for by the rules before the change or after it: *)
(* no asset gets in because its location was read before and the rest of   *)
(* it after, unless two locations have to hold at once.                    *)
NeverInvented ==
  status = "ok" /\ changes <= 1 /\ LocationsAgree =>
    \A e \in out : Fits(before, e) \/ Fits(db, e)

(* A group whose rules contain rules can be resolved.  The test of the     *)
(* storage (server/test/db.cpp:19-28) builds and stores such a group, and  *)
(* groupSql has a branch for it.                                           *)
NestedResolves ==
  step = "done" /\ Conditions # <<>>
    /\ (\A k \in DOMAIN Conditions : Conditions[k].field # "unknown") => status = "ok"

(* The addresses of a condition are alternatives: the test of the requests *)
(* (server/test/request.cpp:739-746) expects of "127.0.*|192.168.*" the    *)
(* devices whose address (ip.1) is one or the other, and no more.          *)
AddressAlternatives ==
  status = "ok" /\ touched = {} => \A e \in out : Fits(db, e)
=============================================================================
