-------------------------------- MODULE MCRest --------------------------------
(* The REST handlers on small instances: the HTTP calls of a run.          *)
EXTENDS Rest, TLC

CONSTANTS t1, t2, h1, h2, h3, r1, r2, r3, r4, r5, r6, n1, n2

MCInitialFiles ==
  {[lastId |-> 2, groups |-> {[id |-> 1, name |-> n1], [id |-> 2, name |-> n1]}]}

Http_(verb, ids, body, groups) ==
  [verb |-> verb, allowed |-> TRUE, ids |-> ids, body |-> body, groups |-> groups]

Post(i, n) == Http_("create", <<>>, "group", {[id |-> i, name |-> n]})
Put(i, n) == Http_("edit", <<i>>, "group", {[id |-> NoId, name |-> n]})
Get(i) == Http_("read", <<i>>, "none", {})
GetList == Http_("list", <<>>, "none", {})
GetContent(i) == Http_("resolve", <<i>>, "none", {})
Remove_(i) == Http_("remove", <<i>>, "none", {})

\* Calls of one message that meet in one group, and the list.
Everything ==
  {Post(NoId, n1), Post(1, n2), Put(1, n2), Get(1), Get(3), Remove_(1), Remove_(3), GetList,
   Http_("create", <<>>, "broken", {}), [Put(1, n1) EXCEPT !.ids = <<>>]}

\* Every handler, and a call that is refused.
Lists == {GetList, [GetList EXCEPT !.allowed = FALSE], GetContent(2), Post(NoId, n2),
          Http_("edit", <<1>>, "broken", {}), Put(1, n2), Remove_(1)}

MCCommands ==
  UNION {Commanded(c) : c \in {d \in Everything \cup Lists : ~Refused(d)}}
  \cup {Say("READ", {}, <<i>>) : i \in 0 .. MaxId}

SafetySymmetry == Permutations(Threads) \cup Permutations(Handlers)
=============================================================================
