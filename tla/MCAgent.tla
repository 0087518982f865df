------------------------------- MODULE MCAgent -------------------------------
(* The agent on small instances: what the clients of a run can ask.        *)
EXTENDS Agent, TLC

CONSTANTS t1, t2, r1, r2, r3, r4, n1, n2

MCInitialFiles ==
  {EmptyDb, [lastId |-> 1, groups |-> {[id |-> 1, name |-> n1]}]}

Ask(subject, groups, ids) ==
  [subject |-> subject, valid |-> TRUE, groups |-> groups, ids |-> ids]

Create(n) == Ask("CREATE", {[id |-> NoId, name |-> n]}, <<>>)
CreateAs(i, n) == Ask("CREATE", {[id |-> i, name |-> n]}, <<>>)
Update(i, n) == Ask("UPDATE", {[id |-> i, name |-> n]}, <<>>)
Delete(ids) == Ask("DELETE", {}, ids)
List == Ask("LIST", {}, <<>>)
Read(i) == Ask("READ", {}, <<i>>)
Resolve(i) == Ask("RESOLVE", {}, <<i>>)
Broken(subject) == [Ask(subject, {}, <<>>) EXCEPT !.valid = FALSE]

\* Every kind of command, with a payload that is wrong, and one that is
\* for nobody.
AllCommands ==
  {Create(n1), CreateAs(2, n2), Update(1, n2), Delete(<<1, 2>>), Delete(<<1, 1>>),
   Delete(<<>>), List, Read(1), Resolve(1), Broken("CREATE"), Ask("OTHER", {}, <<>>)}

\* The commands that change the catalog, against each other.
Changes == {Create(n1), Update(1, n2), Delete(<<1, 2>>), Delete(<<1, 1>>)}

\* The same with a list that shows what they do.
Lists == Changes \cup {List}

MCSymmetry == Permutations(Threads) \cup Permutations(Requests)
=============================================================================
