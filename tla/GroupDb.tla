------------------------------- MODULE GroupDb -------------------------------
(***************************************************************************)
(* The document the agent keeps: struct DbObj of server/src/lib/storage.cpp *)
(* and struct Group of common/common/group.h, with what each Storage call  *)
(* does to it.  The operators are pure; Storage.tla runs them under the    *)
(* mutex and Catalog.tla runs them atomically.                             *)
(*                                                                         *)
(* A group is its id and its name.  The name stands for everything a       *)
(* client writes (name and rules): Storage stores the rules and never      *)
(* looks at them.  The list of groups is a set: append gives the largest   *)
(* id so far, replacement keeps the position and removal keeps the order,  *)
(* so the list order is the order of the ids, and "the first match" of     *)
(* find and findIndex is the match with the least id.                      *)
(***************************************************************************)
EXTENDS Naturals

CONSTANTS Names,   \* what a client can put in a group
          MaxId    \* the largest id; 2^64 - 1 in the code, a small bound for TLC

ASSUME GroupDbAssumption == MaxId \in Nat

NoId == 0          \* Group::id without a value

\* A group: stored, or as a client sends it, with an id or without one.
Group == [id : 0 .. MaxId, name : Names]

DbObj == [lastId : 0 .. MaxId, groups : SUBSET Group]

EmptyDb == [lastId |-> 0, groups |-> {}]

Ids(db) == {g.id : g \in db.groups}

WithId(db, i) == {g \in db.groups : g.id = i}

WithName(db, n) == {g \in db.groups : g.name = n}

\* ObjectList::find and findIndex return the first match.
First(S) == {g \in S : \A h \in S : g.id <= h.id}

-----------------------------------------------------------------------------
(* Storage::save, lines 162-175: the group as it is answered, and the      *)
(* document.  A group without an id is appended under the next id; one     *)
(* with an id replaces the group of that id, and when there is none        *)
(* nothing is stored, without an error.                                    *)

CanSave(db, g) == g.id = NoId => db.lastId < MaxId

\* Mutant: the next id is taken from the groups there are, not from the counter.
Saved_NextToLast(db, g) ==
  IF g.id = NoId
  THEN [g EXCEPT !.id = CHOOSE i \in 1 .. db.lastId + 1 :
                          /\ \A h \in db.groups : h.id < i
                          /\ i = 1 \/ i - 1 \in {h.id : h \in db.groups}]
  ELSE g

Saved(db, g) == IF g.id = NoId THEN [g EXCEPT !.id = db.lastId + 1] ELSE g

\* Mutant: a group whose id is unknown is stored all the same.
SaveTo_Upserts(db, g) ==
  [lastId |-> IF g.id = NoId THEN db.lastId + 1 ELSE db.lastId,
   groups |-> (db.groups \ WithId(db, g.id)) \cup {Saved(db, g)}]

\* Mutant: the group that is found is changed in a copy.
SaveTo_Copies(db, g) ==
  IF g.id = NoId
  THEN [lastId |-> db.lastId + 1, groups |-> db.groups \cup {Saved(db, g)}]
  ELSE db

SaveTo(db, g) ==
  IF g.id = NoId
  THEN [lastId |-> db.lastId + 1, groups |-> db.groups \cup {Saved(db, g)}]
  ELSE [db EXCEPT !.groups =
          {IF h \in First(WithId(db, g.id)) THEN g ELSE h : h \in db.groups}]

(* ObjectList::remove of the pack library takes a predicate.  The code     *)
(* does not tell whether it drops the first match or all of them.          *)
Removals(matches) == {First(matches), matches}

Drop(db, gone) == [db EXCEPT !.groups = @ \ gone]

-----------------------------------------------------------------------------
\* Mutant: the groups are first in the file, the counter follows them.
Torn_CounterLast(db) ==
  {db, EmptyDb} \cup
  {[lastId |-> 0, groups |-> {g \in db.groups : g.id <= k}] : k \in 0 .. db.lastId}

(* pack::yaml::serializeFile writes the document over the old file: last-id *)
(* first, the groups after it in list order.  These are the documents a     *)
(* load can get out of a file whose writing was cut short.                  *)
Torn(db) ==
  {EmptyDb} \cup
  {[db EXCEPT !.groups = {g \in @ : g.id <= k}] : k \in 0 .. db.lastId}

\* Every id was handed out by this document, and to one group only.
Sound(db) ==
  /\ \A g \in db.groups : g.id \in 1 .. db.lastId
  /\ \A g, h \in db.groups : g.id = h.id => g = h
=============================================================================
