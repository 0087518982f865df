------------------------------- MODULE Catalog -------------------------------
(***************************************************************************)
(* What Storage promises its callers: one catalog of groups, every call    *)
(* takes effect on it, and is answered from it, in a single step, and the  *)
(* catalog outlives the process.  There is no mutex here, no file, no lazy *)
(* loading and no memory that a crash could lose.                          *)
(***************************************************************************)
EXTENDS GroupDb

CONSTANTS Threads,   \* callers
          Lossy      \* whether a crash may cut a write short

VARIABLES db,        \* the catalog
          ret        \* what the last call of each thread returned

vars == <<db, ret>>

-----------------------------------------------------------------------------
(* Answers.  "created" and "saved" are both a plain group to the caller;   *)
(* they are told apart to say which ids the catalog has handed out.        *)

Result(status, groups) == [status |-> status, groups |-> groups]

NoResult == Result("none", {})

Found(S) == IF S = {} THEN Result("not found", {}) ELSE Result("ok", S)

SaveResult(d, g) ==
  Result(IF g.id = NoId THEN "created" ELSE "saved", {Saved(d, g)})

Effect(d, result) == [db |-> d, result |-> result]

SaveEffects(d) ==
  {Effect(SaveTo(d, g), SaveResult(d, g)) : g \in {p \in Group : CanSave(d, p)}}

DropEffects(d, matches) ==
  {Effect(Drop(d, gone), Result("ok", {})) : gone \in Removals(matches)}

\* What a changing call can do to catalog d, with its answer.  Removal by
\* id changes nothing when there is no such id.
Effects(d) ==
  SaveEffects(d)
  \cup (UNION {DropEffects(d, WithId(d, i)) : i \in {j \in 0 .. MaxId : WithId(d, j) # {}}})
  \cup (UNION {DropEffects(d, WithName(d, n)) : n \in Names})

\* What a call that changes nothing can answer.
Answers(d) ==
  {Found(First(WithId(d, i))) : i \in 0 .. MaxId}
  \cup {Found(First(WithName(d, n))) : n \in Names}
  \cup {Result("ok", d.groups)}

-----------------------------------------------------------------------------
Init == db \in {d \in DbObj : Sound(d)} /\ ret = [t \in Threads |-> NoResult]

Change(t) ==
  \E e \in Effects(db) : db' = e.db /\ ret' = [ret EXCEPT ![t] = e.result]

Look(t) ==
  \E a \in Answers(db) : ret' = [ret EXCEPT ![t] = a] /\ UNCHANGED db

\* The process dies: the call in progress, if any, took effect or did not.
Crash ==
  /\ ret' = [t \in Threads |-> NoResult]
  /\ \/ UNCHANGED db
     \/ \E e \in Effects(db) : db' = e.db
     \/ Lossy /\ \E e \in Effects(db) : db' \in Torn(e.db)

Next == (\E t \in Threads : Change(t) \/ Look(t)) \/ Crash

Spec == Init /\ [][Next]_vars
=============================================================================
