-------------------------------- MODULE Remote --------------------------------
(***************************************************************************)
(* What an HTTP call that is one message to the agent promises its client: *)
(* the call takes effect on the catalog at most once, at some moment after *)
(* it was made; if it succeeds, it took effect before it was answered and  *)
(* the answer is what that effect gave.  If it fails nothing is known: it  *)
(* may have had its effect, may never have it, or have it later.  There    *)
(* are no messages, threads or timeouts here.                              *)
(***************************************************************************)
EXTENDS GroupDb, Sequences

CONSTANTS Clients, Calls, NoCall

VARIABLES db,       \* the catalog
          call,     \* what each client asked for
          work,     \* how far the catalog has got with it, see Works
          result,   \* what the effect of the call gave
          given     \* what the client was answered

vars == <<db, call, work, result, given>>

(* "asked" the effect is still to come, "did" it came and can be answered, *)
(* "gone" neither will happen any more                                     *)
Works == {"none", "asked", "did", "gone"}

Answer(status, out, removed) == [status |-> status, out |-> out, removed |-> removed]

NoAnswer == Answer("none", {}, {})

Refusal == Answer("ko", {}, {})

Effect(d, answer) == [db |-> d, answer |-> answer]

\* The group a client wants to be stored: an edit names it by its path.
Wanted(c) == {[g EXCEPT !.id = IF c.verb = "edit" THEN c.ids[1] ELSE @] : g \in c.groups}

\* What a call can do to catalog d, with the answer it gives.
Effects(c, d) ==
  CASE c.verb \in {"create", "edit"} /\ c.body # "group" -> {Effect(d, Refusal)}
    [] c.verb \in {"create", "edit"} /\ c.body = "group" ->
         {Effect(SaveTo(d, g), Answer("ok", {Saved(d, g)}, {})) : g \in Wanted(c)}
    [] c.verb = "remove" /\ WithId(d, c.ids[1]) = {} -> {Effect(d, Answer("ok", {}, {}))}
    [] c.verb = "remove" /\ WithId(d, c.ids[1]) # {} ->
         {Effect(Drop(d, gone), Answer("ok", {}, {c.ids[1]})) : gone \in Removals(WithId(d, c.ids[1]))}
    [] c.verb = "read" /\ WithId(d, c.ids[1]) = {} -> {Effect(d, Refusal)}
    [] c.verb = "read" /\ WithId(d, c.ids[1]) # {} ->
         {Effect(d, Answer("ok", First(WithId(d, c.ids[1])), {}))}

-----------------------------------------------------------------------------
Init ==
  /\ db \in {d \in DbObj : Sound(d)}
  /\ call = [h \in Clients |-> NoCall]
  /\ work = [h \in Clients |-> "none"]
  /\ result = [h \in Clients |-> NoAnswer]
  /\ given = [h \in Clients |-> NoAnswer]

Begin(h, c) ==
  /\ work[h] = "none"
  /\ call' = [call EXCEPT ![h] = c]
  /\ \/ work' = [work EXCEPT ![h] = "asked"] /\ UNCHANGED given
     \/ work' = [work EXCEPT ![h] = "gone"] /\ given' = [given EXCEPT ![h] = Refusal]
  /\ UNCHANGED <<db, result>>

\* The moment of the effect: it may come after the client was told it failed.
Do(h) ==
  /\ work[h] = "asked"
  /\ work' = [work EXCEPT ![h] = "did"]
  /\ \E e \in Effects(call[h], db) : db' = e.db /\ result' = [result EXCEPT ![h] = e.answer]
  /\ UNCHANGED <<call, given>>

Succeed(h) ==
  /\ work[h] = "did"
  /\ result[h].status = "ok"
  /\ given[h] = NoAnswer
  /\ given' = [given EXCEPT ![h] = result[h]]
  /\ UNCHANGED <<db, call, work, result>>

Fail(h) ==
  /\ work[h] # "none"
  /\ given[h] = NoAnswer
  /\ given' = [given EXCEPT ![h] = Refusal]
  /\ UNCHANGED <<db, call, work, result>>

(* Some calls are forgotten: an answer is lost, or the agent dies with     *)
(* what it had, of which one may take effect as it does.                   *)
Forget(S) ==
  /\ \A h \in S : work[h] \in {"asked", "did"}
  /\ work' = [h \in Clients |-> IF h \in S THEN "gone" ELSE work[h]]
  /\ result' = [h \in Clients |-> IF h \in S THEN NoAnswer ELSE result[h]]
  /\ \/ UNCHANGED db
     \/ \E h \in S : work[h] = "asked" /\ \E e \in Effects(call[h], db) : db' = e.db
  /\ UNCHANGED <<call, given>>

Next ==
  \/ \E h \in Clients : (\E c \in Calls : Begin(h, c)) \/ Do(h) \/ Succeed(h) \/ Fail(h)
  \/ \E S \in SUBSET Clients : Forget(S)

Spec == Init /\ [][Next]_vars
=============================================================================
