---------------------------- MODULE StorageProofs ----------------------------
(* Theorems about Storage, for every number of threads, names and ids.     *)
EXTENDS Storage, TLAPS

(* What the operations of GroupDb preserve.                                *)
LEMMA EmptyDbSound == EmptyDb \in DbObj /\ Sound(EmptyDb)
  BY GroupDbAssumption DEF EmptyDb, DbObj, Sound

(* Saving, with or without an id, keeps a document sound.                  *)
LEMMA SaveToSound ==
  ASSUME NEW db \in DbObj, Sound(db), NEW g \in Group, CanSave(db, g)
  PROVE  SaveTo(db, g) \in DbObj /\ Sound(SaveTo(db, g))
  <1> USE GroupDbAssumption DEF DbObj, Group, Sound
  <1>1. CASE g.id = NoId
    <2> DEFINE new == [g EXCEPT !.id = db.lastId + 1]
    <2>1. SaveTo(db, g) = [lastId |-> db.lastId + 1, groups |-> db.groups \cup {new}]
      BY <1>1 DEF SaveTo, Saved
    <2>2. new \in Group /\ new.id = db.lastId + 1 /\ new.id \in 0 .. MaxId
      BY <1>1 DEF CanSave
    <2> QED
      BY <2>1, <2>2
  <1>2. CASE g.id # NoId
    <2> DEFINE old == First(WithId(db, g.id))
               groups == {IF h \in old THEN g ELSE h : h \in db.groups}
    <2>1. SaveTo(db, g) = [lastId |-> db.lastId, groups |-> groups]
      BY <1>2 DEF SaveTo
    <2>2. \A h \in old : h \in db.groups /\ h.id = g.id
      BY DEF First, WithId
    <2>3. \A k \in groups : \E h \in db.groups : h.id = k.id /\ (k = g \/ k = h) /\ (k = g => h.id = g.id)
      BY <2>2
    <2>4. g \in Group
      OBVIOUS
    <2>5. groups \in SUBSET Group /\ \A k \in groups : k.id \in 1 .. db.lastId
      BY <2>3, <2>4
    <2>6. \A h, k \in groups : h.id = k.id => h = k
      <3> SUFFICES ASSUME NEW h \in db.groups, NEW k \in db.groups,
                          (IF h \in old THEN g ELSE h).id = (IF k \in old THEN g ELSE k).id
                   PROVE  (IF h \in old THEN g ELSE h) = (IF k \in old THEN g ELSE k)
        OBVIOUS
      <3>1. h.id = k.id
        BY <2>2
      <3> QED
        BY <3>1
    <2> QED
      BY <2>1, <2>5, <2>6
  <1> QED
    BY <1>1, <1>2

LEMMA DropSound ==
  ASSUME NEW db \in DbObj, Sound(db), NEW gone
  PROVE  Drop(db, gone) \in DbObj /\ Sound(Drop(db, gone))
  BY DEF Drop, DbObj, Sound

(* Whatever point the writing of a sound document is cut short at, what is *)
(* left is sound: the counter comes first in the file.                     *)
LEMMA TornSound ==
  ASSUME NEW db \in DbObj, Sound(db), NEW d \in Torn(db)
  PROVE  d \in DbObj /\ Sound(d)
  <1>1. CASE d = EmptyDb
    BY <1>1, EmptyDbSound
  <1>2. CASE \E k \in 0 .. db.lastId : d = [db EXCEPT !.groups = {g \in @ : g.id <= k}]
    BY <1>2 DEF DbObj, Sound
  <1> QED
    BY <1>1, <1>2 DEF Torn

-----------------------------------------------------------------------------
(* The results of the calls are results.                                   *)
LEMMA NoResultType == NoResult \in Results
  BY DEF NoResult, Abstract!NoResult, Abstract!Result, Results

LEMMA ResultType ==
  ASSUME NEW status \in {"none", "ok", "created", "saved", "not found",
                         "write error", "exception"},
         NEW S \in SUBSET Group
  PROVE  Result(status, S) \in Results
  BY DEF Result, Abstract!Result, Results

LEMMA FoundType ==
  ASSUME NEW S \in SUBSET Group
  PROVE  Found(S) \in Results
  BY DEF Found, Abstract!Found, Abstract!Result, Results

LEMMA SaveResultType ==
  ASSUME NEW db \in DbObj, NEW g \in Group, CanSave(db, g)
  PROVE  Abstract!SaveResult(db, g) \in Results
  <1>1. Abstract!Saved(db, g) \in Group
    BY GroupDbAssumption DEF CanSave, NoId, Abstract!Saved, Abstract!NoId, Group, DbObj
  <1> QED
    BY <1>1 DEF Abstract!SaveResult, Abstract!Result, Results

-----------------------------------------------------------------------------
(* The invariant: types, and sound documents in memory and in the file.    *)
(* Sound is needed to type the documents a torn write leaves.              *)
Inv == TypeOK /\ IdsSound

LEMMA OpenedSound ==
  ASSUME Inv, NEW db \in Opened
  PROVE  db \in DbObj /\ Sound(db)
  BY EmptyDbSound DEF Inv, TypeOK, IdsSound, Opened

\* A call that only reads.
LEMMA ReturnInv ==
  ASSUME Inv, NEW t \in Threads, NEW db \in DbObj, Sound(db),
         NEW result \in Results, Return(t, db, result)
  PROVE  Inv'
  BY DEF Inv, TypeOK, IdsSound, Return

\* The first half of a call that changes the document.
LEMMA BeginInv ==
  ASSUME Inv, NEW t \in Threads, NEW db \in DbObj, Sound(db),
         NEW result \in Results, Begin(t, db, result)
  PROVE  Inv'
  BY StorageAssumption DEF Inv, TypeOK, IdsSound, Begin

LEMMA InitInv == Init => Inv
  BY StorageAssumption, EmptyDbSound, NoResultType
     DEF Init, Inv, TypeOK, IdsSound

LEMMA NextInv == Inv /\ [Next]_storageVars => Inv'
  <1> SUFFICES ASSUME Inv, [Next]_storageVars PROVE Inv'
    OBVIOUS
  <1> USE DEF DbObj
  <1>1. ASSUME NEW t \in Threads, NEW n \in Names, ByName(t, n) PROVE Inv'
    <2> PICK db \in Opened : Return(t, db, Found(First(WithName(db, n))))
      BY <1>1 DEF ByName
    <2>1. First(WithName(db, n)) \in SUBSET Group
      BY OpenedSound DEF First, WithName
    <2> QED
      BY <2>1, OpenedSound, FoundType, ReturnInv
  <1>2. ASSUME NEW t \in Threads, NEW n \in Names, RemoveByName(t, n) PROVE Inv'
    <2> PICK db \in Opened : \E gone \in Removals(WithName(db, n)) :
               Begin(t, Drop(db, gone), Result("ok", {}))
      BY <1>2 DEF RemoveByName
    <2> QED
      BY OpenedSound, DropSound, ResultType, BeginInv
  <1>3. ASSUME NEW t \in Threads, NEW i \in 0 .. MaxId, ById(t, i) PROVE Inv'
    <2> PICK db \in Opened : Return(t, db, Found(First(WithId(db, i))))
      BY <1>3 DEF ById
    <2>1. First(WithId(db, i)) \in SUBSET Group
      BY OpenedSound DEF First, WithId
    <2> QED
      BY <2>1, OpenedSound, FoundType, ReturnInv
  <1>4. ASSUME NEW t \in Threads, NEW i \in 0 .. MaxId, Remove(t, i) PROVE Inv'
    <2> PICK db \in Opened :
          \/ Return(t, db, Found({}))
          \/ \E gone \in Removals(WithId(db, i)) :
               Begin(t, Drop(db, gone), Result("ok", {}))
      BY <1>4 DEF Remove
    <2> QED
      BY OpenedSound, DropSound, ResultType, FoundType, ReturnInv, BeginInv
  <1>5. ASSUME NEW t \in Threads, NEW g \in Group, Save(t, g) PROVE Inv'
    <2> PICK db \in Opened :
          CanSave(db, g) /\ Begin(t, SaveTo(db, g), Abstract!SaveResult(db, g))
      BY <1>5 DEF Save
    <2> QED
      BY OpenedSound, SaveToSound, SaveResultType, BeginInv
  <1>6. ASSUME NEW t \in Threads, Keys(t) PROVE Inv'
    <2> PICK db \in Opened : Return(t, db, Result("ok", db.groups))
      BY <1>6 DEF Keys
    <2> QED
      BY OpenedSound, ResultType, ReturnInv
  <1>7. ASSUME NEW t \in Threads, WriteDone(t) PROVE Inv'
    <2>1. acked' \in SUBSET (0 .. MaxId)
      BY <1>7, GroupDbAssumption DEF WriteDone, Inv, TypeOK, Results, Group
    <2> QED
      BY <1>7, <2>1, NoResultType, StorageAssumption
         DEF WriteDone, Inv, TypeOK, IdsSound
  <1>8. ASSUME NEW t \in Threads, WriteFailed(t) PROVE Inv'
    <2>1. file' \in DbObj /\ Sound(file')
      BY <1>8, TornSound DEF WriteFailed, Inv, TypeOK, IdsSound
    <2>2. ret' \in [Threads -> Results]
      BY <1>8, ResultType DEF WriteFailed, Inv, TypeOK
    <2> QED
      BY <1>8, <2>1, <2>2, NoResultType, StorageAssumption
         DEF WriteFailed, Inv, TypeOK, IdsSound
  <1>9. ASSUME NEW t \in Threads, InitThrows(t) PROVE Inv'
    BY <1>9, EmptyDbSound, ResultType, ReturnInv DEF InitThrows
  <1>10. CASE Crash
    <2>1. file' \in DbObj /\ Sound(file')
      BY <1>10, TornSound DEF Crash, Inv, TypeOK, IdsSound
    <2> QED
      BY <1>10, <2>1, EmptyDbSound, NoResultType
         DEF Crash, Inv, TypeOK, IdsSound
  <1>11. CASE UNCHANGED storageVars
    BY <1>11 DEF storageVars, Inv, TypeOK, IdsSound
  <1> QED
    BY <1>1, <1>2, <1>3, <1>4, <1>5, <1>6, <1>7, <1>8, <1>9, <1>10, <1>11
       DEF Next

(* Every variable of Storage has its type, the mutex is never held before  *)
(* the document was loaded, and a call is pending exactly while it is held. *)
THEOREM TypeCorrect == Spec => []TypeOK
  <1>1. Inv => TypeOK
    BY DEF Inv
  <1> QED
    BY <1>1, InitInv, NextInv, PTL DEF Spec

(* Ids are unique and within the counter, in memory and in the file,       *)
(* through crashes, torn writes, failed writes and failed loads.           *)
THEOREM IdsAlwaysSound == Spec => []IdsSound
  <1>1. Inv => IdsSound
    BY DEF Inv
  <1> QED
    BY <1>1, InitInv, NextInv, PTL DEF Spec

-----------------------------------------------------------------------------
(* Without failing loads, the document a call works on is the file.        *)
LEMMA OpenedIsFile ==
  ASSUME Inv, "load" \notin Faults, DurableWhenIdle, mutex = NoThread
  PROVE  Opened = {file}
  BY DEF Opened, DurableWhenIdle

(* As long as loads and writes succeed, memory and file agree whenever no  *)
(* call runs: the call that is going on is the only difference.            *)
THEOREM DurableAlways ==
  ASSUME Faults \subseteq {"kill", "tear"}
  PROVE  Spec => []DurableWhenIdle
  <1>1. Init => DurableWhenIdle
    BY DEF Init, DurableWhenIdle
  <1>2. Inv /\ DurableWhenIdle /\ [Next]_storageVars => DurableWhenIdle'
    <2> SUFFICES ASSUME Inv, DurableWhenIdle, [Next]_storageVars
                 PROVE  DurableWhenIdle'
      OBVIOUS
    <2>1. ASSUME NEW t \in Threads, NEW db \in Opened, NEW result, Return(t, db, result)
          PROVE  DurableWhenIdle'
      BY <2>1, OpenedIsFile DEF Return, DurableWhenIdle
    <2>2. ASSUME NEW t \in Threads, NEW db, NEW result, Begin(t, db, result)
          PROVE  DurableWhenIdle'
      BY <2>2, StorageAssumption DEF Begin, DurableWhenIdle
    <2>3. ASSUME NEW t \in Threads, WriteDone(t) PROVE DurableWhenIdle'
      BY <2>3 DEF WriteDone, DurableWhenIdle
    <2>4. ASSUME NEW t \in Threads PROVE ~WriteFailed(t) /\ ~InitThrows(t)
      BY DEF WriteFailed, InitThrows
    <2>5. CASE Crash
      BY <2>5 DEF Crash, DurableWhenIdle
    <2>6. CASE UNCHANGED storageVars
      BY <2>6 DEF storageVars, DurableWhenIdle
    <2>7. ASSUME NEW t \in Threads, NEW n \in Names, ByName(t, n) \/ RemoveByName(t, n)
          PROVE  DurableWhenIdle'
      BY <2>7, <2>1, <2>2 DEF ByName, RemoveByName
    <2>8. ASSUME NEW t \in Threads, NEW i \in 0 .. MaxId, ById(t, i) \/ Remove(t, i)
          PROVE  DurableWhenIdle'
      BY <2>8, <2>1, <2>2 DEF ById, Remove
    <2>9. ASSUME NEW t \in Threads, NEW g \in Group, Save(t, g)
          PROVE  DurableWhenIdle'
      BY <2>9, <2>2 DEF Save
    <2>10. ASSUME NEW t \in Threads, Keys(t) PROVE DurableWhenIdle'
      BY <2>10, <2>1 DEF Keys
    <2> QED
      BY <2>3, <2>4, <2>5, <2>6, <2>7, <2>8, <2>9, <2>10 DEF Next
  <1> QED
    BY <1>1, <1>2, InitInv, NextInv, PTL DEF Spec

-----------------------------------------------------------------------------
(* Why ids are fresh: what was acknowledged is within the counter of the   *)
(* file, and what is about to be acknowledged is between the counter of    *)
(* the file and the counter of the memory.                                 *)
Counted ==
  /\ \A i \in acked : i <= file.lastId
  /\ mutex # NoThread => file.lastId <= memory.lastId
  /\ pending.status = "created" =>
       \A g \in pending.groups : file.lastId < g.id /\ g.id <= memory.lastId

LEMMA SavedIsCounted ==
  ASSUME NEW db \in DbObj, NEW g \in Group
  PROVE  /\ db.lastId <= SaveTo(db, g).lastId
         /\ Abstract!SaveResult(db, g).status = "created" =>
              \A h \in Abstract!SaveResult(db, g).groups :
                db.lastId < h.id /\ h.id <= SaveTo(db, g).lastId
  <1>1. CASE g.id = NoId
    <2>1. Abstract!Saved(db, g) = [g EXCEPT !.id = db.lastId + 1]
      BY <1>1 DEF Abstract!Saved, Abstract!NoId, NoId
    <2>2. SaveTo(db, g).lastId = db.lastId + 1
      BY <1>1 DEF SaveTo
    <2> QED
      BY <2>1, <2>2
         DEF Abstract!SaveResult, Abstract!Result, Group, DbObj
  <1>2. CASE g.id # NoId
    BY <1>2 DEF SaveTo, Abstract!SaveResult, Abstract!Result, Abstract!NoId, NoId, DbObj
  <1> QED
    BY <1>1, <1>2

LEMMA BeginCounted ==
  ASSUME Inv, Counted, mutex = NoThread,
         NEW t \in Threads, NEW db, NEW result, Begin(t, db, result),
         db.lastId \in Nat, file.lastId <= db.lastId,
         result.status = "created" =>
           \A g \in result.groups : file.lastId < g.id /\ g.id <= db.lastId
  PROVE  Counted'
  BY DEF Begin, Counted

\* The counter in the file has passed every id that was returned as new.
LEMMA CountedAlways ==
  ASSUME Faults \subseteq {"kill"}
  PROVE  Spec => []Counted
  <1>1. Init => Counted
    BY DEF Init, Counted, NoResult, Abstract!NoResult, Abstract!Result
  <1>2. Inv /\ DurableWhenIdle /\ Counted /\ [Next]_storageVars => Counted'
    <2> SUFFICES ASSUME Inv, DurableWhenIdle, Counted, [Next]_storageVars
                 PROVE  Counted'
      OBVIOUS
    <2>0. file \in DbObj /\ memory \in DbObj /\ pending \in Results
      BY DEF Inv, TypeOK
    <2>1. ASSUME NEW t \in Threads, NEW db, NEW result, Return(t, db, result)
          PROVE  Counted'
      BY <2>1 DEF Return, Counted, Inv, TypeOK, NoResult, Abstract!NoResult, Abstract!Result
    <2>2. ASSUME NEW t \in Threads, NEW db \in Opened, NEW gone,
                 Begin(t, Drop(db, gone), Result("ok", {}))
          PROVE  Counted'
      <3>1. mutex = NoThread /\ db = file
        BY <2>2, OpenedIsFile DEF Begin
      <3>2. Drop(db, gone).lastId = file.lastId
        BY <3>1, <2>0 DEF Drop, DbObj
      <3> QED
        BY <2>0, <2>2, <3>1, <3>2, BeginCounted DEF Result, Abstract!Result, DbObj
    <2>3. ASSUME NEW t \in Threads, NEW g \in Group, Save(t, g) PROVE Counted'
      <3>1. /\ mutex = NoThread
            /\ CanSave(file, g)
            /\ Begin(t, SaveTo(file, g), Abstract!SaveResult(file, g))
        BY <2>3, OpenedIsFile DEF Save, Begin
      <3>2. SaveTo(file, g) \in DbObj
        BY <2>0, <3>1, SaveToSound DEF Inv, IdsSound
      <3> QED
        BY <2>0, <3>1, <3>2, SavedIsCounted, BeginCounted DEF DbObj
    <2>4. ASSUME NEW t \in Threads, WriteDone(t) PROVE Counted'
      <3>1. file.lastId <= memory.lastId
        BY <2>4, StorageAssumption DEF WriteDone, Counted
      <3>2. \A i \in acked : i <= memory.lastId
        BY <2>0, <3>1 DEF Counted, Inv, TypeOK, DbObj
      <3>3. \A i \in acked' : i <= memory.lastId
        BY <2>4, <3>2 DEF WriteDone, Counted
      <3> QED
        BY <2>4, <3>3
           DEF WriteDone, Counted, NoResult, Abstract!NoResult, Abstract!Result
    <2>5. ASSUME NEW t \in Threads PROVE ~WriteFailed(t) /\ ~InitThrows(t)
      BY DEF WriteFailed, InitThrows
    <2>6. CASE Crash
      <3>1. file' = file \/ (mutex # NoThread /\ file' = memory)
        BY <2>6 DEF Crash
      <3>2. ASSUME mutex # NoThread, NEW i \in acked PROVE i <= memory.lastId
        <4>1. i \in Nat /\ file.lastId \in Nat /\ memory.lastId \in Nat
          BY <2>0 DEF Inv, TypeOK, DbObj
        <4>2. i <= file.lastId /\ file.lastId <= memory.lastId
          BY <3>2 DEF Counted
        <4> QED
          BY <4>1, <4>2
      <3>3. \A i \in acked : i <= file'.lastId
        BY <3>1, <3>2 DEF Counted
      <3> QED
        BY <2>6, <3>3
           DEF Crash, Counted, NoResult, Abstract!NoResult, Abstract!Result
    <2>7. CASE UNCHANGED storageVars
      BY <2>7 DEF storageVars, Counted
    <2>8. ASSUME NEW t \in Threads, NEW n \in Names, ByName(t, n) \/ RemoveByName(t, n)
          PROVE  Counted'
      BY <2>8, <2>1, <2>2 DEF ByName, RemoveByName
    <2>9. ASSUME NEW t \in Threads, NEW i \in 0 .. MaxId, ById(t, i) \/ Remove(t, i)
          PROVE  Counted'
      BY <2>9, <2>1, <2>2 DEF ById, Remove
    <2>10. ASSUME NEW t \in Threads, Keys(t) PROVE Counted'
      BY <2>10, <2>1 DEF Keys
    <2> QED
      BY <2>3, <2>4, <2>5, <2>6, <2>7, <2>8, <2>9, <2>10 DEF Next
  <1>3. Spec => []DurableWhenIdle
    BY DurableAlways
  <1> QED
    BY <1>1, <1>2, <1>3, InitInv, NextInv, PTL DEF Spec

(* As long as no write is torn and nothing fails but the process, an id is *)
(* never returned as new twice.                                            *)
THEOREM FreshIdsAlways ==
  ASSUME Faults \subseteq {"kill"}
  PROVE  Spec => []FreshIds
  <1>1. Inv /\ Counted => FreshIds
    <2> SUFFICES ASSUME Inv, Counted, NEW g \in pending.groups,
                        pending.status = "created", g.id \in acked
                 PROVE  FALSE
      BY DEF FreshIds
    <2>1. g.id <= file.lastId /\ file.lastId < g.id
      BY DEF Counted
    <2>2. g.id \in 0 .. MaxId /\ file.lastId \in 0 .. MaxId
      BY DEF Inv, TypeOK, DbObj
    <2> QED
      BY <2>1, <2>2
  <1> QED
    BY <1>1, CountedAlways, TypeCorrect, IdsAlwaysSound, PTL DEF Inv

-----------------------------------------------------------------------------
(* Storage implements the catalog.  The catalog has the file for its state, *)
(* so a changing call takes effect there when its write is done; until     *)
(* then its outcome is one the catalog allows (Ongoing).                   *)

(* The operators Catalog gets from GroupDb are those of Storage.           *)
LEMMA SameOperators ==
  /\ Abstract!Group = Group
  /\ Abstract!DbObj = DbObj
  /\ \A d : Abstract!Sound(d) = Sound(d) /\ Abstract!Torn(d) = Torn(d)
  /\ \A d, g : /\ Abstract!CanSave(d, g) = CanSave(d, g)
               /\ Abstract!SaveTo(d, g) = SaveTo(d, g)
               /\ Abstract!Drop(d, g) = Drop(d, g)
               /\ Abstract!WithId(d, g) = WithId(d, g)
               /\ Abstract!WithName(d, g) = WithName(d, g)
  /\ \A S : Abstract!First(S) = First(S) /\ Abstract!Removals(S) = Removals(S)
  BY DEF Abstract!Group, Group, Abstract!DbObj, DbObj,
         Abstract!Sound, Sound, Abstract!Torn, Torn, Abstract!EmptyDb, EmptyDb,
         Abstract!CanSave, CanSave, Abstract!SaveTo, SaveTo, Abstract!Saved, Saved,
         Abstract!Drop, Drop, Abstract!WithId, WithId, Abstract!WithName, WithName,
         Abstract!First, First, Abstract!Removals, Removals, Abstract!NoId, NoId

LEMMA SaveEffect ==
  ASSUME NEW d, NEW g \in Group, CanSave(d, g)
  PROVE  Abstract!Effect(SaveTo(d, g), Abstract!SaveResult(d, g)) \in Abstract!Effects(d)
  BY SameOperators DEF Abstract!SaveEffects, Abstract!Effects

LEMMA DropEffect ==
  ASSUME NEW d, NEW matches, NEW gone \in Removals(matches)
  PROVE  Abstract!Effect(Drop(d, gone), Result("ok", {})) \in Abstract!DropEffects(d, matches)
  BY SameOperators DEF Abstract!DropEffects, Result

LEMMA DropIdEffect ==
  ASSUME NEW d, NEW i \in 0 .. MaxId, WithId(d, i) # {}
  PROVE  Abstract!DropEffects(d, WithId(d, i)) \subseteq Abstract!Effects(d)
  BY SameOperators DEF Abstract!Effects

LEMMA DropNameEffect ==
  ASSUME NEW d, NEW n \in Names
  PROVE  Abstract!DropEffects(d, WithName(d, n)) \subseteq Abstract!Effects(d)
  BY SameOperators DEF Abstract!Effects

Ongoing ==
  mutex # NoThread => Abstract!Effect(memory, pending) \in Abstract!Effects(file)

\* A call that only reads is a Look of the catalog.
LEMMA ReturnLooks ==
  ASSUME Inv, Ongoing, NEW t \in Threads, NEW db,
         NEW result \in Abstract!Answers(file), Return(t, db, result)
  PROVE  Ongoing' /\ Abstract!Look(t)
  BY DEF Return, Ongoing, Abstract!Look

\* The first half of a call that changes the document is invisible.
LEMMA BeginStutters ==
  ASSUME NEW t \in Threads, NEW db, NEW result, Begin(t, db, result),
         Abstract!Effect(db, result) \in Abstract!Effects(file)
  PROVE  Ongoing' /\ UNCHANGED Abstract!vars
  BY DEF Begin, Ongoing, Abstract!vars

LEMMA AnswerTypes ==
  /\ \A i \in 0 .. MaxId : Found(First(WithId(file, i))) \in Abstract!Answers(file)
  /\ \A n \in Names : Found(First(WithName(file, n))) \in Abstract!Answers(file)
  /\ Result("ok", file.groups) \in Abstract!Answers(file)
  BY SameOperators DEF Abstract!Answers, Found, Result

LEMMA StepRefines ==
  ASSUME Faults \subseteq {"kill", "tear"},
         Inv, DurableWhenIdle, Ongoing, [Next]_storageVars
  PROVE  Ongoing' /\ [Abstract!Next]_(Abstract!vars)
  <1> DEFINE Goal == Ongoing' /\ [Abstract!Next]_(Abstract!vars)
  <1>1. ASSUME NEW t \in Threads, Abstract!Look(t) \/ Abstract!Change(t)
        PROVE  Abstract!Next
    BY <1>1 DEF Abstract!Next
  <1>2. mutex = NoThread => Opened = {file}
    BY OpenedIsFile
  <1>3. ASSUME NEW t \in Threads, NEW n \in Names, ByName(t, n) PROVE Goal
    <2>1. Return(t, file, Found(First(WithName(file, n))))
      BY <1>2, <1>3 DEF ByName, Return
    <2> QED
      BY <1>1, <2>1, AnswerTypes, ReturnLooks
  <1>4. ASSUME NEW t \in Threads, NEW i \in 0 .. MaxId, ById(t, i) PROVE Goal
    <2>1. Return(t, file, Found(First(WithId(file, i))))
      BY <1>2, <1>4 DEF ById, Return
    <2> QED
      BY <1>1, <2>1, AnswerTypes, ReturnLooks
  <1>5. ASSUME NEW t \in Threads, Keys(t) PROVE Goal
    <2>1. Return(t, file, Result("ok", file.groups))
      BY <1>2, <1>5 DEF Keys, Return
    <2> QED
      BY <1>1, <2>1, AnswerTypes, ReturnLooks
  <1>6. ASSUME NEW t \in Threads, NEW n \in Names, RemoveByName(t, n) PROVE Goal
    <2> PICK gone \in Removals(WithName(file, n)) :
               Begin(t, Drop(file, gone), Result("ok", {}))
      BY <1>2, <1>6 DEF RemoveByName, Begin
    <2> QED
      BY DropEffect, DropNameEffect, BeginStutters
  <1>7. ASSUME NEW t \in Threads, NEW i \in 0 .. MaxId, Remove(t, i) PROVE Goal
    <2>1. CASE WithId(file, i) = {} /\ Return(t, file, Found({}))
      <3>1. First(WithId(file, i)) = {}
        BY <2>1 DEF First
      <3> QED
        BY <1>1, <2>1, <3>1, AnswerTypes, ReturnLooks
    <2>2. CASE WithId(file, i) # {} /\ \E gone \in Removals(WithId(file, i)) :
                 Begin(t, Drop(file, gone), Result("ok", {}))
      BY <2>2, DropEffect, DropIdEffect, BeginStutters
    <2>3. \/ WithId(file, i) = {} /\ Return(t, file, Found({}))
          \/ WithId(file, i) # {} /\ \E gone \in Removals(WithId(file, i)) :
                                      Begin(t, Drop(file, gone), Result("ok", {}))
      BY <1>2, <1>7 DEF Remove, Begin, Return
    <2> QED
      BY <2>1, <2>2, <2>3
  <1>8. ASSUME NEW t \in Threads, NEW g \in Group, Save(t, g) PROVE Goal
    <2>1. CanSave(file, g) /\ Begin(t, SaveTo(file, g), Abstract!SaveResult(file, g))
      BY <1>2, <1>8 DEF Save, Begin
    <2> QED
      BY <2>1, SaveEffect, BeginStutters
  <1>9. ASSUME NEW t \in Threads, WriteDone(t) PROVE Goal
    <2>1. Abstract!Effect(memory, pending) \in Abstract!Effects(file)
      BY <1>9, StorageAssumption DEF WriteDone, Ongoing
    <2>2. Abstract!Change(t)
      BY <1>9, <2>1 DEF WriteDone, Abstract!Change, Abstract!Effect
    <2> QED
      BY <1>1, <1>9, <2>2 DEF WriteDone, Ongoing
  <1>10. ASSUME NEW t \in Threads PROVE ~WriteFailed(t) /\ ~InitThrows(t)
    BY DEF WriteFailed, InitThrows
  <1>11. CASE Crash
    <2>1. mutex # NoThread => Abstract!Effect(memory, pending) \in Abstract!Effects(file)
      BY DEF Ongoing
    <2>2. Abstract!Crash
      BY <1>11, <2>1, SameOperators
         DEF Crash, Abstract!Crash, Abstract!Effect, NoResult
    <2> QED
      BY <1>11, <2>2 DEF Crash, Ongoing, Abstract!Next
  <1>12. CASE UNCHANGED storageVars
    BY <1>12 DEF storageVars, Ongoing, Abstract!vars
  <1> QED
    BY <1>3, <1>4, <1>5, <1>6, <1>7, <1>8, <1>9, <1>10, <1>11, <1>12 DEF Next

(* Every call of Storage takes effect on the stored catalog, and is        *)
(* answered from it, in one step, and no crash loses or revives anything   *)
(* but the write it cut short.                                             *)
THEOREM StorageImplementsCatalog ==
  ASSUME Faults \subseteq {"kill", "tear"}
  PROVE  Spec => ImplementsCatalog
  <1>1. Init => Abstract!Init /\ Ongoing
    BY StorageAssumption, SameOperators DEF Init, Abstract!Init, Ongoing, NoResult
  <1>2. Inv /\ DurableWhenIdle /\ Ongoing /\ [Next]_storageVars
          => Ongoing' /\ [Abstract!Next]_(Abstract!vars)
    BY StepRefines
  <1>3. Spec => []DurableWhenIdle
    BY DurableAlways
  <1> QED
    BY <1>1, <1>2, <1>3, InitInv, NextInv, PTL
       DEF Spec, ImplementsCatalog, Abstract!Spec
=============================================================================
