------------------------------- MODULE Storage -------------------------------
(***************************************************************************)
(* class Storage of server/src/lib/storage.cpp: the groups in memory, the  *)
(* YAML file behind them, and the mutex every call takes.                  *)
(*                                                                         *)
(* A call that only reads is one step: it holds the mutex from its first   *)
(* line to its return, so nobody sees it half done.  A call that changes   *)
(* the document is two: it changes the memory (Save, Remove, RemoveByName) *)
(* and, still under the mutex, writes the file and returns (WriteDone,     *)
(* WriteFailed).  The process can die between the two.  Every call first   *)
(* loads the file if no call did so before (Opened).                       *)
(*                                                                         *)
(* Two things are identified with the document a load gets out of them: a  *)
(* file that does not exist (the load fails, init's error is dropped, the  *)
(* document stays empty) and a file whose writing was cut short (Torn).    *)
(***************************************************************************)
EXTENDS GroupDb

CONSTANTS Threads,       \* threads that call Storage
          NoThread,
          InitialFiles,  \* documents an earlier run can have left behind
          Faults         \* what can go wrong, see FaultKinds

(* "kill"   the process dies (only SIGINT and SIGHUP are handled, and the  *)
(*          service unit restarts the agent always)                        *)
(* "tear"   it can die in the middle of writing the file                   *)
(* "write"  serializeFile can return an error                              *)
(* "load"   deserializeFile can return an error, or create_directories     *)
(*          throw, although the file is there                              *)
FaultKinds == {"kill", "tear", "write", "load"}

ASSUME StorageAssumption ==
  /\ NoThread \notin Threads
  /\ InitialFiles \subseteq {d \in DbObj : Sound(d)}
  /\ Faults \subseteq FaultKinds

VARIABLES inited,   \* Impl::m_inited
          memory,   \* Impl::db
          file,     \* what is stored under Impl::m_dbpath
          mutex,    \* Impl::mutex: the thread that holds it, between steps
          pending,  \* what the call that holds the mutex is going to return
          ret,      \* what the last call of each thread returned
          acked     \* history: the ids that were returned as created

storageVars == <<inited, memory, file, mutex, pending, ret, acked>>

\* The answers and the promise: the file is the catalog.
Abstract == INSTANCE Catalog WITH db <- file, Lossy <- "tear" \in Faults

Result(status, groups) == Abstract!Result(status, groups)
NoResult == Abstract!NoResult
Found(S) == Abstract!Found(S)

Results == [status : {"none", "ok", "created", "saved", "not found",
                      "write error", "exception"},
            groups : SUBSET Group]

-----------------------------------------------------------------------------
Init ==
  /\ inited = FALSE
  /\ memory = EmptyDb
  /\ file \in InitialFiles
  /\ mutex = NoThread
  /\ pending = NoResult
  /\ ret = [t \in Threads |-> NoResult]
  /\ acked = {}

(* if (!inited()) init(): the document the call works on.  The callers     *)
(* drop the error of init, so a load that fails leaves the empty document. *)
Opened ==
  IF inited THEN {memory}
  ELSE {file} \cup (IF "load" \in Faults THEN {EmptyDb} ELSE {})

\* Mutant: init does not remember that it ran.
Return_Uninited(t, db, result) ==
  /\ mutex = NoThread
  /\ memory' = db
  /\ ret' = [ret EXCEPT ![t] = result]
  /\ UNCHANGED <<inited, file, mutex, pending, acked>>

(* A call that changes nothing: the mutex is free, the document is opened, *)
(* and the call returns.                                                   *)
Return(t, db, result) ==
  /\ mutex = NoThread
  /\ inited' = TRUE
  /\ memory' = db
  /\ ret' = [ret EXCEPT ![t] = result]
  /\ UNCHANGED <<file, mutex, pending, acked>>

(* A call that changes the document: it goes on holding the mutex.         *)
Begin(t, db, result) ==
  /\ mutex = NoThread
  /\ inited' = TRUE
  /\ memory' = db
  /\ mutex' = t
  /\ pending' = result
  /\ UNCHANGED <<file, ret, acked>>

ByName(t, n) == \E db \in Opened : Return(t, db, Found(First(WithName(db, n))))

ById(t, i) == \E db \in Opened : Return(t, db, Found(First(WithId(db, i))))

\* names() and ids(): a projection of the whole list.
Keys(t) == \E db \in Opened : Return(t, db, Result("ok", db.groups))

Save(t, g) ==
  \E db \in Opened :
    CanSave(db, g) /\ Begin(t, SaveTo(db, g), Abstract!SaveResult(db, g))

RemoveByName(t, n) ==
  \E db \in Opened : \E gone \in Removals(WithName(db, n)) :
    Begin(t, Drop(db, gone), Result("ok", {}))

\* Mutant: the document is saved when nothing was removed, not when something was.
Remove_Inverted(t, i) ==
  \E db \in Opened :
    \/ WithId(db, i) = {} /\ Begin(t, db, Result("ok", {}))
    \/ /\ WithId(db, i) # {}
       /\ \E gone \in Removals(WithId(db, i)) : Return(t, Drop(db, gone), Found({}))

\* Nothing is written when there is no such id.
Remove(t, i) ==
  \E db \in Opened :
    \/ WithId(db, i) = {} /\ Return(t, db, Found({}))
    \/ /\ WithId(db, i) # {}
       /\ \E gone \in Removals(WithId(db, i)) :
            Begin(t, Drop(db, gone), Result("ok", {}))

-----------------------------------------------------------------------------
\* Mutant: save returns without having written.
WriteDone_NoFile(t) ==
  /\ mutex = t
  /\ mutex' = NoThread
  /\ pending' = NoResult
  /\ ret' = [ret EXCEPT ![t] = pending]
  /\ acked' = acked \cup {g.id : g \in {h \in pending.groups : pending.status = "created"}}
  /\ UNCHANGED <<inited, memory, file>>

\* Impl::save writes the whole document, and the call returns.
WriteDone(t) ==
  /\ mutex = t
  /\ file' = memory
  /\ mutex' = NoThread
  /\ pending' = NoResult
  /\ ret' = [ret EXCEPT ![t] = pending]
  /\ acked' = acked \cup {g.id : g \in {h \in pending.groups : pending.status = "created"}}
  /\ UNCHANGED <<inited, memory>>

(* Impl::save returns an error, before it touched the file or after.  The  *)
(* memory keeps the change the caller is told has failed.                  *)
WriteFailed(t) ==
  /\ "write" \in Faults
  /\ mutex = t
  /\ file' \in {file} \cup Torn(memory)
  /\ mutex' = NoThread
  /\ pending' = NoResult
  /\ ret' = [ret EXCEPT ![t] = Result("write error", {})]
  /\ UNCHANGED <<inited, memory, acked>>

(* std::filesystem::create_directories throws in init, after m_inited was  *)
(* set: the call ends with the exception, and the next one finds an empty  *)
(* document that counts as loaded.                                         *)
InitThrows(t) ==
  /\ "load" \in Faults
  /\ ~inited
  /\ Return(t, EmptyDb, Result("exception", {}))

(* The process dies and is started again.                                  *)
Crash ==
  /\ "kill" \in Faults
  /\ inited' = FALSE
  /\ memory' = EmptyDb
  /\ mutex' = NoThread
  /\ pending' = NoResult
  /\ ret' = [t \in Threads |-> NoResult]
  /\ UNCHANGED acked
  /\ \/ UNCHANGED file
     \/ mutex # NoThread /\ file' = memory
     \/ mutex # NoThread /\ "tear" \in Faults /\ file' \in Torn(memory)

Next ==
  \/ \E t \in Threads :
       \/ \E n \in Names : ByName(t, n) \/ RemoveByName(t, n)
       \/ \E i \in 0 .. MaxId : ById(t, i) \/ Remove(t, i)
       \/ \E g \in Group : Save(t, g)
       \/ Keys(t)
       \/ WriteDone(t) \/ WriteFailed(t) \/ InitThrows(t)
  \/ Crash

Spec == Init /\ [][Next]_storageVars

-----------------------------------------------------------------------------
TypeOK ==
  /\ inited \in BOOLEAN
  /\ memory \in DbObj
  /\ file \in DbObj
  /\ mutex \in Threads \cup {NoThread}
  /\ pending \in Results
  /\ ret \in [Threads -> Results]
  /\ acked \in SUBSET (0 .. MaxId)
  /\ ~inited => mutex = NoThread /\ memory = EmptyDb
  /\ mutex = NoThread => pending = NoResult

(* Whatever fails, no two groups ever share an id, and no group has an id  *)
(* the counter has not passed: neither in memory nor in any file a crash   *)
(* or a failed write leaves behind.  Storage finds and removes groups by   *)
(* id, so a double id would make one of the two unreachable.               *)
IdsSound == Sound(memory) /\ Sound(file)

(* As long as loads and writes succeed, the file equals the memory whenever *)
(* no call is running, however the process was killed before: what a call  *)
(* returned is what the next run of the agent will load.                   *)
DurableWhenIdle == mutex = NoThread /\ inited => memory = file

(* An id about to be returned as new was never returned as new before, not *)
(* even by an earlier run of the agent that was killed between two writes. *)
FreshIds ==
  \A g \in pending.groups : pending.status = "created" => g.id \notin acked

(* Every call takes effect on the file, and is answered, in one step, and  *)
(* a crash neither loses nor revives anything: Storage implements the      *)
(* catalog.                                                                *)
ImplementsCatalog == Abstract!Spec
=============================================================================
